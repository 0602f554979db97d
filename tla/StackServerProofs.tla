------------------------- MODULE StackServerProofs --------------------------
(***************************************************************************)
(* Proofs about the exchange between the two processes of StackServer, for *)
(* any set of values and any memory.  Lockstep is inductive: steps of the  *)
(* parent and of the child pass one token (the pipe, the child's program   *)
(* counter, the pending signal, sig_status) around.                        *)
(***************************************************************************)
EXTENDS StackServer, SequenceTheorems, FiniteSetTheorems,
        WellFoundedInduction, TLAPS

LEMMA InitLockstep == Init => Lockstep
  BY DEF Init, Lockstep, ChannelTypes, SignalMeansDone, OneRequest, HasRoom

LEMMA StepLockstep == Lockstep /\ [Next]_vars => Lockstep'
<1> SUFFICES ASSUME Lockstep, [Next]_vars PROVE Lockstep'
  OBVIOUS
<1> USE DEF Lockstep, ChannelTypes, SignalMeansDone, OneRequest, HasRoom,
            ClientGoes, ServerGoes, serverVars, stackVars, clientVars
<1>1. CASE ResetSignal
  BY <1>1 DEF ResetSignal
<1>2. CASE TypeCommand
  BY <1>2 DEF TypeCommand
<1>3. CASE Mistype
  BY <1>3 DEF Mistype
<1>4. CASE EndOfInput
  BY <1>4 DEF EndOfInput
<1>5. CASE WriteCommand
  <2>1. pipe = << >> /\ typed \in Commands /\ HasRoom(typed)
    BY <1>5 DEF WriteCommand
  <2>2. pipe' = <<typed>>
    BY <1>5, <2>1 DEF WriteCommand
  <2> QED
    BY <1>5, <2>1, <2>2 DEF WriteCommand
<1>6. CASE Signalled
  BY <1>6 DEF Signalled
<1>7. CASE StopWaiting
  BY <1>7 DEF StopWaiting
<1>8. CASE ReadCommand
  <2>1. PICK c \in Commands : pipe = <<c>>
    BY <1>8 DEF ReadCommand
  <2>2. command' = c /\ pipe' = << >>
    BY <1>8, <2>1 DEF ReadCommand
  <2> QED
    BY <1>8, <2>1, <2>2 DEF ReadCommand
<1>9. CASE ReadEndOfFile
  BY <1>9 DEF ReadEndOfFile
<1>10. CASE Execute
  <2>1. /\ spc = "execute" /\ spc' = "kill"
        /\ UNCHANGED <<cpc, typed, sig_status, pipe, raised, command>>
    BY <1>10 DEF Execute
  <2> QED
    BY <2>1
<1>11. CASE OutOfMemory
  BY <1>11 DEF OutOfMemory
<1>12. CASE Kill
  BY <1>12 DEF Kill
<1>13. CASE UNCHANGED vars
  BY <1>13 DEF vars
<1> QED
  BY <1>1, <1>2, <1>3, <1>4, <1>5, <1>6, <1>7, <1>8, <1>9, <1>10, <1>11, <1>12, <1>13
  DEF Next, ClientStep, UserStep, ServerStep, Finished

\* The exchange keeps its lockstep, whatever is typed (lines 257-323).
THEOREM LockstepHolds == Spec => []Lockstep
BY InitLockstep, StepLockstep, PTL DEF Spec

\* The parent prompts only when the child has carried out every command and
\* its signal was taken (lines 298, 305, 322).
THEOREM DoneWhenPrompted == Spec => []SignalMeansDone
<1>1. Lockstep => SignalMeansDone
  BY DEF Lockstep
<1> QED
  BY <1>1, LockstepHolds, PTL

\* While the parent waits, exactly one party has to act: no request and no
\* signal is lost (lines 261, 298, 320-322).
THEOREM NoLostWakeup == Spec => []OneRequest
<1>1. Lockstep => OneRequest
  BY DEF Lockstep
<1> QED
  BY <1>1, LockstepHolds, PTL

-----------------------------------------------------------------------------
(* Induction over sets of numbers, and what it says of `below'.            *)

LEMMA SetInduction ==
  ASSUME NEW S, 0 \in S, \A n \in Nat : n \in S => n + 1 \in S
  PROVE  Nat \subseteq S
  <1>1. SUFFICES ASSUME Nat \ S # {} PROVE FALSE
    OBVIOUS
  <1> DEFINE R == OpToRel(<, Nat)
  <1>2. R = {ss \in Nat \X Nat : ss[1] < ss[2]}
    BY Zenon DEF OpToRel
  <1>3. IsWellFoundedOn(R, Nat)
    BY Zenon, NatLessThanWellFounded
  <1> HIDE DEF R
  <1>4. PICK x \in Nat \ S : \A y \in Nat \ S : ~(<<y, x>> \in R)
    BY <1>1, <1>3, WFMin
  <1>5. x # 0 /\ x - 1 \in Nat /\ x - 1 < x /\ (x - 1) + 1 = x
    BY <1>4
  <1>6. <<x - 1, x>> \in R
    BY <1>2, <1>4, <1>5
  <1>7. x - 1 \in S
    BY <1>4, <1>5, <1>6
  <1>8. QED
    BY <1>4, <1>5, <1>7

\* w follows prev from the node `top' for n steps.
Follow(top, mem, w, n) ==
  /\ w[0] = top
  /\ \A i \in 1..n : w[i] = IF w[i - 1] = NULL THEN NULL ELSE mem[w[i - 1]].prev

LEMMA FollowUnique ==
  ASSUME NEW top, NEW mem, NEW v, NEW w, NEW n \in Nat,
         Follow(top, mem, v, n), Follow(top, mem, w, n)
  PROVE  \A i \in 0..n : v[i] = w[i]
  <1> DEFINE S == {i \in Nat : i <= n => v[i] = w[i]}
  <1>1. 0 \in S
    BY DEF Follow
  <1>2. ASSUME NEW i \in Nat, i \in S PROVE i + 1 \in S
    <2>1. SUFFICES ASSUME i + 1 <= n PROVE v[i + 1] = w[i + 1]
      BY <1>2
    <2>2. i + 1 \in 1..n /\ (i + 1) - 1 = i /\ i <= n
      BY <1>2, <2>1
    <2>3. v[i] = w[i]
      BY <1>2, <2>2
    <2>4. QED
      BY <2>2, <2>3 DEF Follow
  <1> HIDE DEF S
  <1>3. Nat \subseteq S
    BY <1>1, <1>2, SetInduction
  <1>4. QED
    BY <1>3 DEF S

\* One step down the list in memory.
Under(mem, x) == IF x = NULL THEN NULL ELSE mem[x].prev

Walk(top, mem, w, n) ==
  w = [i \in 0..n |-> IF i = 0 THEN top ELSE Under(mem, w[i - 1])]

\* The recursion that defines `below' has a solution, for memory of any size.
LEMMA WalkExists ==
  ASSUME NEW top, NEW mem, NEW n \in Nat
  PROVE  \E w : Walk(top, mem, w, n)
  <1> DEFINE S == {k \in Nat : \E w : Walk(top, mem, w, k)}
  <1>1. 0 \in S
    <2>1. Walk(top, mem, [i \in 0..0 |-> top], 0)
      BY DEF Walk
    <2>2. QED
      BY <2>1
  <1>2. ASSUME NEW k \in Nat, k \in S PROVE k + 1 \in S
    <2>1. PICK w : Walk(top, mem, w, k)
      BY <1>2
    <2>2. w = [i \in 0..k |-> IF i = 0 THEN top ELSE Under(mem, w[i - 1])]
      BY <2>1 DEF Walk
    <2> DEFINE v == [i \in 0 .. k + 1 |-> IF i <= k THEN w[i] ELSE Under(mem, w[k])]
    <2>3. ASSUME NEW i \in 0 .. k + 1
          PROVE  v[i] = IF i = 0 THEN top ELSE Under(mem, v[i - 1])
      <3>1. CASE i <= k
        BY <1>2, <2>2, <3>1
      <3>2. CASE i = k + 1
        BY <1>2, <2>2, <3>2
      <3>3. QED
        BY <1>2, <3>1, <3>2
    <2>4. v = [i \in 0 .. k + 1 |-> v[i]]
      OBVIOUS
    <2> HIDE DEF v
    <2>5. v = [i \in 0 .. k + 1 |-> IF i = 0 THEN top ELSE Under(mem, v[i - 1])]
      BY <2>3, <2>4
    <2>6. \E u : Walk(top, mem, u, k + 1)
      BY <2>5 DEF Walk
    <2>7. QED
      BY <1>2, <2>6
  <1> HIDE DEF S
  <1>3. Nat \subseteq S
    BY <1>1, <1>2, SetInduction
  <1>4. QED
    BY <1>3 DEF S

N == Cardinality(Nodes)

LEMMA NIsNat == N \in Nat
  BY StackServerAssumption, FS_CardinalityType DEF N

LEMMA BelowFollows == Follow(head, heap, below, N)
  <1>1. \E w : Walk(head, heap, w, N)
    BY NIsNat, WalkExists
  <1>2. below = CHOOSE w : Walk(head, heap, w, N)
    BY DEF below, Walk, Under, N
  <1>3. Walk(head, heap, below, N)
    BY <1>1, <1>2
  <1> HIDE DEF below
  <1>4. below = [i \in 0..N |-> IF i = 0 THEN head ELSE Under(heap, below[i - 1])]
    BY <1>3 DEF Walk
  <1>5. QED
    BY <1>4, NIsNat DEF Follow, Under

LEMMA BelowFollowsNext == Follow(head', heap', below', N)
  <1>1. Follow(head, heap, below, N)'
    BY BelowFollows, PTL
  <1>2. QED
    BY <1>1 DEF Follow, N

-----------------------------------------------------------------------------
(* The stack.                                                              *)

\* The nodes of a stack are pairwise different, allocated, and end in NULL.
Chain ==
  exists => /\ size \in 0..N
            /\ \A i \in 0 .. size - 1 : below[i] \in DOMAIN heap
            /\ below[size] = NULL
            /\ \A i, j \in 0 .. size - 1 : below[i] = below[j] => i = j

StackInv == StackTypes /\ Chain

LEMMA InitStackInv == Init => StackInv
  <1> SUFFICES ASSUME Init PROVE StackInv
    OBVIOUS
  <1>1. /\ exists = FALSE /\ head = NULL /\ size = 0 /\ heap = << >>
        /\ err_status = "SUCCESS"
    BY DEF Init
  <1>2. DOMAIN heap = {}
    BY <1>1
  <1>3. QED
    BY <1>1, <1>2 DEF StackInv, StackTypes, Chain

LEMMA StackInvStutters ==
  ASSUME StackInv, UNCHANGED stackVars
  PROVE  StackInv'
  <1>1. UNCHANGED <<exists, head, size, heap, err_status>>
    BY DEF stackVars
  <1>2. below' = below
    BY <1>1 DEF below
  <1>3. QED
    BY <1>1, <1>2 DEF StackInv, StackTypes, Chain

\* The size nodes of the stack are as many as their indices.
LEMMA TopCard ==
  ASSUME NEW n \in Nat, \A i, j \in 0 .. n - 1 : below[i] = below[j] => i = j
  PROVE  IsFiniteSet(Top(n)) /\ Cardinality(Top(n)) = n
  <1> DEFINE f == [i \in 0 .. n - 1 |-> below[i]]
  <1> HIDE DEF below
  <1>1. f \in Bijection(0 .. n - 1, Top(n))
    BY DEF Bijection, Injection, Surjection, Top, IsInjective
  <1>2. ExistsBijection(0 .. n - 1, Top(n))
    BY <1>1 DEF ExistsBijection
  <1>3. IsFiniteSet(0 .. n - 1) /\ Cardinality(0 .. n - 1) = n
    BY FS_Interval
  <1>4. QED
    BY <1>2, <1>3, FS_Bijection

\* A new node is on top of the old ones.
LEMMA PushChain ==
  ASSUME StackInv, command \in Commands, Push
  PROVE  /\ StackInv' /\ exists /\ exists' /\ size' = size + 1 /\ size' \in 1..N
         /\ below'[0] \in DOMAIN heap' /\ heap'[below'[0]].value = command.val
         /\ \A i \in 0 .. size : below'[i + 1] = below[i]
         /\ \A n \in DOMAIN heap : heap'[n] = heap[n]
  <1>1. /\ command.op = "push" /\ exists /\ exists' /\ size' = size + 1
        /\ err_status' = "SUCCESS"
    BY DEF Push
  <1> USE DEF StackInv
  <1>2. PICK n \in Nodes \ DOMAIN heap :
          /\ heap' = [m \in DOMAIN heap \cup {n} |->
                        IF m = n THEN [value |-> command.val, prev |-> head]
                        ELSE heap[m]]
          /\ head' = n
    BY DEF Push
  <1>3. /\ DOMAIN heap' = DOMAIN heap \cup {n}
        /\ \A m \in DOMAIN heap : heap'[m] = heap[m]
        /\ heap'[n] = [value |-> command.val, prev |-> head]
    BY <1>2
  <1>4. Follow(head, heap, below, N) /\ Follow(head', heap', below', N)
    BY BelowFollows, BelowFollowsNext
  <1>5. /\ N \in Nat /\ size \in 0..N
        /\ \A i \in 0 .. size - 1 : below[i] \in DOMAIN heap
        /\ below[size] = NULL
        /\ \A i, j \in 0 .. size - 1 : below[i] = below[j] => i = j
    BY <1>1, NIsNat DEF Chain
  <1>6. size + 1 \in 1..N
    <2>1. IsFiniteSet(Top(size)) /\ Cardinality(Top(size)) = size
      BY <1>5, TopCard
    <2>2. Top(size) \subseteq DOMAIN heap
      BY <1>5 DEF Top
    <2>3. n \notin Top(size) /\ Top(size) \cup {n} \in SUBSET Nodes
      BY <1>2, <2>2 DEF StackTypes
    <2>4. Cardinality(Top(size) \cup {n}) = size + 1
      BY <2>1, <2>3, FS_AddElement
    <2>5. Cardinality(Top(size) \cup {n}) <= N
      BY <2>3, FS_Subset, StackServerAssumption DEF N
    <2>6. QED
      BY <1>5, <2>4, <2>5
  <1> DEFINE w == [i \in 0 .. size + 1 |-> IF i = 0 THEN n ELSE below[i - 1]]
  <1> HIDE DEF below
  <1>7. Follow(head', heap', w, size + 1)
    <2>1. w[0] = head'
      BY <1>2, <1>5
    <2>2. ASSUME NEW i \in 1 .. size + 1
          PROVE  w[i] = IF w[i - 1] = NULL THEN NULL ELSE heap'[w[i - 1]].prev
      <3>1. CASE i = 1
        <4>1. w[i] = head /\ w[i - 1] = n
          BY <1>4, <1>5, <3>1 DEF Follow
        <4>2. n # NULL
          BY <1>2, StackServerAssumption
        <4>3. QED
          BY <1>3, <4>1, <4>2
      <3>2. CASE i > 1
        <4>1. /\ w[i] = below[i - 1] /\ w[i - 1] = below[i - 2]
              /\ i - 1 \in 1..N /\ (i - 1) - 1 = i - 2 /\ i - 2 \in 0 .. size - 1
          BY <1>5, <1>6, <2>2, <3>2
        <4>2. below[i - 1] = IF below[i - 2] = NULL THEN NULL ELSE heap[below[i - 2]].prev
          BY <1>4, <4>1 DEF Follow
        <4>3. below[i - 2] \in DOMAIN heap
          BY <1>5, <4>1
        <4>4. QED
          BY <1>3, <4>1, <4>2, <4>3
      <3>3. QED
        BY <1>5, <2>2, <3>1, <3>2
    <2> HIDE DEF w
    <2>3. QED
      BY <2>1, <2>2 DEF Follow
  <1>8. Follow(head', heap', below', size + 1)
    BY <1>4, <1>5, <1>6 DEF Follow
  <1>9. \A i \in 0 .. size + 1 : below'[i] = w[i]
    <2> HIDE DEF w
    <2>1. QED
      BY <1>5, <1>7, <1>8, FollowUnique
  <1>10. below'[0] = n /\ \A i \in 0 .. size : below'[i + 1] = below[i]
    BY <1>5, <1>9
  <1> HIDE DEF w
  <1>11. StackTypes'
    <2>1. command.val \in Values
      BY DEF Commands
    <2>2. QED
      BY <1>1, <1>2, <1>3, <1>5, <2>1 DEF StackTypes
  <1>12. Chain'
    <2>1. \A i \in 0 .. size :
            below'[i] = IF i = 0 THEN n ELSE below[i - 1]
      BY <1>5, <1>9 DEF w
    <2>2. \A i \in 1 .. size : i - 1 \in 0 .. size - 1
      BY <1>5
    <2>3. \A i \in 1 .. size : below[i - 1] \in DOMAIN heap /\ below[i - 1] # n
      BY <1>2, <1>5, <2>2
    <2>4. \A i \in 0 .. size : below'[i] \in DOMAIN heap'
      BY <1>3, <1>5, <2>1, <2>3
    <2>5. below'[size + 1] = NULL
      BY <1>5, <1>10
    <2>6. \A i, j \in 0 .. size : below'[i] = below'[j] => i = j
      <3>1. SUFFICES ASSUME NEW i \in 0 .. size, NEW j \in 0 .. size,
                            below'[i] = below'[j]
                     PROVE  i = j
        OBVIOUS
      <3>2. CASE i = 0 \/ j = 0
        BY <1>5, <2>1, <2>3, <3>1, <3>2
      <3>3. CASE i # 0 /\ j # 0
        <4>1. i \in 1..size /\ j \in 1..size /\ below[i - 1] = below[j - 1]
          BY <1>5, <2>1, <3>1, <3>3
        <4>2. i - 1 = j - 1
          BY <1>5, <2>2, <4>1
        <4>3. QED
          BY <4>2
      <3>4. QED
        BY <3>2, <3>3
    <2>7. QED
      BY <1>1, <1>5, <1>6, <2>4, <2>5, <2>6 DEF Chain
  <1>13. QED
    BY <1>1, <1>3, <1>5, <1>6, <1>10, <1>11, <1>12

\* The second node becomes the first.
LEMMA PopChain ==
  ASSUME StackInv, Pop
  PROVE  /\ StackInv' /\ exists /\ exists' /\ size > 0 /\ size' = size - 1
         /\ \A i \in 0 .. size - 1 : below'[i] = below[i + 1]
         /\ \A i \in 1 .. size - 1 : heap'[below[i]] = heap[below[i]]
  <1> USE DEF StackInv
  <1>1. /\ exists /\ exists' /\ size # 0 /\ size' = size - 1
        /\ head' = heap[head].prev /\ err_status' = "SUCCESS"
        /\ heap' = [m \in DOMAIN heap \ {head} |-> heap[m]]
    BY DEF Pop, IsEmpty, Without
  <1>2. Follow(head, heap, below, N) /\ Follow(head', heap', below', N)
    BY BelowFollows, BelowFollowsNext
  <1>3. /\ N \in Nat /\ size \in 1..N
        /\ \A i \in 0 .. size - 1 : below[i] \in DOMAIN heap
        /\ below[size] = NULL
        /\ \A i, j \in 0 .. size - 1 : below[i] = below[j] => i = j
    BY <1>1, NIsNat DEF Chain
  <1> HIDE DEF below
  <1>4. /\ head = below[0] /\ head \in DOMAIN heap /\ head # NULL
        /\ 0 \in 0 .. size - 1
    BY <1>2, <1>3, StackServerAssumption DEF Follow, StackTypes
  <1>5. \A i \in 1 .. size - 1 : below[i] # head /\ below[i] \in DOMAIN heap'
    <2>1. SUFFICES ASSUME NEW i \in 1 .. size - 1
                   PROVE  below[i] # head /\ below[i] \in DOMAIN heap'
      OBVIOUS
    <2>2. i \in 0 .. size - 1 /\ i # 0
      BY <1>3
    <2>3. QED
      BY <1>1, <1>3, <1>4, <2>2
  <1> DEFINE w == [i \in 0 .. size - 1 |-> below[i + 1]]
  <1>6. Follow(head', heap', w, size - 1)
    <2>1. w[0] = head'
      <3>1. 1 \in 1..N
        BY <1>3
      <3>2. below[1] = heap[head].prev
        BY <1>2, <1>4, <3>1 DEF Follow
      <3>3. QED
        BY <1>1, <1>3, <3>2
    <2>2. ASSUME NEW i \in 1 .. size - 1
          PROVE  w[i] = IF w[i - 1] = NULL THEN NULL ELSE heap'[w[i - 1]].prev
      <3>1. /\ w[i] = below[i + 1] /\ w[i - 1] = below[i]
            /\ i + 1 \in 1..N /\ (i + 1) - 1 = i
        <4>1. /\ i \in 0 .. size - 1 /\ i - 1 \in 0 .. size - 1
              /\ (i - 1) + 1 = i /\ i + 1 \in 1..N /\ (i + 1) - 1 = i
          BY <1>3
        <4>2. w[i] = below[i + 1] /\ w[i - 1] = below[(i - 1) + 1]
          BY <4>1
        <4>3. QED
          BY <4>1, <4>2
      <3>2. below[i + 1] = IF below[i] = NULL THEN NULL ELSE heap[below[i]].prev
        BY <1>2, <3>1 DEF Follow
      <3>3. QED
        BY <1>1, <1>5, <3>1, <3>2
    <2> HIDE DEF w
    <2>3. QED
      BY <2>1, <2>2 DEF Follow
  <1>7. Follow(head', heap', below', size - 1)
    BY <1>2, <1>3 DEF Follow
  <1>8. \A i \in 0 .. size - 1 : below'[i] = below[i + 1]
    <2>1. \A i \in 0 .. size - 1 : below'[i] = w[i]
      <3> HIDE DEF w
      <3>1. size - 1 \in Nat
        BY <1>3
      <3>2. QED
        BY <1>6, <1>7, <3>1, FollowUnique
    <2>2. QED
      BY <2>1
  <1>9. StackTypes'
    BY <1>1, <1>3, <1>4 DEF StackTypes
  <1>10. Chain'
    <2>1. \A i \in 0 .. size - 2 : i + 1 \in 1 .. size - 1 /\ i \in 0 .. size - 1
      BY <1>3
    <2>2. \A i \in 0 .. size - 2 : below'[i] \in DOMAIN heap'
      BY <1>5, <1>8, <2>1
    <2>3. below'[size - 1] = NULL
      BY <1>3, <1>8
    <2>4. \A i, j \in 0 .. size - 2 : below'[i] = below'[j] => i = j
      <3>1. SUFFICES ASSUME NEW i \in 0 .. size - 2, NEW j \in 0 .. size - 2,
                            below'[i] = below'[j]
                     PROVE  i = j
        OBVIOUS
      <3>2. i + 1 \in 0 .. size - 1 /\ j + 1 \in 0 .. size - 1
        BY <1>3
      <3>3. i + 1 = j + 1
        BY <1>3, <1>8, <2>1, <3>1, <3>2
      <3>4. QED
        BY <3>3
    <2>5. size' \in 0..N /\ size' - 1 = size - 2
      BY <1>1, <1>3
    <2>6. QED
      BY <1>1, <2>2, <2>3, <2>4, <2>5 DEF Chain
  <1>11. QED
    BY <1>1, <1>3, <1>5, <1>8, <1>9, <1>10

LEMMA CreateChain ==
  ASSUME StackInv, Create
  PROVE  StackInv' /\ exists' /\ size' = 0
  <1>1. /\ exists' = TRUE /\ head' = NULL /\ size' = 0
        /\ err_status' \in {"SUCCESS", err_status}
        /\ \E freed : heap' = Without(freed)
    BY DEF Create
  <1>2. StackTypes'
    BY <1>1 DEF StackInv, StackTypes, Without
  <1>3. below'[0] = NULL
    BY <1>1, BelowFollowsNext DEF Follow
  <1> HIDE DEF below
  <1>4. QED
    BY <1>1, <1>2, <1>3, NIsNat DEF StackInv, Chain

\* Commands that look, and those that fail.
LEMMA LookChain ==
  ASSUME StackInv,
         NoStackError \/ EmptyError \/ Peek \/ Empty \/ Display \/ StackSize
  PROVE  /\ StackInv' /\ UNCHANGED <<exists, head, size, heap>>
         /\ below' = below
  <1>1. /\ UNCHANGED <<exists, head, size, heap>>
        /\ err_status' \in {"SUCCESS", "STACK_NOT_EXISTS_ERROR",
                            "STACK_IS_EMPTY_ERROR", err_status}
    BY DEF NoStackError, EmptyError, Peek, Empty, Display, StackSize, stackVars
  <1>2. below' = below
    BY <1>1 DEF below
  <1> HIDE DEF below
  <1>3. QED
    BY <1>1, <1>2 DEF StackInv, StackTypes, Chain

-----------------------------------------------------------------------------
\* All that is known of both processes.  When the parent has left, the pipe
\* holds nothing.
IInv == Lockstep /\ StackInv /\ (cpc = "exited" => pipe = << >>)

LEMMA ExecuteKeepsStack ==
  ASSUME IInv, Execute
  PROVE  StackInv'
  <1>1. CASE command = Garbage
    <2>1. UNCHANGED stackVars
      BY <1>1 DEF Execute
    <2>2. QED
      BY <2>1, StackInvStutters DEF IInv
  <1>2. CASE command # Garbage
    <2>1. command \in Commands
      BY <1>2 DEF IInv, Lockstep, ChannelTypes
    <2>2. QED
      BY <1>2, <2>1, PushChain, PopChain, CreateChain, LookChain DEF Execute, IInv
  <1>3. QED
    BY <1>1, <1>2

LEMMA NextIInv == IInv /\ [Next]_vars => IInv'
  <1> SUFFICES ASSUME IInv, [Next]_vars PROVE IInv'
    OBVIOUS
  <1>1. Lockstep'
    BY StepLockstep DEF IInv
  <1>2. StackInv'
    <2>1. CASE Execute
      BY <2>1, ExecuteKeepsStack
    <2>2. CASE ~Execute
      <3>1. UNCHANGED stackVars
        BY <2>2 DEF Next, ClientStep, UserStep, ServerStep, Finished, ResetSignal,
          TypeCommand, Mistype, EndOfInput, WriteCommand, Signalled, StopWaiting,
          ReadCommand, ReadEndOfFile, OutOfMemory, Kill, serverVars, vars
      <3>2. QED
        BY <3>1, StackInvStutters DEF IInv
    <2>3. QED
      BY <2>1, <2>2
  <1>3. (cpc = "exited" => pipe = << >>)'
    <2>1. CASE cpc = "exited"
      <3>1. cpc' = "exited" /\ pipe' = pipe
        BY <2>1 DEF IInv, Next, ClientStep, UserStep, ServerStep, Finished, ResetSignal,
          TypeCommand, Mistype, EndOfInput, WriteCommand, Signalled, StopWaiting,
          ReadCommand, ReadEndOfFile, Execute, OutOfMemory, Kill, serverVars,
          clientVars, vars, ClientGoes
      <3>2. QED
        BY <2>1, <3>1 DEF IInv
    <2>2. CASE cpc # "exited" /\ cpc' = "exited"
      <3>1. EndOfInput
        BY <2>2 DEF Next, ClientStep, UserStep, ServerStep, Finished, ResetSignal,
          TypeCommand, Mistype, WriteCommand, Signalled, StopWaiting,
          ReadCommand, ReadEndOfFile, Execute, OutOfMemory, Kill, clientVars, vars,
          ClientGoes
      <3>2. QED
        BY <3>1 DEF EndOfInput, ClientGoes, IInv, Lockstep, SignalMeansDone
    <2>3. QED
      BY <2>1, <2>2
  <1>4. QED
    BY <1>1, <1>2, <1>3 DEF IInv

LEMMA SpecIInv == Spec => []IInv
  <1>1. Init => IInv
    BY InitLockstep, InitStackInv DEF IInv, Init
  <1>2. QED
    BY <1>1, NextIInv, PTL DEF Spec

\* Every variable has its type, for any memory (lines 31-60, 257-323).
THEOREM TypeCorrect == Spec => []TypeOK
  <1>1. IInv => TypeOK
    BY DEF IInv, Lockstep, StackInv, TypeOK
  <1>2. QED
    BY <1>1, SpecIInv, PTL

\* Whatever is typed, exactly `size' nodes hang below the head of a stack, and
\* all of them are allocated, although create frees only half of an old stack:
\* no operation follows a freed node or NULL (lines 67-129).
THEOREM StackKeepsShape == Spec => []StackShape
  <1>1. IInv => StackShape
    <2> SUFFICES ASSUME IInv, exists PROVE StackShape
      BY DEF StackShape
    <2>1. size \in Nat
      BY DEF IInv, StackInv, StackTypes
    <2> HIDE DEF below
    <2>2. QED
      BY <2>1, TopCard DEF IInv, StackInv, Chain, StackShape
  <1>2. QED
    BY <1>1, SpecIInv, PTL

-----------------------------------------------------------------------------
(* The refinement.                                                         *)

\* The stack as a sequence, from the bottom to the top.
ContentsIs ==
  /\ Contents \in Seq(Values) /\ Len(Contents) = size
  /\ \A i \in 1..size : Contents[i] = heap[below[size - i]].value

LEMMA ContentsFacts == StackInv /\ exists => ContentsIs
  <1> SUFFICES ASSUME StackInv, exists PROVE ContentsIs
    OBVIOUS
  <1> HIDE DEF below
  <1>1. size \in Nat /\ \A i \in 1..size : size - i \in 0 .. size - 1
    BY DEF StackInv, StackTypes
  <1>2. \A i \in 1..size : heap[below[size - i]].value \in Values
    BY <1>1 DEF StackInv, StackTypes, Chain
  <1>3. QED
    BY <1>1, <1>2 DEF ContentsIs, Contents

LEMMA ContentsFactsNext == StackInv' /\ exists' => ContentsIs'
  BY ContentsFacts, PTL

\* The same stack as a value.
Abstract == IF exists THEN Contents ELSE NoStack

LEMMA SameStack ==
  ASSUME UNCHANGED <<exists, head, size, heap>>
  PROVE  Abstract' = Abstract
  BY DEF Abstract, Contents, below

LEMMA PushAppends ==
  ASSUME StackInv, command \in Commands, Push
  PROVE  Contents' = Append(Contents, command.val)
  <1> HIDE DEF below
  <1>1. /\ StackInv' /\ exists /\ exists' /\ size' = size + 1 /\ size \in Nat
        /\ heap'[below'[0]].value = command.val /\ command.val \in Values
        /\ \A i \in 0 .. size : below'[i + 1] = below[i]
        /\ \A n \in DOMAIN heap : heap'[n] = heap[n]
        /\ \A i \in 0 .. size - 1 : below[i] \in DOMAIN heap
    BY PushChain DEF StackInv, StackTypes, Chain, Commands
  <1>2. ContentsIs /\ ContentsIs'
    BY <1>1, ContentsFacts, ContentsFactsNext
  <1> DEFINE s == Append(Contents, command.val)
  <1>3. /\ s \in Seq(Values) /\ Len(s) = size + 1 /\ s[size + 1] = command.val
        /\ \A i \in 1..size : s[i] = Contents[i]
    BY <1>1, <1>2, AppendProperties DEF ContentsIs
  <1> HIDE DEF s
  <1>4. ASSUME NEW i \in 1 .. size + 1 PROVE Contents'[i] = s[i]
    <2>1. Contents'[i] = heap'[below'[size + 1 - i]].value
      BY <1>1, <1>2 DEF ContentsIs
    <2>2. CASE i = size + 1
      BY <1>1, <1>3, <2>1, <2>2
    <2>3. CASE i # size + 1
      <3>1. /\ i \in 1..size /\ size - i \in 0 .. size - 1 /\ size - i \in 0 .. size
            /\ (size - i) + 1 = size + 1 - i
        BY <1>1, <2>3
      <3>2. heap'[below'[size + 1 - i]] = heap[below[size - i]]
        BY <1>1, <3>1
      <3>3. QED
        BY <1>2, <1>3, <2>1, <3>1, <3>2 DEF ContentsIs
    <2>4. QED
      BY <2>2, <2>3
  <1>5. Contents' \in Seq(Values) /\ Len(Contents') = size + 1
    BY <1>1, <1>2 DEF ContentsIs
  <1>6. Contents' = s
    BY <1>3, <1>4, <1>5, SeqEqual
  <1>7. QED
    BY <1>6 DEF s

LEMMA PopDropsLast ==
  ASSUME StackInv, Pop
  PROVE  Contents' = SubSeq(Contents, 1, Len(Contents) - 1)
  <1> HIDE DEF below
  <1>1. /\ StackInv' /\ exists /\ exists' /\ size \in Nat /\ size > 0
        /\ size' = size - 1
        /\ \A i \in 0 .. size - 1 : below'[i] = below[i + 1]
        /\ \A i \in 1 .. size - 1 : heap'[below[i]] = heap[below[i]]
    BY PopChain DEF StackInv, StackTypes
  <1>2. ContentsIs /\ ContentsIs'
    BY <1>1, ContentsFacts, ContentsFactsNext
  <1> DEFINE s == SubSeq(Contents, 1, Len(Contents) - 1)
  <1>3. /\ s \in Seq(Values) /\ Len(s) = size - 1
        /\ \A i \in 1 .. size - 1 : s[i] = Contents[i]
    BY <1>1, <1>2 DEF ContentsIs
  <1> HIDE DEF s
  <1>4. ASSUME NEW i \in 1 .. size - 1 PROVE Contents'[i] = s[i]
    <2>1. Contents'[i] = heap'[below'[size - 1 - i]].value
      BY <1>1, <1>2 DEF ContentsIs
    <2>2. /\ i \in 1..size /\ size - 1 - i \in 0 .. size - 1
          /\ (size - 1 - i) + 1 = size - i /\ size - i \in 1 .. size - 1
      BY <1>1
    <2>3. heap'[below'[size - 1 - i]] = heap[below[size - i]]
      BY <1>1, <2>2
    <2>4. QED
      BY <1>2, <1>3, <2>1, <2>2, <2>3 DEF ContentsIs
  <1>5. Contents' \in Seq(Values) /\ Len(Contents') = size - 1
    BY <1>1, <1>2 DEF ContentsIs
  <1>6. Contents' = s
    BY <1>3, <1>4, <1>5, SeqEqual
  <1>7. QED
    BY <1>6 DEF s

\* What a command does to the stack and prints is what StackService says.
LEMMA ExecuteServes ==
  ASSUME IInv, IInv', Execute, command \in Commands
  PROVE  Abstract' = Service!NewStack(command) /\ answer' = Service!AnswerTo(command)
  <1> HIDE DEF below
  <1> USE DEF Reply, Service!Reply, Service!Exists, Service!NewStack,
              Service!AnswerTo, Silence
  <1>1. command # Garbage /\ StackInv /\ StackInv'
    BY StackServerAssumption DEF IInv
  <1>2. /\ exists => Contents # NoStack /\ Len(Contents) = size /\ size \in Nat
                     /\ (Contents = << >> <=> size = 0)
        /\ NoStack # << >>
    <2>1. NoStack \notin Seq(Values) /\ << >> \in Seq(Values)
      BY StackServerAssumption, EmptySeq
    <2>2. exists => /\ Contents \in Seq(Values) /\ Len(Contents) = size
                    /\ size \in Nat
      BY <1>1, ContentsFacts DEF ContentsIs, StackInv, StackTypes
    <2> HIDE DEF Contents
    <2>3. exists => (Contents = << >> <=> size = 0)
      BY <2>2, EmptySeq
    <2>4. QED
      BY <2>1, <2>2, <2>3
  <1>3. (exists' => Contents' # NoStack /\ Len(Contents') = size')
    BY <1>1, ContentsFactsNext, StackServerAssumption DEF ContentsIs
  <1>4. command.op \in Ops
    BY DEF Commands
  <1> HIDE DEF Contents
  <1>5. CASE NoStackError
    <2>1. Abstract' = Abstract
      BY <1>5, SameStack DEF NoStackError
    <2>2. Abstract' = NoStack /\ answer' = Reply("no stack", << >>)
      BY <1>5, <2>1 DEF NoStackError, Printed, Abstract
    <2>3. QED
      <3>1. ~exists /\ NoStack # << >> /\ command.op # "create"
        BY <1>2, <1>5 DEF NoStackError
      <3>2. QED
        BY <2>1, <2>2, <3>1 DEF Abstract
  <1>6. CASE EmptyError
    <2>1. Abstract' = Abstract
      BY <1>6, SameStack DEF EmptyError
    <2>2. exists /\ Contents = << >> /\ command.op \in {"peek", "pop"}
          /\ answer' = Reply("stack is empty", << >>)
      BY <1>2, <1>6 DEF EmptyError, Printed, IsEmpty
    <2>3. QED
      BY <1>2, <2>1, <2>2 DEF Abstract
  <1>7. CASE Peek
    <2>1. Abstract' = Abstract
      BY <1>7, SameStack DEF Peek
    <2>2. exists /\ Contents # << >> /\ command.op = "peek"
          /\ answer' = Reply("peek", <<heap[head].value>>)
      BY <1>2, <1>7 DEF Peek, Printed, IsEmpty
    <2>3. heap[head].value = Contents[Len(Contents)]
      <3>1. size \in 1..size /\ size - size = 0
        BY <1>2, <2>2
      <3>2. Contents[size] = heap[below[0]].value
        BY <1>1, <2>2, <3>1, ContentsFacts DEF ContentsIs
      <3>3. below[0] = head
        BY BelowFollows DEF Follow
      <3>4. QED
        BY <1>2, <2>2, <3>2, <3>3
    <2>4. QED
      BY <1>2, <2>1, <2>2, <2>3 DEF Abstract
  <1>8. CASE Push
    <2>1. Contents' = Append(Contents, command.val)
      BY <1>1, <1>8, PushAppends
    <2>2. exists /\ exists' /\ command.op = "push"
          /\ answer' = Reply("pushed", <<command.val>>)
      BY <1>8 DEF Push, Printed
    <2>3. QED
      BY <1>2, <2>1, <2>2 DEF Abstract
  <1>9. CASE Pop
    <2>1. Contents' = SubSeq(Contents, 1, Len(Contents) - 1)
      BY <1>1, <1>9, PopDropsLast
    <2>2. exists /\ exists' /\ Contents # << >> /\ command.op = "pop"
          /\ answer' = Reply("popped", << >>)
      BY <1>2, <1>9 DEF Pop, Printed, IsEmpty
    <2>3. QED
      BY <1>2, <2>1, <2>2 DEF Abstract
  <1>10. CASE Empty
    <2>1. Abstract' = Abstract
      BY <1>10, SameStack DEF Empty, stackVars
    <2>2. /\ command.op = "empty"
          /\ answer' = IF exists THEN Reply("empty", <<size = 0>>)
                       ELSE Reply("no stack", << >>)
      BY <1>10 DEF Empty, IsEmpty
    <2>3. CASE exists
      BY <1>2, <2>1, <2>2, <2>3 DEF Abstract
    <2>4. CASE ~exists
      BY <1>2, <2>1, <2>2, <2>4 DEF Abstract
    <2>5. QED
      BY <2>3, <2>4
  <1>11. CASE Display
    <2>1. Abstract' = Abstract
      BY <1>11, SameStack DEF Display
    <2>2. exists /\ command.op = "display" /\ answer' = Reply("display", Contents)
      BY <1>11 DEF Display, Printed, Contents
    <2>3. QED
      BY <1>2, <2>1, <2>2 DEF Abstract
  <1>12. CASE StackSize
    <2>1. Abstract' = Abstract
      BY <1>12, SameStack DEF StackSize
    <2>2. exists /\ command.op = "stack_size" /\ answer' = Reply("size", <<size>>)
      BY <1>12 DEF StackSize, Printed
    <2>3. QED
      BY <1>2, <2>1, <2>2 DEF Abstract
  <1>13. CASE Create
    <2>1. exists' /\ size' = 0
      BY <1>1, <1>13, CreateChain
    <2>2. Contents' = << >>
      <3>1. Contents' \in Seq(Values) /\ Len(Contents') = 0
        BY <1>1, <2>1, ContentsFactsNext DEF ContentsIs
      <3>2. QED
        BY <3>1
    <2>3. command.op = "create" /\ answer' = Reply("created", << >>)
      BY <1>13 DEF Create
    <2>4. QED
      BY <2>1, <2>2, <2>3 DEF Abstract
  <1>14. QED
    BY <1>1, <1>5, <1>6, <1>7, <1>8, <1>9, <1>10, <1>11, <1>12, <1>13 DEF Execute

\* The rest of what the user sees.
Last == IF pipe # << >> THEN Head(pipe) ELSE command
Waits == cpc # "exited" /\ (pipe # << >> \/ spc = "execute")

View == <<Abstract, Last, Waits, answer, cpc # "exited">>

LEMMA InitRefines == Init => Service!Init
  BY DEF Init, Service!Init, Service!Commands, Service!Ops, Commands, Ops,
         Service!Silence, Service!Reply, Silence, Reply

\* A command that is written is asked for; the end of the input is Leave; the
\* child's execution is Serve; the rest is not seen.
LEMMA NextRefines ==
  IInv /\ IInv' /\ [Next]_vars => [Service!Next]_(Service!vars)
  <1> SUFFICES ASSUME IInv, IInv', [Next]_vars PROVE [Service!Next]_(Service!vars)
    OBVIOUS
  <1> USE DEF ClientGoes, ServerGoes, clientVars, serverVars
  <1>1. ASSUME UNCHANGED View PROVE [Service!Next]_(Service!vars)
    BY <1>1 DEF Service!vars, View, Abstract, Last, Waits
  <1>2. ASSUME UNCHANGED stackVars, UNCHANGED answer,
               Last' = Last, Waits' = Waits, (cpc # "exited")' = (cpc # "exited")
        PROVE  [Service!Next]_(Service!vars)
    BY <1>1, <1>2, SameStack DEF View, stackVars
  <1>3. CASE WriteCommand
    <2>1. /\ cpc = "write" /\ cpc' = "wait" /\ pipe = << >> /\ spc = "read"
          /\ pipe' = <<typed>> /\ typed \in Commands
          /\ UNCHANGED <<serverVars, answer>> /\ UNCHANGED stackVars
      BY <1>3 DEF WriteCommand, IInv, Lockstep, SignalMeansDone
    <2>2. Abstract' = Abstract
      BY <2>1, SameStack DEF stackVars
    <2>3. Last' = typed /\ Waits' = TRUE /\ Waits = FALSE
      BY <2>1 DEF Last, Waits
    <2>4. typed \in Service!Commands
      BY <2>1 DEF Commands, Ops, Service!Commands, Service!Ops
    <2>5. Service!Ask(typed)
      BY <2>1, <2>2, <2>3 DEF Service!Ask, Abstract, Last, Waits
    <2>6. QED
      BY <2>4, <2>5 DEF Service!Next
  <1>4. CASE EndOfInput
    <2>1. /\ cpc = "prompt" /\ cpc' = "exited" /\ pipe = << >> /\ spc = "read"
          /\ UNCHANGED <<pipe, serverVars>>
      BY <1>4 DEF EndOfInput, IInv, Lockstep, SignalMeansDone
    <2>2. Abstract' = Abstract
      BY <2>1, SameStack DEF stackVars
    <2>3. Last' = Last /\ Waits' = FALSE /\ Waits = FALSE
      BY <2>1 DEF Last, Waits
    <2>4. Service!Leave
      BY <2>1, <2>2, <2>3 DEF Service!Leave, Abstract, Last, Waits
    <2>5. QED
      BY <2>4 DEF Service!Next
  <1>5. CASE Execute
    <2>1. /\ spc = "execute" /\ spc' = "kill" /\ pipe = << >>
          /\ UNCHANGED <<cpc, pipe, command>>
      BY <1>5 DEF Execute, IInv, Lockstep, ChannelTypes, SignalMeansDone, OneRequest
    <2>2. /\ Last = command /\ Last' = command /\ Waits' = FALSE
          /\ Waits = (cpc # "exited")
      BY <2>1 DEF Last, Waits
    <2>3. CASE command \in Commands
      <3>1. Abstract' = Service!NewStack(command) /\ answer' = Service!AnswerTo(command)
        BY <1>5, <2>3, ExecuteServes
      <3>2. command \in Service!Commands
        BY <2>3 DEF Commands, Ops, Service!Commands, Service!Ops
      <3>3. Service!Serve
        <4> HIDE DEF Service!NewStack, Service!AnswerTo
        <4>1. QED
          BY <2>1, <2>2, <3>1, <3>2 DEF Service!Serve, Abstract, Last, Waits
      <3>4. QED
        BY <3>3 DEF Service!Next
    <2>4. CASE command = Garbage
      <3>1. UNCHANGED <<stackVars, answer>>
        BY <1>5, <2>4 DEF Execute
      <3>2. Abstract' = Abstract
        BY <3>1, SameStack DEF stackVars
      <3>3. Service!Serve
        BY <2>1, <2>2, <2>4, <3>1, <3>2 DEF Service!Serve, Abstract, Last, Waits
      <3>4. QED
        BY <3>3 DEF Service!Next
    <2>5. QED
      BY <2>3, <2>4 DEF IInv, Lockstep, ChannelTypes
  <1>6. CASE ReadCommand
    <2>1. /\ pipe # << >> /\ pipe' = << >> /\ command' = Head(pipe)
          /\ spc' = "execute" /\ UNCHANGED <<clientVars, stackVars, answer>>
      BY <1>6 DEF ReadCommand, IInv, Lockstep, ChannelTypes
    <2>2. Last' = Last /\ Waits' = Waits
      BY <2>1 DEF Last, Waits
    <2>3. QED
      BY <1>2, <2>1, <2>2
  <1>7. CASE OutOfMemory
    <2>1. cpc # "wait"
      BY <1>7 DEF OutOfMemory, IInv, Lockstep, HasRoom
    <2>2. cpc = "exited" /\ cpc' = cpc
      BY <1>7, <2>1 DEF OutOfMemory, IInv, Lockstep, ChannelTypes, SignalMeansDone
    <2>3. Last' = Last /\ Waits' = Waits
      BY <1>7, <2>2 DEF OutOfMemory, Last, Waits
    <2>4. QED
      BY <1>2, <1>7, <2>2, <2>3 DEF OutOfMemory
  <1>8. CASE ReadEndOfFile
    <2>1. Last' = Last /\ Waits' = Waits
      BY <1>8 DEF ReadEndOfFile, Last, Waits
    <2>2. QED
      BY <1>2, <1>8, <2>1 DEF ReadEndOfFile
  <1>9. CASE Kill
    <2>1. Last' = Last /\ Waits' = Waits
      BY <1>9 DEF Kill, Last, Waits
    <2>2. QED
      BY <1>2, <1>9, <2>1 DEF Kill
  <1>10. CASE ResetSignal \/ TypeCommand \/ Mistype \/ Signalled \/ StopWaiting
    <2>1. /\ UNCHANGED <<pipe, serverVars>> /\ cpc # "exited" /\ cpc' # "exited"
      BY <1>10 DEF ResetSignal, TypeCommand, Mistype, Signalled, StopWaiting
    <2>2. Last' = Last /\ Waits' = Waits
      BY <2>1 DEF Last, Waits
    <2>3. QED
      BY <1>2, <2>1, <2>2
  <1>11. CASE UNCHANGED vars
    <2>1. Last' = Last /\ Waits' = Waits
      BY <1>11 DEF vars, Last, Waits
    <2>2. QED
      BY <1>2, <1>11, <2>1 DEF vars
  <1>12. QED
    BY <1>3, <1>4, <1>5, <1>6, <1>7, <1>8, <1>9, <1>10, <1>11
    DEF Next, ClientStep, UserStep, ServerStep, Finished

\* The two processes, with their pipe and signal, do what one stack does that
\* carries each command out once, before the next is asked for
\* (lines 31-129, 257-323).
THEOREM Refinement == Spec => IsStackService
  BY InitRefines, NextRefines, SpecIInv, PTL DEF Spec, IsStackService, Service!Spec
=============================================================================
