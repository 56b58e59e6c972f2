------------------------- MODULE AgentDelegationProofs -------------------------
(***************************************************************************)
(* What TLAPS proves of the delegations of a run, for any calls, tasks,    *)
(* capacities, failed saves and ends of the application.                   *)
(***************************************************************************)
EXTENDS AgentDelegation, FiniteSetTheorems, SequenceTheorems, TLAPS

-----------------------------------------------------------------------------
(* Positions and counting.                                                 *)

\* The first and the last of some positions are among them.
LEMMA FirstAndLast ==
  ASSUME NEW n \in Nat, NEW S \in SUBSET (1 .. n), S # {}
  PROVE  /\ Min(S) \in S /\ Max(S) \in S
         /\ \A i \in S : Min(S) <= i /\ i <= Max(S)
  <1>1. ASSUME NEW T \in SUBSET Nat, T # {}
        PROVE  \E x \in T : \A y \in T : x <= y
    <2>1. PICK x \in T : \A y \in T : ~(<<y, x>> \in OpToRel(<, Nat))
      BY <1>1, NatLessThanWellFounded, WFMin
    <2>2. \A y \in T : ~(y < x)
      BY <2>1 DEF OpToRel
    <2>. QED  BY <2>2
  <1>2. \E x \in S : \A y \in S : x <= y
    BY <1>1
  <1>3. \E x \in S : \A y \in S : x >= y
    <2> DEFINE T == {m \in 0 .. n : n - m \in S}
    <2>1. \A i \in S : n - i \in T
      OBVIOUS
    <2>2. T \in SUBSET Nat
      OBVIOUS
    <2>. HIDE DEF T
    <2>5. T # {}
      BY <2>1
    <2>3. PICK x \in T : \A y \in T : x <= y
      BY <2>2, <2>5, <1>1
    <2>4. n - x \in S /\ \A j \in S : n - x >= j
      BY <2>1, <2>2, <2>3 DEF T
    <2>. QED  BY <2>4
  <1>. QED  BY <1>2, <1>3 DEF Min, Max

\* As many elements as positions, when none comes twice.
LEMMA AsManyAsPositions ==
  ASSUME NEW S, NEW q \in Seq(S), NEW n \in 0 .. Len(q),
         \A i, j \in 1 .. Len(q) : q[i] = q[j] => i = j,
         NEW T, T = {q[i] : i \in 1 .. n}
  PROVE  IsFiniteSet(T) /\ Cardinality(T) = n
  <1> DEFINE f == [i \in 1 .. n |-> q[i]]
  <1>4. /\ \A i \in 1 .. n : q[i] \in T
        /\ \A t \in T : \E i \in 1 .. n : q[i] = t
    OBVIOUS
  <1>0. /\ f \in [1 .. n -> T] /\ DOMAIN f = 1 .. n /\ n \in Nat /\ 1 .. n \subseteq 1 .. Len(q)
        /\ \A i \in 1 .. n : f[i] = q[i]
    BY <1>4
  <1>3. \A t \in T : \E i \in 1 .. n : f[i] = t
    BY <1>0, <1>4
  <1>. HIDE DEF f
  <1>1. f \in Bijection(1 .. n, T)
    BY <1>0, <1>3 DEF Bijection, Injection, Surjection, IsInjective
  <1>2. ExistsBijection(1 .. n, T)
    BY <1>1 DEF ExistsBijection
  <1>. QED  BY <1>0, <1>2, FS_CountingElements, FS_NatBijection

-----------------------------------------------------------------------------
(* The pool.                                                               *)

Claims == {"none", "waiting", "granted", "released", "cancelled", "unsafe"}
PoolType ==
  [capacity : Nat \ {0}, closed : {"open", "cancelled", "unsafe"}, active : Nat,
   queue : Seq(Children), claim : [Children -> Claims]]
Held(p) == {k \in Children : p.claim[k] = "granted"}

\* Nobody waits twice, the requests of a call stand together, and the claims say
\* who waits.
InOrder(p) ==
  LET at == 1 .. Len(p.queue) IN
  /\ \A i, j \in at : p.queue[i] = p.queue[j] => i = j
  /\ \A i, j, l \in at : i < j /\ j < l /\ CallOf(p.queue[i]) = CallOf(p.queue[l])
                         => CallOf(p.queue[j]) = CallOf(p.queue[i])
  /\ \A k \in Children : p.claim[k] = "waiting" <=> k \in Waiting(p)

Counted(p) ==
  /\ IsFiniteSet(Held(p)) /\ p.active = Cardinality(Held(p)) /\ p.active <= p.capacity
  /\ p.closed # "open" => p.queue = <<>>

PoolInv(p) == p \in PoolType /\ InOrder(p) /\ Counted(p)
NoneIdle(p) == p.queue # <<>> => p.active = p.capacity

\* The same pool, in which some that waited have their place.
Granting(p, q) ==
  /\ q.capacity = p.capacity /\ q.closed = p.closed
  /\ \A k \in Children : \/ q.claim[k] = p.claim[k]
                         \/ p.claim[k] = "waiting" /\ q.claim[k] = "granted"

\* Answering requests changes the claims and nothing else (Waiter).
LEMMA SettleEffect ==
  ASSUME NEW p \in PoolType, NEW K, NEW answer \in Claims
  PROVE  LET q == Settle(p, K, answer) IN
         /\ q \in PoolType /\ q.capacity = p.capacity /\ q.closed = p.closed
         /\ q.active = p.active /\ q.queue = p.queue
         /\ \A k \in Children : q.claim[k] = IF k \in K THEN answer ELSE p.claim[k]
  BY DEF PoolType, Settle

\* The first that wait take the places that are free, until no place is free or
\* nobody waits (pump).
LEMMA PumpGood ==
  ASSUME NEW p, PoolInv(p)
  PROVE  PoolInv(Pump(p)) /\ NoneIdle(Pump(p)) /\ Granting(p, Pump(p))
  <1>1. CASE p.closed # "open"
    BY <1>1 DEF PoolInv, Counted, Pump, NoneIdle, Granting
  <1>2. CASE p.closed = "open"
    <2> DEFINE free == p.capacity - p.active
               n == IF free < Len(p.queue) THEN free ELSE Len(p.queue)
               first == {p.queue[i] : i \in 1 .. n}
               rest == SubSeq(p.queue, n + 1, Len(p.queue))
               moved == [p EXCEPT !.active = p.active + n, !.queue = rest]
               q == Settle(moved, first, "granted")
    <2>1. Pump(p) = q
      BY <1>2 DEF Pump
    <2>2. /\ p \in PoolType /\ p.queue \in Seq(Children) /\ Len(p.queue) \in Nat
          /\ p.capacity \in Nat /\ p.active \in Nat /\ p.active <= p.capacity
          /\ \A i \in 1 .. Len(p.queue) : p.queue[i] \in Children
      BY DEF PoolInv, Counted, PoolType
    <2>3. n \in 0 .. Len(p.queue) /\ n <= free
      BY <2>2
    <2> HIDE DEF n
    <2>4. /\ rest \in Seq(Children) /\ Len(rest) = Len(p.queue) - n
          /\ \A i \in 1 .. Len(rest) : rest[i] = p.queue[n + i]
      <3>1. \A i \in (n + 1) .. Len(p.queue) : p.queue[i] \in Children
        BY <2>2, <2>3
      <3>2. n + 1 \in Int /\ Len(p.queue) \in Int
        BY <2>2, <2>3
      <3>3. /\ rest \in Seq(Children)
            /\ Len(rest) = IF n + 1 <= Len(p.queue) THEN Len(p.queue) - (n + 1) + 1 ELSE 0
            /\ \A i \in 1 .. Len(p.queue) - (n + 1) + 1 : rest[i] = p.queue[(n + 1) + i - 1]
        BY <3>1, <3>2, SubSeqProperties
      <3>. QED  BY <3>3, <2>2, <2>3
    <2>5. /\ \A i \in 1 .. n : p.queue[i] \in first
          /\ \A k \in first : \E i \in 1 .. n : k = p.queue[i]
          /\ first \subseteq Waiting(p) /\ first \subseteq Children
      BY <2>2, <2>3 DEF Waiting
    <2>13. \A i, j \in 1 .. Len(p.queue) : p.queue[i] = p.queue[j] => i = j
      BY DEF PoolInv, InOrder
    <2>15. first = {p.queue[i] : i \in 1 .. n}
      OBVIOUS
    <2>. HIDE DEF rest, first
    <2>6. IsFiniteSet(first) /\ Cardinality(first) = n
      BY <2>2, <2>3, <2>13, <2>15, AsManyAsPositions
    <2>14. p.active + n \in Nat
      BY <2>2, <2>3
    <2>. HIDE DEF free
    <2>7. moved \in PoolType /\ moved.claim = p.claim /\ moved.queue = rest
          /\ moved.active = p.active + n /\ moved.capacity = p.capacity /\ moved.closed = p.closed
      BY <2>2, <2>4, <2>14 DEF PoolType
    <2>. HIDE DEF moved
    <2>8. /\ q \in PoolType /\ q.queue = rest /\ q.active = p.active + n
          /\ q.capacity = p.capacity /\ q.closed = p.closed
          /\ \A k \in Children : q.claim[k] = IF k \in first THEN "granted" ELSE p.claim[k]
      BY <2>7, SettleEffect DEF Claims
    <2>. HIDE DEF q
    <2>9. \A k \in first : p.claim[k] = "waiting"
      BY <2>5 DEF PoolInv, InOrder
    <2>10. InOrder(q)
      <3>1. \A i \in 1 .. Len(rest) : n + i \in 1 .. Len(p.queue)
        BY <2>2, <2>3, <2>4
      <3>2. \A k \in Children : k \in Waiting(q) <=> k \in Waiting(p) /\ k \notin first
        <4>1. \A i \in 1 .. Len(p.queue) : i \in 1 .. n \/ i - n \in 1 .. Len(rest)
          BY <2>2, <2>3, <2>4
        <4>2. \A i \in 1 .. Len(rest) : rest[i] \in Waiting(p) /\ rest[i] \notin first
          <5> SUFFICES ASSUME NEW i \in 1 .. Len(rest)
                       PROVE  rest[i] \in Waiting(p) /\ rest[i] \notin first
            OBVIOUS
          <5>1. n + i \in 1 .. Len(p.queue) /\ rest[i] = p.queue[n + i] /\ n + i \notin 1 .. n
            BY <3>1, <2>3, <2>4
          <5>2. \A j \in 1 .. n : p.queue[j] # p.queue[n + i]
            BY <5>1, <2>2, <2>3, <2>13
          <5>. QED  BY <5>1, <5>2, <2>5 DEF Waiting
        <4>3. \A i \in 1 .. Len(p.queue) : p.queue[i] \in first \/ p.queue[i] \in Waiting(q)
          <5> SUFFICES ASSUME NEW i \in 1 .. Len(p.queue), i \notin 1 .. n
                       PROVE  p.queue[i] \in Waiting(q)
            BY <2>5
          <5>1. i - n \in 1 .. Len(rest) /\ rest[i - n] = p.queue[i]
            BY <4>1, <2>2, <2>3, <2>4
          <5>. QED  BY <5>1, <2>8 DEF Waiting
        <4>. QED  BY <4>2, <4>3, <2>8 DEF Waiting
      <3>3. \A i, j \in 1 .. Len(rest) : rest[i] = rest[j] => i = j
        <4> SUFFICES ASSUME NEW i \in 1 .. Len(rest), NEW j \in 1 .. Len(rest), rest[i] = rest[j]
                     PROVE  i = j
          OBVIOUS
        <4>1. n + i = n + j
          BY <2>4, <3>1 DEF PoolInv, InOrder
        <4>. QED  BY <4>1, <2>3, <2>4, <2>2
      <3>4. \A i, j, l \in 1 .. Len(rest) :
              i < j /\ j < l /\ CallOf(rest[i]) = CallOf(rest[l]) => CallOf(rest[j]) = CallOf(rest[i])
        <4> SUFFICES ASSUME NEW i \in 1 .. Len(rest), NEW j \in 1 .. Len(rest), NEW l \in 1 .. Len(rest),
                            i < j, j < l, CallOf(rest[i]) = CallOf(rest[l])
                     PROVE  CallOf(rest[j]) = CallOf(rest[i])
          OBVIOUS
        <4>1. n + i < n + j /\ n + j < n + l
          BY <2>2, <2>3, <2>4
        <4>. QED  BY <4>1, <2>4, <3>1 DEF PoolInv, InOrder
      <3>. QED  BY <3>2, <3>3, <3>4, <2>5, <2>8, <2>9 DEF PoolInv, InOrder
    <2>11. Counted(q) /\ NoneIdle(q)
      <3>1. Held(q) = Held(p) \cup first /\ Held(p) \cap first = {}
        BY <2>5, <2>8, <2>9 DEF Held
      <3>2. IsFiniteSet(Held(q)) /\ Cardinality(Held(q)) = p.active + n - Cardinality({})
        BY <3>1, <2>6, FS_Union DEF PoolInv, Counted
      <3>3. Cardinality({}) = 0
        BY FS_EmptySet
      <3>4. rest # <<>> => Len(p.queue) - n # 0
        BY <2>4
      <3>5. Len(p.queue) - n # 0 => n = p.capacity - p.active
        BY <2>2, <2>3 DEF n, free
      <3>. QED  BY <1>2, <2>2, <2>3, <2>8, <3>2, <3>3, <3>4, <3>5 DEF Counted, NoneIdle, free
    <2>12. Granting(p, q)
      BY <2>8, <2>9 DEF Granting
    <2>. QED  BY <2>1, <2>8, <2>10, <2>11, <2>12 DEF PoolInv
  <1>. QED  BY <1>1, <1>2

\* A child belongs to a call and is numbered in it (the ids executeBatch gives).
LEMMA ChildrenAreTasks ==
  /\ \A k \in Children : CallOf(k) \in Calls /\ k # Nowhere
                         /\ \E i \in 1 .. Tasks[CallOf(k)] : k = <<CallOf(k), i>>
  /\ \A c \in Calls : \A i \in 1 .. Tasks[c] : <<c, i>> \in Children /\ CallOf(<<c, i>>) = c
  BY DEF Children, CallOf, Nowhere

\* The requests of a call are its tasks, each once.
LEMMA RequestsOfACall ==
  ASSUME NEW c \in Calls
  PROVE  /\ Tasks[c] \in Nat \ {0}
         /\ ChildrenOf(c) \in Seq(Children) /\ Len(ChildrenOf(c)) = Tasks[c]
         /\ \A i \in 1 .. Tasks[c] : ChildrenOf(c)[i] = <<c, i>>
         /\ TasksOf(c) = {ChildrenOf(c)[i] : i \in 1 .. Tasks[c]}
         /\ \A i, j \in 1 .. Tasks[c] : ChildrenOf(c)[i] = ChildrenOf(c)[j] => i = j
         /\ IsFiniteSet(TasksOf(c)) /\ Cardinality(TasksOf(c)) = Tasks[c]
  <1> DEFINE ks == ChildrenOf(c)
  <1>1. Tasks[c] \in Nat \ {0}
    BY PoolConstants
  <1>2. \A i \in 1 .. Tasks[c] : <<c, i>> \in Children
    BY ChildrenAreTasks
  <1>3. ks \in Seq(Children) /\ Len(ks) = Tasks[c] /\ \A i \in 1 .. Tasks[c] : ks[i] = <<c, i>>
    <2>1. ks \in [1 .. Tasks[c] -> Children] /\ \A i \in 1 .. Tasks[c] : ks[i] = <<c, i>>
      BY <1>2 DEF ChildrenOf
    <2>. HIDE DEF ks
    <2>2. ks \in Seq(Children)
      BY <1>1, <2>1, SeqDef
    <2>3. Len(ks) \in Nat /\ DOMAIN ks = 1 .. Len(ks) /\ DOMAIN ks = 1 .. Tasks[c]
      BY <2>1, <2>2, LenProperties
    <2>. QED  BY <1>1, <2>1, <2>2, <2>3
  <1>. HIDE DEF ks
  <1>4. \A i, j \in 1 .. Tasks[c] : ks[i] = ks[j] => i = j
    BY <1>3
  <1>5. TasksOf(c) = {ks[i] : i \in 1 .. Tasks[c]}
    <2>1. \A i \in 1 .. Tasks[c] : ks[i] \in TasksOf(c)
      BY <1>2, <1>3, ChildrenAreTasks DEF TasksOf
    <2>2. \A k \in TasksOf(c) : \E i \in 1 .. Tasks[c] : k = ks[i]
      BY <1>3, ChildrenAreTasks DEF TasksOf
    <2>. QED  BY <2>1, <2>2
  <1>6. Tasks[c] \in 0 .. Len(ks)
    BY <1>1, <1>3
  <1>7. IsFiniteSet(TasksOf(c)) /\ Cardinality(TasksOf(c)) = Tasks[c]
    BY <1>3, <1>4, <1>5, <1>6, AsManyAsPositions
  <1>. QED  BY <1>1, <1>3, <1>4, <1>5, <1>7 DEF ks

\* The same pool, except for the requests in K: a place stays taken, and nobody
\* begins to wait.
Calm(p, q, K) ==
  /\ q.capacity = p.capacity /\ (p.closed # "open" => q.closed = p.closed)
  /\ \A k \in Children \ K :
       /\ p.claim[k] = "granted" => q.claim[k] = "granted"
       /\ p.claim[k] = "none" <=> q.claim[k] = "none"
       /\ q.claim[k] \in {"waiting", "granted"} => p.claim[k] \in {"waiting", "granted"}

\* Closing refuses everyone who waits and takes no place away (close).
LEMMA ClosedGood ==
  ASSUME NEW p, PoolInv(p), NEW reason \in {"cancelled", "unsafe"}
  PROVE  LET q == Close(p, reason) IN
         PoolInv(q) /\ NoneIdle(q) /\ q.closed # "open" /\ Calm(p, q, {})
  <1>1. CASE p.closed # "open"
    BY <1>1 DEF Close, PoolInv, Counted, NoneIdle, Calm
  <1>2. CASE p.closed = "open"
    <2> DEFINE m == [p EXCEPT !.closed = reason, !.queue = <<>>]
               q == Settle(m, Waiting(p), reason)
    <2>1. Close(p, reason) = q
      BY <1>2 DEF Close
    <2>2. /\ m \in PoolType /\ m.claim = p.claim /\ m.queue = <<>> /\ m.closed = reason
          /\ m.active = p.active /\ m.capacity = p.capacity
      <3>1. <<>> \in Seq(Children) /\ reason \in {"open", "cancelled", "unsafe"}
        BY EmptySeq
      <3>. QED  BY <3>1 DEF PoolInv, PoolType
    <2>. HIDE DEF m
    <2>3. /\ q \in PoolType /\ q.queue = <<>> /\ q.closed = reason
          /\ q.active = p.active /\ q.capacity = p.capacity
          /\ \A k \in Children : q.claim[k] = IF k \in Waiting(p) THEN reason ELSE p.claim[k]
      BY <2>2, SettleEffect DEF Claims
    <2>. HIDE DEF q
    <2>4. \A k \in Children : p.claim[k] = "waiting" <=> k \in Waiting(p)
      BY DEF PoolInv, InOrder
    <2>5. Held(q) = Held(p)
      BY <2>3, <2>4 DEF Held
    <2>6. InOrder(q)
      <3>1. Len(q.queue) = 0 /\ Waiting(q) = {}
        BY <2>3 DEF Waiting
      <3>. QED  BY <3>1, <2>3, <2>4 DEF InOrder
    <2>. QED  BY <1>2, <2>1, <2>3, <2>4, <2>5, <2>6 DEF PoolInv, Counted, NoneIdle, Calm
  <1>. QED  BY <1>1, <1>2

\* Granting keeps places.
LEMMA PumpCalm ==
  ASSUME NEW p, PoolInv(p), NEW K
  PROVE  Calm(p, Pump(p), K)
  BY PumpGood DEF Granting, Calm

\* A place given back is not held any more, and the first that waits has it (release).
LEMMA ReleaseGood ==
  ASSUME NEW p, PoolInv(p), NEW k \in Children
  PROVE  LET q == Release(p, k) IN
         /\ PoolInv(q) /\ (NoneIdle(p) => NoneIdle(q)) /\ Calm(p, q, {k}) /\ q.closed = p.closed
         /\ q.claim[k] # "granted" /\ (q.claim[k] = "waiting" => p.claim[k] = "waiting")
         /\ q.claim[k] = "none" <=> p.claim[k] = "none"
  <1>1. CASE p.claim[k] # "granted"
    BY <1>1 DEF Release, Calm
  <1>2. CASE p.claim[k] = "granted"
    <2> DEFINE m == [p EXCEPT !.active = p.active - 1]
               q == Settle(m, {k}, "released")
    <2>1. Release(p, k) = Pump(q)
      BY <1>2 DEF Release
    <2>2. /\ k \in Held(p) /\ IsFiniteSet(Held(p)) /\ p.active = Cardinality(Held(p))
          /\ p.active \in Nat /\ p.capacity \in Nat
      BY <1>2 DEF PoolInv, Counted, Held, PoolType
    <2>3. /\ IsFiniteSet(Held(p) \ {k}) /\ Cardinality(Held(p) \ {k}) = p.active - 1
          /\ p.active - 1 \in Nat
      <3>1. IsFiniteSet(Held(p) \ {k}) /\ Cardinality(Held(p) \ {k}) = p.active - 1
        BY <2>2, FS_RemoveElement
      <3>. QED  BY <3>1, FS_CardinalityType
    <2>4. /\ m \in PoolType /\ m.claim = p.claim /\ m.queue = p.queue /\ m.closed = p.closed
          /\ m.active = p.active - 1 /\ m.capacity = p.capacity
      BY <2>3 DEF PoolInv, PoolType
    <2>. HIDE DEF m
    <2>5. /\ q \in PoolType /\ q.queue = p.queue /\ q.closed = p.closed
          /\ q.active = p.active - 1 /\ q.capacity = p.capacity
          /\ \A j \in Children : q.claim[j] = IF j = k THEN "released" ELSE p.claim[j]
      BY <2>4, SettleEffect DEF Claims
    <2>. HIDE DEF q
    <2>6. Held(q) = Held(p) \ {k}
      BY <2>5 DEF Held
    <2>7. InOrder(q)
      BY <1>2, <2>5 DEF InOrder, Waiting, PoolInv
    <2>8. PoolInv(q)
      BY <2>2, <2>3, <2>5, <2>6, <2>7 DEF PoolInv, Counted
    <2>9. PoolInv(Pump(q)) /\ NoneIdle(Pump(q)) /\ Granting(q, Pump(q))
      BY <2>8, PumpGood
    <2>. QED  BY <1>2, <2>1, <2>5, <2>9 DEF Granting, Calm
  <1>. QED  BY <1>1, <1>2

\* Requests join the queue at its end and take the places that are free; a closed
\* pool refuses them (acquire).
LEMMA AcquireGood ==
  ASSUME NEW p, PoolInv(p), NEW c \in Calls, \A k \in TasksOf(c) : p.claim[k] = "none"
  PROVE  LET q == Acquire(p, ChildrenOf(c)) IN
         /\ PoolInv(q) /\ NoneIdle(q) /\ Calm(p, q, TasksOf(c)) /\ q.closed = p.closed
         /\ \A k \in TasksOf(c) : q.claim[k] # "none"
  <1> DEFINE ks == ChildrenOf(c)
             K == {ks[i] : i \in 1 .. Len(ks)}
  <1>1. /\ ks \in Seq(Children) /\ Len(ks) \in Nat /\ K = TasksOf(c) /\ K \subseteq Children
        /\ \A i \in 1 .. Len(ks) : ks[i] \in Children /\ ks[i] \in K /\ CallOf(ks[i]) = c
        /\ \A k \in K : \E i \in 1 .. Len(ks) : k = ks[i]
        /\ \A i, j \in 1 .. Len(ks) : ks[i] = ks[j] => i = j
    <2>1. /\ ks \in Seq(Children) /\ Len(ks) = Tasks[c] /\ Tasks[c] \in Nat \ {0}
          /\ TasksOf(c) = {ks[i] : i \in 1 .. Tasks[c]}
          /\ \A i, j \in 1 .. Tasks[c] : ks[i] = ks[j] => i = j
      BY RequestsOfACall
    <2>2. K = TasksOf(c)
      BY <2>1
    <2>3. \A i \in 1 .. Len(ks) : ks[i] \in K
      OBVIOUS
    <2>4. \A k \in K : \E i \in 1 .. Len(ks) : k = ks[i]
      OBVIOUS
    <2>. HIDE DEF ks, K
    <2>5. K \subseteq Children /\ \A k \in K : CallOf(k) = c
      BY <2>2 DEF TasksOf
    <2>. QED  BY <2>1, <2>2, <2>3, <2>4, <2>5
  <1>. HIDE DEF ks, K
  <1>2. p \in PoolType /\ p.closed \in {"open", "cancelled", "unsafe"}
    BY DEF PoolInv, PoolType
  <1>3. CASE p.closed # "open"
    <2> DEFINE q == Settle(p, K, p.closed)
    <2>1. Acquire(p, ChildrenOf(c)) = q
      BY <1>3 DEF Acquire, K, ks
    <2>2. /\ q \in PoolType /\ q.queue = p.queue /\ q.closed = p.closed
          /\ q.active = p.active /\ q.capacity = p.capacity
          /\ \A k \in Children : q.claim[k] = IF k \in K THEN p.closed ELSE p.claim[k]
      BY <1>2, <1>3, SettleEffect DEF Claims
    <2>. HIDE DEF q
    <2>3. Held(q) = Held(p)
      BY <1>1, <1>2, <1>3, <2>2 DEF Held
    <2>4. p.queue = <<>>
      BY <1>3 DEF PoolInv, Counted
    <2>5. InOrder(q)
      <3>1. Len(q.queue) = 0 /\ Waiting(q) = {} /\ Waiting(p) = {}
        BY <2>2, <2>4 DEF Waiting
      <3>. QED  BY <1>2, <1>3, <2>2, <3>1 DEF InOrder, PoolInv
    <2>6. PoolInv(q) /\ NoneIdle(q)
      BY <2>2, <2>3, <2>4, <2>5 DEF PoolInv, Counted, NoneIdle
    <2>7. Calm(p, q, TasksOf(c)) /\ \A k \in TasksOf(c) : q.claim[k] # "none"
      BY <1>1, <1>2, <2>2 DEF Calm
    <2>. QED  BY <2>1, <2>2, <2>6, <2>7
  <1>4. CASE p.closed = "open"
    <2> DEFINE m == [p EXCEPT !.queue = p.queue \o ks]
               q == Settle(m, K, "waiting")
    <2>1. Acquire(p, ChildrenOf(c)) = Pump(q)
      BY <1>4 DEF Acquire, K, ks
    <2>2. /\ p.queue \in Seq(Children) /\ Len(p.queue) \in Nat
          /\ \A i \in 1 .. Len(p.queue) : p.queue[i] \in Children
      BY <1>2 DEF PoolType
    <2>3. /\ p.queue \o ks \in Seq(Children) /\ Len(p.queue \o ks) = Len(p.queue) + Len(ks)
          /\ \A i \in 1 .. Len(p.queue) + Len(ks) :
               (p.queue \o ks)[i] = IF i <= Len(p.queue) THEN p.queue[i] ELSE ks[i - Len(p.queue)]
      BY <1>1, <2>2, ConcatProperties
    <2>4. /\ m \in PoolType /\ m.claim = p.claim /\ m.queue = p.queue \o ks /\ m.closed = p.closed
          /\ m.active = p.active /\ m.capacity = p.capacity
      BY <1>2, <2>3 DEF PoolType
    <2>. HIDE DEF m
    <2>5. /\ q \in PoolType /\ q.queue = p.queue \o ks /\ q.closed = p.closed
          /\ q.active = p.active /\ q.capacity = p.capacity
          /\ \A k \in Children : q.claim[k] = IF k \in K THEN "waiting" ELSE p.claim[k]
      BY <2>4, SettleEffect DEF Claims
    <2>. HIDE DEF q
    <2>6. /\ Len(q.queue) = Len(p.queue) + Len(ks)
          /\ \A i \in 1 .. Len(p.queue) : q.queue[i] = p.queue[i]
          /\ \A i \in 1 .. Len(q.queue) : i > Len(p.queue) =>
               i - Len(p.queue) \in 1 .. Len(ks) /\ q.queue[i] = ks[i - Len(p.queue)]
          /\ \A i \in 1 .. Len(ks) : Len(p.queue) + i \in 1 .. Len(q.queue)
                                     /\ q.queue[Len(p.queue) + i] = ks[i]
      BY <1>1, <2>2, <2>3, <2>5
    <2>7. \A i \in 1 .. Len(p.queue) : p.queue[i] \notin K /\ CallOf(p.queue[i]) # c
      <3>1. \A i \in 1 .. Len(p.queue) : p.claim[p.queue[i]] = "waiting"
        BY <2>2 DEF PoolInv, InOrder, Waiting
      <3>. QED  BY <1>1, <2>2, <3>1 DEF TasksOf
    <2> DEFINE old(i) == i \in 1 .. Len(p.queue) /\ q.queue[i] = p.queue[i]
               new(i) == /\ i > Len(p.queue) /\ i - Len(p.queue) \in 1 .. Len(ks)
                         /\ q.queue[i] = ks[i - Len(p.queue)]
                         /\ q.queue[i] \in K /\ CallOf(q.queue[i]) = c
    <2>12. \A i \in 1 .. Len(q.queue) : old(i) \/ new(i)
      <3> SUFFICES ASSUME NEW i \in 1 .. Len(q.queue)
                   PROVE  old(i) \/ new(i)
        OBVIOUS
      <3>1. CASE i <= Len(p.queue)
        <4>1. i \in 1 .. Len(p.queue)
          BY <3>1, <2>2
        <4>. QED  BY <4>1, <2>6
      <3>2. CASE i > Len(p.queue)
        BY <3>2, <2>6, <1>1
      <3>. QED  BY <2>2, <3>1, <3>2
    <2>13. Len(p.queue) \in Nat /\ Len(q.queue) \in Nat /\ Len(q.queue) >= Len(p.queue)
      BY <1>1, <2>2, <2>6
    <2>8. InOrder(q)
      <3>1. \A k \in Children : k \in Waiting(q) <=> k \in Waiting(p) \/ k \in K
        <4>1. \A i \in 1 .. Len(q.queue) : q.queue[i] \in Waiting(p) \/ q.queue[i] \in K
          BY <2>12 DEF Waiting
        <4>2. \A i \in 1 .. Len(p.queue) : p.queue[i] \in Waiting(q)
          <5>1. \A i \in 1 .. Len(p.queue) : i \in 1 .. Len(q.queue)
            BY <2>13
          <5>. QED  BY <2>6, <5>1 DEF Waiting
        <4>3. \A i \in 1 .. Len(ks) : ks[i] \in Waiting(q)
          <5> SUFFICES ASSUME NEW i \in 1 .. Len(ks)
                       PROVE  \E j \in 1 .. Len(q.queue) : q.queue[j] = ks[i]
            BY DEF Waiting
          <5>. QED  BY <2>6
        <4>4. \A k \in Waiting(q) : \E i \in 1 .. Len(q.queue) : k = q.queue[i]
          BY DEF Waiting
        <4>5. \A k \in Waiting(p) : \E i \in 1 .. Len(p.queue) : k = p.queue[i]
          BY DEF Waiting
        <4>6. \A k \in K : \E i \in 1 .. Len(ks) : k = ks[i]
          BY <1>1
        <4>. QED  BY <4>1, <4>2, <4>3, <4>4, <4>5, <4>6
      <3>2. \A i, j \in 1 .. Len(q.queue) : q.queue[i] = q.queue[j] => i = j
        <4> SUFFICES ASSUME NEW i \in 1 .. Len(q.queue), NEW j \in 1 .. Len(q.queue),
                            q.queue[i] = q.queue[j]
                     PROVE  i = j
          OBVIOUS
        <4>1. CASE old(i) /\ old(j)
          BY <4>1 DEF PoolInv, InOrder
        <4>2. CASE new(i) /\ new(j)
          <5>1. i - Len(p.queue) = j - Len(p.queue)
            BY <4>2, <1>1
          <5>. QED  BY <5>1, <2>13
        <4>3. CASE old(i) /\ new(j)
          BY <4>3, <2>7
        <4>4. CASE new(i) /\ old(j)
          BY <4>4, <2>7
        <4>5. (old(i) \/ new(i)) /\ (old(j) \/ new(j))
          BY <2>12
        <4>. HIDE DEF old, new
        <4>. QED  BY <4>1, <4>2, <4>3, <4>4, <4>5
      <3>3. \A i, j, l \in 1 .. Len(q.queue) :
              i < j /\ j < l /\ CallOf(q.queue[i]) = CallOf(q.queue[l])
              => CallOf(q.queue[j]) = CallOf(q.queue[i])
        <4> SUFFICES ASSUME NEW i \in 1 .. Len(q.queue), NEW j \in 1 .. Len(q.queue),
                            NEW l \in 1 .. Len(q.queue),
                            i < j, j < l, CallOf(q.queue[i]) = CallOf(q.queue[l])
                     PROVE  CallOf(q.queue[j]) = CallOf(q.queue[i])
          OBVIOUS
        <4>1. CASE old(l)
          <5>1. i \in 1 .. Len(p.queue) /\ j \in 1 .. Len(p.queue)
            BY <4>1, <2>13
          <5>2. q.queue[i] = p.queue[i] /\ q.queue[j] = p.queue[j]
            BY <5>1, <2>6
          <5>. QED  BY <4>1, <5>1, <5>2 DEF PoolInv, InOrder
        <4>2. CASE new(l) /\ old(i)
          BY <4>2, <2>7
        <4>3. CASE new(l) /\ new(i)
          <5>1. ~old(j)
            BY <4>3, <2>13
          <5>. QED  BY <4>3, <5>1, <2>12
        <4>. QED  BY <2>12, <4>1, <4>2, <4>3
      <3>. QED  BY <1>1, <2>5, <3>1, <3>2, <3>3 DEF PoolInv, InOrder
    <2>9. Held(q) = Held(p)
      BY <1>1, <2>5 DEF Held
    <2>10. PoolInv(q)
      BY <1>4, <2>5, <2>8, <2>9 DEF PoolInv, Counted
    <2>11. PoolInv(Pump(q)) /\ NoneIdle(Pump(q)) /\ Granting(q, Pump(q))
      BY <2>10, PumpGood
    <2>. QED  BY <1>1, <1>4, <2>1, <2>5, <2>11 DEF Granting, Calm
  <1>. QED  BY <1>3, <1>4

\* The requests of a call that still wait are taken out together (abandon).
LEMMA WithdrawGood ==
  ASSUME NEW p, PoolInv(p), NEW c \in Calls
  PROVE  LET q == Withdraw(p, TasksOf(c)) IN
         /\ PoolInv(q) /\ q.closed = p.closed /\ q.capacity = p.capacity /\ q.active = p.active
         /\ \A k \in Children : q.claim[k] = IF k \in TasksOf(c) /\ p.claim[k] = "waiting"
                                             THEN "cancelled" ELSE p.claim[k]
  <1> DEFINE len == Len(p.queue)
             at == {i \in 1 .. len : p.queue[i] \in TasksOf(c)}
             lo == Min(at)
             hi == Max(at)
             gap == hi - lo + 1
             before == SubSeq(p.queue, 1, lo - 1)
             after == SubSeq(p.queue, hi + 1, len)
             rest == before \o after
             K == Waiting(p) \cap TasksOf(c)
             m == [p EXCEPT !.queue = rest]
             q == Settle(m, K, "cancelled")
  <1>1. /\ p \in PoolType /\ p.queue \in Seq(Children) /\ len \in Nat
        /\ \A i \in 1 .. len : p.queue[i] \in Children
    BY DEF PoolInv, PoolType
  <1>2. \A k \in Children : p.claim[k] = "waiting" <=> k \in Waiting(p)
    BY DEF PoolInv, InOrder
  <1>3. \A i, j \in 1 .. len : p.queue[i] = p.queue[j] => i = j
    BY DEF PoolInv, InOrder
  <1>4. \A i, j, l \in 1 .. len : i < j /\ j < l /\ CallOf(p.queue[i]) = CallOf(p.queue[l])
                                  => CallOf(p.queue[j]) = CallOf(p.queue[i])
    BY DEF PoolInv, InOrder
  <1>5. \A k \in Children : k \in TasksOf(c) <=> CallOf(k) = c
    BY DEF TasksOf
  <1>6. \A i \in 1 .. len : p.queue[i] \in Waiting(p)
    BY DEF Waiting
  <1>7. \A k \in Waiting(p) : \E i \in 1 .. len : k = p.queue[i]
    BY DEF Waiting
  <1>8. CASE at = {}
    <2>1. Withdraw(p, TasksOf(c)) = p
      BY <1>8 DEF Withdraw
    <2>2. \A k \in TasksOf(c) : p.claim[k] # "waiting"
      BY <1>2, <1>7, <1>8 DEF TasksOf
    <2>. QED  BY <2>1, <2>2
  <1>9. CASE at # {}
    <2>1. Withdraw(p, TasksOf(c)) = q
      BY <1>9 DEF Withdraw
    <2>2. /\ lo \in at /\ hi \in at /\ \A i \in at : lo <= i /\ i <= hi
      BY <1>1, <1>9, FirstAndLast
    <2>3. \A i \in 1 .. len : i \in at <=> CallOf(p.queue[i]) = c
      BY <1>1, <1>5
    <2>. HIDE DEF at, lo, hi
    <2>4. /\ lo \in 1 .. len /\ hi \in 1 .. len /\ lo <= hi /\ gap \in 1 .. len
          /\ \A i \in 1 .. len : i \in at <=> lo <= i /\ i <= hi
      <3>1. lo \in 1 .. len /\ hi \in 1 .. len /\ lo <= hi
        BY <2>2 DEF at
      <3>2. CallOf(p.queue[lo]) = c /\ CallOf(p.queue[hi]) = c
        BY <2>2, <2>3, <3>1
      <3>3. ASSUME NEW i \in 1 .. len, lo <= i, i <= hi
            PROVE  i \in at
        <4>1. i = lo \/ i = hi \/ (lo < i /\ i < hi)
          BY <3>1, <3>3
        <4>2. CASE lo < i /\ i < hi
          <5>1. CallOf(p.queue[i]) = c
            BY <1>4, <3>1, <3>2, <4>2
          <5>. QED  BY <2>3, <5>1
        <4>. QED  BY <2>2, <4>1, <4>2
      <3>. HIDE DEF len
      <3>4. gap \in 1 .. len
        BY <1>1, <3>1
      <3>. QED  BY <2>2, <3>1, <3>3, <3>4
    <2>. HIDE DEF len, gap
    <2>5. gap = hi - lo + 1 /\ len \in Nat
      BY <1>1 DEF gap
    <2>6. /\ before \in Seq(Children) /\ Len(before) = lo - 1
          /\ \A i \in 1 .. lo - 1 : before[i] = p.queue[i]
      <3>1. \A i \in 1 .. lo - 1 : p.queue[i] \in Children
        BY <1>1, <2>4
      <3>2. 1 \in Int /\ lo - 1 \in Int
        BY <2>4
      <3>3. /\ before \in Seq(Children)
            /\ Len(before) = IF 1 <= lo - 1 THEN lo - 1 - 1 + 1 ELSE 0
            /\ \A i \in 1 .. lo - 1 - 1 + 1 : before[i] = p.queue[1 + i - 1]
        BY <3>1, <3>2, SubSeqProperties
      <3>. QED  BY <3>3, <2>4
    <2>7. /\ after \in Seq(Children) /\ Len(after) = len - hi
          /\ \A i \in 1 .. len - hi : after[i] = p.queue[hi + i]
      <3>1. \A i \in hi + 1 .. len : p.queue[i] \in Children
        BY <1>1, <2>4
      <3>2. hi + 1 \in Int /\ len \in Int
        BY <2>4, <2>5
      <3>3. /\ after \in Seq(Children)
            /\ Len(after) = IF hi + 1 <= len THEN len - (hi + 1) + 1 ELSE 0
            /\ \A i \in 1 .. len - (hi + 1) + 1 : after[i] = p.queue[(hi + 1) + i - 1]
        BY <3>1, <3>2, SubSeqProperties
      <3>. QED  BY <3>3, <2>4
    <2>. HIDE DEF before, after
    <2>8. /\ rest \in Seq(Children) /\ Len(rest) = len - gap
          /\ \A i \in 1 .. len - gap :
               \/ i < lo /\ rest[i] = p.queue[i] /\ i \in 1 .. len
               \/ i >= lo /\ i + gap > hi /\ rest[i] = p.queue[i + gap] /\ i + gap \in 1 .. len
      <3>1. /\ rest \in Seq(Children) /\ Len(rest) = Len(before) + Len(after)
            /\ \A i \in 1 .. Len(before) + Len(after) :
                 rest[i] = IF i <= Len(before) THEN before[i] ELSE after[i - Len(before)]
        BY <2>6, <2>7, ConcatProperties
      <3>2. Len(before) + Len(after) = len - gap
        BY <2>4, <2>5, <2>6, <2>7
      <3>3. ASSUME NEW i \in 1 .. len - gap
            PROVE  \/ i < lo /\ rest[i] = p.queue[i] /\ i \in 1 .. len
                   \/ i >= lo /\ i + gap > hi /\ rest[i] = p.queue[i + gap] /\ i + gap \in 1 .. len
        <4>1. CASE i < lo
          <5>1. i <= Len(before) /\ i \in 1 .. lo - 1 /\ i \in 1 .. len
            BY <4>1, <2>4, <2>5, <2>6
          <5>. QED  BY <4>1, <5>1, <3>1, <3>2, <2>6
        <4>2. CASE i >= lo
          <5>1. /\ ~(i <= Len(before)) /\ i - Len(before) \in 1 .. len - hi
                /\ hi + (i - Len(before)) = i + gap /\ i + gap \in 1 .. len /\ i + gap > hi
            BY <4>2, <2>4, <2>5, <2>6
          <5>2. rest[i] = after[i - Len(before)]
            BY <5>1, <3>1, <3>2
          <5>3. after[i - Len(before)] = p.queue[hi + (i - Len(before))]
            BY <5>1, <2>7
          <5>. QED  BY <4>2, <5>1, <5>2, <5>3
        <4>3. i < lo \/ i >= lo
          BY <2>4, <2>5
        <4>. QED  BY <4>1, <4>2, <4>3
      <3>. QED  BY <3>1, <3>2, <3>3
    <2>9. \A i \in 1 .. len : i \in at \/ \E j \in 1 .. len - gap : rest[j] = p.queue[i]
      <3> SUFFICES ASSUME NEW i \in 1 .. len, i < lo \/ i > hi
                   PROVE  \E j \in 1 .. len - gap : rest[j] = p.queue[i]
        <4>1. \A i \in 1 .. len : i < lo \/ i > hi \/ (lo <= i /\ i <= hi)
          BY <2>4, <2>5
        <4>. QED  BY <4>1, <2>4
      <3>1. CASE i < lo
        <4>1. i \in 1 .. len - gap /\ ~(i >= lo)
          BY <3>1, <2>4, <2>5
        <4>. QED  BY <4>1, <2>8
      <3>2. CASE i > hi
        <4>1. i - gap \in 1 .. len - gap /\ ~(i - gap < lo) /\ (i - gap) + gap = i
          BY <3>2, <2>4, <2>5
        <4>. QED  BY <4>1, <2>8
      <3>. QED  BY <3>1, <3>2
    <2>. HIDE DEF rest
    <2>10. /\ m \in PoolType /\ m.claim = p.claim /\ m.queue = rest /\ m.closed = p.closed
           /\ m.active = p.active /\ m.capacity = p.capacity
      BY <1>1, <2>8 DEF PoolType
    <2>. HIDE DEF m, K
    <2>11. /\ q \in PoolType /\ q.queue = rest /\ q.closed = p.closed
           /\ q.active = p.active /\ q.capacity = p.capacity
           /\ \A k \in Children : q.claim[k] = IF k \in K THEN "cancelled" ELSE p.claim[k]
      BY <2>10, SettleEffect DEF Claims
    <2>. HIDE DEF q
    <2>12. \A k \in Children : k \in K <=> k \in TasksOf(c) /\ p.claim[k] = "waiting"
      BY <1>2 DEF K
    <2>13. Held(q) = Held(p)
      BY <2>11, <2>12 DEF Held
    <2>14. len - gap \in Nat /\ Len(q.queue) = len - gap
      BY <2>4, <2>5, <2>8, <2>11
    <2>15. \A k \in Children : q.claim[k] = "waiting" <=> k \in Waiting(q)
      <3>1. \A k \in Children : q.claim[k] = "waiting" <=> k \in Waiting(p) /\ CallOf(k) # c
        BY <1>2, <1>5, <2>11, <2>12
      <3>2. \A j \in 1 .. len - gap : rest[j] \in Waiting(p) /\ CallOf(rest[j]) # c
        <4> SUFFICES ASSUME NEW j \in 1 .. len - gap
                     PROVE  rest[j] \in Waiting(p) /\ CallOf(rest[j]) # c
          OBVIOUS
        <4>1. CASE j < lo /\ rest[j] = p.queue[j] /\ j \in 1 .. len
          <5>1. j \notin at
            BY <4>1, <2>4
          <5>. QED  BY <4>1, <5>1, <1>6, <2>3
        <4>2. CASE j >= lo /\ j + gap > hi /\ rest[j] = p.queue[j + gap] /\ j + gap \in 1 .. len
          <5>1. j + gap \notin at
            BY <4>2, <2>4
          <5>. QED  BY <4>2, <5>1, <1>6, <2>3
        <4>. QED  BY <2>8, <4>1, <4>2
      <3>3. \A k \in Waiting(p) : CallOf(k) # c => \E j \in 1 .. len - gap : rest[j] = k
        BY <1>7, <2>3, <2>9
      <3>4. Waiting(q) = {rest[j] : j \in 1 .. len - gap}
        BY <2>11, <2>14 DEF Waiting
      <3>. QED  BY <3>1, <3>2, <3>3, <3>4
    <2> DEFINE old(i) == IF i < lo THEN i ELSE i + gap
    <2>16. \A i \in 1 .. len - gap : old(i) \in 1 .. len /\ rest[i] = p.queue[old(i)]
      <3> SUFFICES ASSUME NEW i \in 1 .. len - gap
                   PROVE  old(i) \in 1 .. len /\ rest[i] = p.queue[old(i)]
        OBVIOUS
      <3>1. i \in Int /\ lo \in Int
        BY <2>4, <2>5
      <3>2. CASE i < lo /\ rest[i] = p.queue[i] /\ i \in 1 .. len
        BY <3>2
      <3>3. CASE i >= lo /\ rest[i] = p.queue[i + gap] /\ i + gap \in 1 .. len
        <4>1. ~(i < lo)
          BY <3>1, <3>3
        <4>. QED  BY <3>3, <4>1
      <3>. QED  BY <2>8, <3>2, <3>3
    <2>17. \A i, j \in 1 .. len - gap : (i < j => old(i) < old(j)) /\ (old(i) = old(j) => i = j)
      BY <2>4, <2>5
    <2>. HIDE DEF old
    <2>18. \A i, j \in 1 .. len - gap : rest[i] = rest[j] => i = j
      BY <1>3, <2>16, <2>17
    <2>19. \A i, j, l \in 1 .. len - gap : i < j /\ j < l /\ CallOf(rest[i]) = CallOf(rest[l])
                                           => CallOf(rest[j]) = CallOf(rest[i])
      BY <1>4, <2>16, <2>17
    <2>20. InOrder(q)
      BY <2>11, <2>14, <2>15, <2>18, <2>19 DEF InOrder
    <2>21. q.closed # "open" => q.queue = <<>>
      <3>1. p.closed # "open" => len = 0
        BY DEF PoolInv, Counted, len
      <3>. QED  BY <2>4, <2>11, <3>1
    <2>22. PoolInv(q)
      BY <2>11, <2>13, <2>20, <2>21 DEF PoolInv, Counted
    <2>. QED  BY <2>1, <2>11, <2>12, <2>22
  <1>. QED  BY <1>8, <1>9

\* What a call leaves behind is given back: none of its requests waits or holds a
\* place any more (the finally of executeBatch).
LEMMA GivenBackGood ==
  ASSUME NEW p, PoolInv(p), NEW c \in Calls
  PROVE  LET q == GivenBack(p, c) IN
         /\ PoolInv(q) /\ NoneIdle(q) /\ Calm(p, q, TasksOf(c)) /\ q.closed = p.closed
         /\ \A k \in TasksOf(c) : /\ q.claim[k] \notin {"waiting", "granted"}
                                  /\ q.claim[k] = "none" => p.claim[k] = "none"
  <1> DEFINE w == Withdraw(p, TasksOf(c))
             mine == {k \in TasksOf(c) : w.claim[k] = "granted"}
             m == [w EXCEPT !.active = w.active - Cardinality(mine)]
             q == Settle(m, mine, "released")
  <1>1. GivenBack(p, c) = Pump(q)
    BY DEF GivenBack
  <1>2. /\ PoolInv(w) /\ w.closed = p.closed /\ w.capacity = p.capacity /\ w.active = p.active
        /\ \A k \in Children : w.claim[k] = IF k \in TasksOf(c) /\ p.claim[k] = "waiting"
                                            THEN "cancelled" ELSE p.claim[k]
    BY WithdrawGood
  <1>. HIDE DEF w
  <1>3. /\ w \in PoolType /\ IsFiniteSet(Held(w)) /\ w.active = Cardinality(Held(w))
        /\ w.active \in Nat /\ w.capacity \in Nat /\ w.active <= w.capacity
    BY <1>2 DEF PoolInv, Counted, PoolType
  <1>4. mine \subseteq Held(w) /\ mine \subseteq TasksOf(c) /\ TasksOf(c) \subseteq Children
    BY DEF Held, TasksOf
  <1>5. /\ IsFiniteSet(mine) /\ Cardinality(mine) \in Nat /\ Cardinality(mine) <= w.active
    <2>1. mine \in SUBSET Held(w)
      BY <1>4
    <2>2. IsFiniteSet(mine) /\ Cardinality(mine) <= Cardinality(Held(w))
      BY <1>3, <2>1, FS_Subset
    <2>. QED  BY <1>3, <2>2, FS_CardinalityType
  <1>6. Held(w) \ mine = Held(w) \ (Held(w) \cap mine) /\ Held(w) \cap mine = mine
    BY <1>4
  <1>7. /\ IsFiniteSet(Held(w) \ mine)
        /\ Cardinality(Held(w) \ mine) = w.active - Cardinality(mine)
    <2>1. /\ IsFiniteSet(Held(w) \ mine)
          /\ Cardinality(Held(w) \ mine) = Cardinality(Held(w)) - Cardinality(Held(w) \cap mine)
      BY <1>3, FS_Difference
    <2>. QED  BY <1>3, <1>6, <2>1
  <1>12. \A k \in mine : w.claim[k] = "granted"
    OBVIOUS
  <1>13. \A k \in TasksOf(c) : w.claim[k] = "granted" => k \in mine
    OBVIOUS
  <1>. HIDE DEF mine
  <1>8. /\ m \in PoolType /\ m.claim = w.claim /\ m.queue = w.queue /\ m.closed = w.closed
        /\ m.active = w.active - Cardinality(mine) /\ m.capacity = w.capacity
    <2>1. w.active - Cardinality(mine) \in Nat
      BY <1>3, <1>5
    <2>. QED  BY <1>3, <2>1 DEF PoolType
  <1>. HIDE DEF m
  <1>9. /\ q \in PoolType /\ q.queue = w.queue /\ q.closed = w.closed
        /\ q.active = w.active - Cardinality(mine) /\ q.capacity = w.capacity
        /\ \A k \in Children : q.claim[k] = IF k \in mine THEN "released" ELSE w.claim[k]
    BY <1>8, SettleEffect DEF Claims
  <1>. HIDE DEF q
  <1>10. PoolInv(q)
    <2>1. Held(q) = Held(w) \ mine
      BY <1>9 DEF Held
    <2>2. InOrder(q)
      BY <1>2, <1>9, <1>12 DEF InOrder, Waiting, PoolInv
    <2>. QED  BY <1>2, <1>3, <1>5, <1>7, <1>9, <2>1, <2>2 DEF PoolInv, Counted
  <1>11. PoolInv(Pump(q)) /\ NoneIdle(Pump(q)) /\ Granting(q, Pump(q))
    BY <1>10, PumpGood
  <1>14. \A k \in TasksOf(c) : q.claim[k] \notin {"waiting", "granted"}
                               /\ (q.claim[k] = "none" => p.claim[k] = "none")
    BY <1>2, <1>4, <1>9, <1>12, <1>13
  <1>. QED  BY <1>1, <1>2, <1>4, <1>9, <1>11, <1>14 DEF Granting, Calm

-----------------------------------------------------------------------------
(* The invariants.                                                         *)

Modes == {"none", "review", "implement"}
Final == {"completed", "failed", "cancelled"}
Statuses == Final \cup {"none", "queued", "prepared", "running", "unknown"}
Results == Final \cup {"none", "recovery_required"}
Receipts == [mode : Modes, status : Statuses, result : Results, ws : Children \cup {Nowhere},
             verified : BOOLEAN, artifact : BOOLEAN]

CallPcs == {"none", "prepared", "admitted", "verifying", "intent", "children", "draining", "over"}
CallRecords == [pc : CallPcs, target : Children \cup {NoChild}, saved : Nat, left : Int,
                result : {"none", "not_executed", "unknown", "children"}]

Early == {"none", "queued", "checking", "creating", "launching", "starting"}
Late == {"evidence", "recording", "releasing", "over"}
ChildRecords == [pc : Early \cup {"running"} \cup Late, receipt : Receipts, attempted : BOOLEAN,
                 started : BOOLEAN, unsaved : BOOLEAN]

\* What the variables hold, with a well-formed pool in which no place is idle.
Typed ==
  /\ PoolInv(pool) /\ NoneIdle(pool)
  /\ unsafe \in BOOLEAN /\ closer \in {"none", "closing", "closed"}
  /\ reserved \in Int /\ recovering \subseteq Children /\ recovered \subseteq Children /\ settled \subseteq Children
  /\ call \in [Calls -> CallRecords] /\ child \in [Children -> ChildRecords]
  /\ kept \in [Children -> Receipts] /\ disk \in [Children -> Receipts]
  /\ fate \in [Children -> {"none", "called", "alive", "gone", "doubt", "stray"}]
  /\ lease \in [Children -> {"none", "held", "kept"}]
  /\ host \in {"up", "lost"} /\ faults \in Nat
  /\ \A c \in Calls : /\ call[c].pc = "intent" => call[c].saved < Tasks[c]
                      /\ call[c].pc \in {"none", "prepared", "admitted", "verifying"} => call[c].saved = 0
                      /\ Recovery(c) /\ call[c].pc # "none" => call[c].target \in Children
  /\ \A k \in Children : call[CallOf(k)].pc \in {"none", "prepared"} => pool.claim[k] = "none"

\* What is not known: of a child's outcome, of its lease, of its run.
Doubtful(k) == child[k].receipt.status = "unknown" \/ lease[k] = "kept" \/ fate[k] \in {"doubt", "stray"}
\* Whatever is in doubt has closed the pool; a child that runs is marked as started.
DoubtCloses ==
  host = "up" => /\ (\E k \in Children : Doubtful(k)) => ~Current
                 /\ \A k \in Children : child[k].pc = "running" => child[k].started

\* How far a child is, by how far its call is.
Paced(k) ==
  LET at == call[CallOf(k)].pc IN
  /\ child[k].pc = "none" => at \notin {"intent", "children"}
  /\ child[k].pc = "queued" => at \in {"intent", "children", "draining", "over"}
  /\ child[k].pc \notin {"none", "queued", "over"} => at = "children"
  /\ child[k].pc = "over" => at \in {"children", "draining", "over"}

\* A receipt that names an outcome tells what the journal of the child says.
Told(r, k) ==
  r.status \in Final => IF r.result = "none" THEN r.status # "completed" /\ fate[k] = "none"
                        ELSE fate[k] = "gone" /\ r.result = r.status
Complete(r) == r.status = "completed" /\ r.mode = "implement" => r.verified /\ r.artifact
\* A receipt that keeps a worktree isolated, when the child has one of its own.
Alarming(r, k) == /\ r.status \in {"running", "unknown"}
                  /\ Kind[CallOf(k)] = "implement" => r.mode = "implement" /\ r.ws # Nowhere
OnDisk(k) ==
  /\ Told(disk[k], k) /\ Complete(disk[k])
  /\ fate[k] \in {"called", "alive", "doubt", "stray"} => Alarming(disk[k], k)

\* What the locals of a child say at each of its steps.
Housed(k) == Writes(k) => child[k].receipt.ws # Nowhere /\ child[k].receipt.verified
EarlyStage(k) ==
  LET b == child[k] IN
  b.pc \in Early =>
    /\ b.receipt.result = "none" /\ b.receipt.status \notin Final \cup {"unknown"} /\ ~b.receipt.artifact
    /\ ~b.started /\ ~b.unsaved /\ fate[k] = "none" /\ lease[k] = "none"
    /\ b.pc \in {"none", "queued"} => b.receipt.ws = Nowhere /\ ~b.receipt.verified /\ ~b.attempted
    /\ b.pc = "creating" => Kind[CallOf(k)] = "implement" /\ b.receipt.ws = k
    /\ b.pc \in {"launching", "starting"} \/ (b.pc = "checking" /\ Recovery(CallOf(k))) =>
         Housed(k) /\ (Writes(k) => b.attempted)
    /\ b.pc = "starting" => b.receipt.status = "running" /\ Alarming(disk[k], k)
RunningStage(k) ==
  LET b == child[k] IN
  b.pc = "running" =>
    /\ b.receipt.result = "none" /\ b.receipt.status = "running" /\ ~b.receipt.artifact
    /\ b.started /\ fate[k] \in {"called", "alive"}
    /\ lease[k] = (IF fate[k] = "alive" /\ Writes(k) THEN "held" ELSE "none")
    /\ Housed(k) /\ (Writes(k) => b.attempted)
LateStage(k) ==
  LET b == child[k] IN
  b.pc \in Late =>
    /\ b.receipt.status \in Final \cup {"unknown"} /\ Told(b.receipt, k)
    /\ fate[k] \notin {"called", "alive"} /\ lease[k] # "held"
    /\ lease[k] = "kept" \/ fate[k] \in {"doubt", "stray"} => b.receipt.status = "unknown"
    /\ b.receipt.result # "none" => fate[k] # "none"
    /\ fate[k] # "none" => Housed(k)
    /\ b.pc = "evidence" /\ fate[k] # "none" /\ Writes(k) => b.attempted
    /\ b.pc # "evidence" /\ fate[k] # "none" /\ Writes(k) /\ b.receipt.status \in Final => b.receipt.artifact
Moded(k) == child[k].pc # "none" => child[k].receipt.mode = Mode(CallOf(k))
Recorded(k) ==
  LET b == child[k].receipt IN
  /\ disk[k].status \in Final => child[k].pc \in {"releasing", "over"}
  /\ kept[k].result # "none" =>
       /\ child[k].pc \in {"releasing", "over"} /\ Told(kept[k], k)
       /\ kept[k].ws = b.ws /\ kept[k].mode = b.mode
       /\ kept[k].mode = "implement" => kept[k].ws # Nowhere
       /\ kept[k].status \in Final => lease[k] = "none"
Stage(k) == /\ Paced(k) /\ EarlyStage(k) /\ RunningStage(k) /\ LateStage(k) /\ Moded(k) /\ Recorded(k)

\* What a recovery was prepared for stays as it was.
Sound(c) == Recovery(c) /\ call[c].pc # "none" => SafelySettled(call[c].target)

ReceiptInv == /\ \A k \in Children : OnDisk(k)
              /\ host = "up" => (\A k \in Children : Stage(k)) /\ (\A c \in Calls : Sound(c))

-----------------------------------------------------------------------------
(* What the steps change.                                                  *)

\* The pool is left well-formed, and the same except for the requests in K.
PoolStep(K) ==
  /\ PoolInv(pool') /\ NoneIdle(pool') /\ Calm(pool, pool', K)
  /\ unsafe' \in BOOLEAN /\ closer' = closer

\* Only what belongs to k differs in f'.
Aside(f, g, k) == \A j \in Children : j # k => g[j] = f[j]

\* A step of a child: its own records and the count of its call change.
OneChild(k) ==
  /\ host = "up" /\ host' = "up" /\ call[CallOf(k)].pc = "children"
  /\ PoolStep({k})
  /\ child' \in [Children -> ChildRecords] /\ Aside(child, child', k)
  /\ kept' \in [Children -> Receipts] /\ Aside(kept, kept', k)
  /\ disk' \in [Children -> Receipts] /\ Aside(disk, disk', k)
  /\ fate' \in [Children -> {"none", "called", "alive", "gone", "doubt", "stray"}] /\ Aside(fate, fate', k)
  /\ lease' \in [Children -> {"none", "held", "kept"}] /\ Aside(lease, lease', k)
  /\ call' \in [Calls -> CallRecords]
  /\ \A c \in Calls : /\ call'[c].pc = call[c].pc /\ call'[c].target = call[c].target
                      /\ call'[c].saved = call[c].saved
                      /\ c # CallOf(k) => call'[c] = call[c]
  /\ recovering' = recovering /\ recovered' = recovered
  /\ settled' \subseteq Children /\ settled \subseteq settled'
  /\ reserved' \in Int /\ faults' \in Nat

\* A step that halts closes the pool (halt).
LEMMA Halting ==
  ASSUME Typed, NEW stop \in BOOLEAN, HaltIf(stop), NEW K
  PROVE  /\ PoolStep(K) /\ (stop => pool'.closed # "open") /\ (~stop => pool' = pool)
  <1>1. CASE stop
    <2>1. pool' = Close(pool, "unsafe") /\ unsafe' = TRUE /\ closer' = closer
      BY <1>1 DEF HaltIf, Halted, Typed
    <2>2. PoolInv(pool') /\ NoneIdle(pool') /\ pool'.closed # "open" /\ Calm(pool, pool', {})
      BY <2>1, ClosedGood DEF Typed
    <2>. QED  BY <1>1, <2>1, <2>2 DEF PoolStep, Calm
  <1>2. CASE ~stop
    BY <1>2 DEF HaltIf, PoolStep, Calm, Typed
  <1>. QED  BY <1>1, <1>2

LEMMA Resting ==
  ASSUME Typed, UNCHANGED poolVars, NEW K
  PROVE  PoolStep(K)
  BY DEF poolVars, PoolStep, Calm, Typed

Ended(b, status) == [b EXCEPT !.receipt.status = status, !.pc = "evidence"]

\* A child that fails goes on to its evidence with the verdict (the catch of a child).
LEMMA Failing ==
  ASSUME Typed, NEW k \in Children, NEW b \in ChildRecords, NEW error, Fails(k, b, error),
         NEW s, s = Verdict(k, b, error)
  PROVE  /\ s \in {"unknown", "cancelled", "failed"}
         /\ child' \in [Children -> ChildRecords] /\ Aside(child, child', k)
         /\ child'[k] = Ended(b, s)
         /\ PoolStep({k}) /\ (s = "unknown" => pool'.closed # "open") /\ (s # "unknown" => pool' = pool)
  <1> DEFINE d == Ended(b, s)
  <1>1. s \in {"unknown", "cancelled", "failed"}
    BY DEF Verdict
  <1>2. child' = [child EXCEPT ![k] = d] /\ HaltIf(s = "unknown")
    BY DEF Fails, Ended
  <1>3. d \in ChildRecords
    BY <1>1 DEF Ended, ChildRecords, Receipts, Statuses, Final, Late
  <1>. HIDE DEF d
  <1>4. child \in [Children -> ChildRecords]
    BY DEF Typed
  <1>5. PoolStep({k}) /\ (s = "unknown" => pool'.closed # "open") /\ (s # "unknown" => pool' = pool)
    BY <1>2, Halting
  <1>. QED  BY <1>1, <1>2, <1>3, <1>4, <1>5 DEF Aside, d

\* A save succeeds in full, or the child's outcome is unknown and the pool closes (save).
LEMMA Saving ==
  ASSUME Typed, NEW k \in Children, NEW b \in ChildRecords, NEW next \in Early, Save(k, b, next)
  PROVE  /\ PoolStep({k}) /\ faults' \in Nat
         /\ child' \in [Children -> ChildRecords] /\ Aside(child, child', k)
         /\ kept' \in [Children -> Receipts] /\ Aside(kept, kept', k)
         /\ disk' \in [Children -> Receipts] /\ Aside(disk, disk', k)
         /\ \/ /\ child'[k] = [b EXCEPT !.pc = next] /\ pool' = pool
               /\ kept'[k] = b.receipt /\ disk'[k] = b.receipt
            \/ /\ child'[k] = Ended(b, "unknown")
               /\ pool'.closed # "open"
               /\ kept' = kept /\ disk'[k] \in {disk[k], b.receipt}
  <1>1. /\ child \in [Children -> ChildRecords] /\ kept \in [Children -> Receipts]
        /\ disk \in [Children -> Receipts] /\ faults \in Nat
        /\ b.receipt \in Receipts
    BY DEF Typed, ChildRecords
  <1>2. CASE /\ child' = [child EXCEPT ![k] = [b EXCEPT !.pc = next]]
             /\ kept' = [kept EXCEPT ![k] = b.receipt] /\ disk' = [disk EXCEPT ![k] = b.receipt]
             /\ UNCHANGED <<poolVars, faults>>
    <2>1. [b EXCEPT !.pc = next] \in ChildRecords
      BY DEF ChildRecords
    <2>2. PoolStep({k})
      BY <1>2, Resting
    <2>. QED  BY <1>1, <1>2, <2>1, <2>2 DEF Aside, poolVars
  <1>3. CASE /\ faults' = faults + 1 /\ Fails(k, b, "unsaved")
             /\ \E r \in {disk[k], b.receipt} : disk' = [disk EXCEPT ![k] = r]
             /\ UNCHANGED kept
    <2>1. Verdict(k, b, "unsaved") = "unknown"
      BY DEF Verdict
    <2>2. /\ child' \in [Children -> ChildRecords] /\ Aside(child, child', k)
          /\ child'[k] = Ended(b, "unknown")
          /\ PoolStep({k}) /\ pool'.closed # "open"
      BY <1>3, <2>1, Failing
    <2>3. /\ disk' \in [Children -> Receipts] /\ Aside(disk, disk', k) /\ disk'[k] \in {disk[k], b.receipt}
      <3>1. PICK r \in {disk[k], b.receipt} : disk' = [disk EXCEPT ![k] = r]
        BY <1>3
      <3>2. r \in Receipts
        BY <1>1, <3>1
      <3>. QED  BY <1>1, <3>1, <3>2 DEF Aside
    <2>. QED  BY <1>1, <1>3, <2>2, <2>3 DEF Aside
  <1>. QED  BY <1>2, <1>3 DEF Save

\* Every step of a child leaves everyone else's records alone (ChildStep).
LEMMA ChildStepsAreApart ==
  ASSUME Typed, NEW k \in Children, ChildStep(k)
  PROVE  OneChild(k)
  <1> DEFINE b == child[k]
             Same == UNCHANGED <<books, call>>
  <1>1. /\ child \in [Children -> ChildRecords] /\ kept \in [Children -> Receipts]
        /\ disk \in [Children -> Receipts] /\ faults \in Nat
        /\ fate \in [Children -> {"none", "called", "alive", "gone", "doubt", "stray"}]
        /\ lease \in [Children -> {"none", "held", "kept"}]
        /\ call \in [Calls -> CallRecords] /\ settled \subseteq Children /\ reserved \in Int
        /\ CallOf(k) \in Calls
    BY ChildrenAreTasks DEF Typed
  <1>2. /\ b \in ChildRecords /\ b.receipt \in Receipts
    BY <1>1 DEF ChildRecords
  <1>3. ASSUME At(k, b.pc), UNCHANGED <<books, call, kept, disk, workers, host>>, PoolStep({k}), faults' \in Nat,
               child' \in [Children -> ChildRecords], Aside(child, child', k)
        PROVE  OneChild(k)
    BY <1>1, <1>3 DEF OneChild, At, books, workers, Aside
  <1>4. ASSUME At(k, b.pc), Same, UNCHANGED <<workers, host>>, PoolStep({k}), faults' \in Nat,
               child' \in [Children -> ChildRecords], Aside(child, child', k),
               kept' \in [Children -> Receipts], Aside(kept, kept', k),
               disk' \in [Children -> Receipts], Aside(disk, disk', k)
        PROVE  OneChild(k)
    BY <1>1, <1>4 DEF OneChild, At, books, workers, Aside
  <1>5. ASSUME At(k, b.pc), Same, UNCHANGED <<kept, disk, host>>, PoolStep({k}), faults' \in Nat,
               child' \in [Children -> ChildRecords], Aside(child, child', k),
               fate' \in [Children -> {"none", "called", "alive", "gone", "doubt", "stray"}], Aside(fate, fate', k),
               lease' \in [Children -> {"none", "held", "kept"}], Aside(lease, lease', k)
        PROVE  OneChild(k)
    BY <1>1, <1>5 DEF OneChild, At, books, Aside
  <1>6. ASSUME NEW end \in {"none", "called", "alive", "gone", "doubt", "stray"}, NEW of \in {"none", "held", "kept"},
               WorkerEnds(k, end, of)
        PROVE  /\ fate' \in [Children -> {"none", "called", "alive", "gone", "doubt", "stray"}] /\ Aside(fate, fate', k)
               /\ lease' \in [Children -> {"none", "held", "kept"}] /\ Aside(lease, lease', k)
    BY <1>1, <1>6 DEF WorkerEnds, Aside
  <1>7. ASSUME Fails(k, b, "check") \/ Fails(k, b, "rejected") \/ Fails(k, b, "not_started")
        PROVE  child' \in [Children -> ChildRecords] /\ Aside(child, child', k) /\ PoolStep({k})
    BY <1>2, <1>7, Failing
  <1>8. CASE Admitted(k)
    <2> DEFINE owner == IF Recovery(CallOf(k)) THEN kept[Target(k)].ws ELSE Nowhere
               c == [b EXCEPT !.receipt.status = "prepared", !.receipt.ws = owner,
                              !.receipt.verified = (owner # Nowhere), !.attempted = (owner # Nowhere)]
    <2>1. owner \in Children \cup {Nowhere}
      <3>1. Recovery(CallOf(k)) => Target(k) \in Children
        BY <1>1, <1>8 DEF Admitted, At, Typed, Target
      <3>. QED  BY <1>1, <3>1 DEF Receipts
    <2>2. Save(k, c, "checking") /\ At(k, b.pc) /\ UNCHANGED <<books, call, workers, host>>
      BY <1>8 DEF Admitted, At
    <2>. HIDE DEF owner
    <2>3. c \in ChildRecords
      BY <1>2, <2>1 DEF ChildRecords, Receipts, Statuses
    <2>. HIDE DEF c
    <2>. QED  BY <1>4, <2>2, <2>3, Saving DEF Early
  <1>9. CASE Checked(k)
    <2> DEFINE c == [b EXCEPT !.receipt.ws = k]
    <2>1. CASE Kind[CallOf(k)] = "implement"
      <3>1. Save(k, c, "creating") /\ At(k, b.pc) /\ UNCHANGED <<books, call, workers, host>>
        BY <1>9, <2>1 DEF Checked, At
      <3>2. c \in ChildRecords
        BY <1>2 DEF ChildRecords, Receipts
      <3>. HIDE DEF c
      <3>. QED  BY <1>4, <3>1, <3>2, Saving DEF Early
    <2>2. CASE Kind[CallOf(k)] # "implement"
      <3>1. /\ child' = [child EXCEPT ![k].pc = "launching"] /\ UNCHANGED <<poolVars, kept, disk, faults>>
            /\ At(k, b.pc) /\ UNCHANGED <<books, call, workers, host>>
        BY <1>9, <2>2 DEF Checked, At
      <3>2. child' \in [Children -> ChildRecords] /\ Aside(child, child', k)
        BY <1>1, <3>1 DEF ChildRecords, Early, Aside
      <3>. QED  BY <1>1, <1>3, <3>1, <3>2, Resting
    <2>. QED  BY <2>1, <2>2
  <1>10. CASE Created(k)
    <2> DEFINE c == [b EXCEPT !.attempted = TRUE, !.receipt.verified = TRUE]
               d == [b EXCEPT !.attempted = TRUE]
    <2>1. At(k, b.pc) /\ UNCHANGED <<books, call, workers, host>>
      BY <1>10 DEF Created, At
    <2>2. c \in ChildRecords /\ d \in ChildRecords
      BY <1>2 DEF ChildRecords, Receipts
    <2>3. \/ Save(k, c, "launching")
          \/ Fails(k, d, "worktree") /\ UNCHANGED <<kept, disk, faults>>
      BY <1>10 DEF Created
    <2>. HIDE DEF c, d
    <2>4. CASE Save(k, c, "launching")
      BY <1>4, <2>1, <2>2, <2>4, Saving DEF Early
    <2>5. CASE Fails(k, d, "worktree") /\ UNCHANGED <<kept, disk, faults>>
      <3>1. child' \in [Children -> ChildRecords] /\ Aside(child, child', k) /\ PoolStep({k})
        BY <2>2, <2>5, Failing
      <3>. QED  BY <1>1, <1>3, <2>1, <2>5, <3>1
    <2>. QED  BY <2>3, <2>4, <2>5
  <1>11. CASE Launched(k)
    <2> DEFINE c == [b EXCEPT !.receipt.status = "running"]
    <2>1. At(k, b.pc) /\ UNCHANGED <<books, call, workers, host>> /\ Save(k, c, "starting")
      BY <1>11 DEF Launched, At
    <2>2. c \in ChildRecords
      BY <1>2 DEF ChildRecords, Receipts, Statuses
    <2>. HIDE DEF c
    <2>. QED  BY <1>4, <2>1, <2>2, Saving DEF Early
  <1>12. CASE Throw(k)
    <2>1. At(k, b.pc) /\ Fails(k, b, "check") /\ UNCHANGED <<books, call, kept, disk, workers, host, faults>>
      BY <1>12 DEF Throw, At
    <2>. QED  BY <1>1, <1>3, <1>7, <2>1
  <1>13. CASE Start(k)
    <2>1. /\ At(k, b.pc) /\ child' = [child EXCEPT ![k].pc = "running", ![k].started = TRUE]
          /\ fate' = [fate EXCEPT ![k] = "called"]
          /\ UNCHANGED <<poolVars, books, call, kept, disk, lease, host, faults>>
      BY <1>13 DEF Start, At
    <2>2. child' \in [Children -> ChildRecords] /\ Aside(child, child', k)
      BY <1>1, <2>1 DEF ChildRecords, Aside
    <2>3. /\ fate' \in [Children -> {"none", "called", "alive", "gone", "doubt", "stray"}] /\ Aside(fate, fate', k)
          /\ lease' \in [Children -> {"none", "held", "kept"}] /\ Aside(lease, lease', k)
      BY <1>1, <2>1 DEF Aside
    <2>. QED  BY <1>1, <1>5, <2>1, <2>2, <2>3, Resting
  <1>14. CASE StartUnsaved(k)
    <2>1. /\ At(k, b.pc) /\ child' = [child EXCEPT ![k].unsaved = TRUE] /\ faults' = faults + 1
          /\ HaltIf(TRUE) /\ UNCHANGED <<books, call, kept, disk, workers, host>>
      BY <1>14 DEF StartUnsaved, At
    <2>2. child' \in [Children -> ChildRecords] /\ Aside(child, child', k)
      BY <1>1, <2>1 DEF ChildRecords, Aside
    <2>3. PoolStep({k})
      BY <2>1, Halting
    <2>. QED  BY <1>1, <1>3, <2>1, <2>2, <2>3
  <1>15. CASE Works(k)
    <2>1. /\ At(k, b.pc) /\ fate' = [fate EXCEPT ![k] = "alive"]
          /\ lease' = [lease EXCEPT ![k] = IF Writes(k) THEN "held" ELSE lease[k]]
          /\ UNCHANGED <<poolVars, books, call, records, host, faults>>
      BY <1>15 DEF Works, At
    <2>2. /\ fate' \in [Children -> {"none", "called", "alive", "gone", "doubt", "stray"}] /\ Aside(fate, fate', k)
          /\ lease' \in [Children -> {"none", "held", "kept"}] /\ Aside(lease, lease', k)
      BY <1>1, <2>1 DEF Aside
    <2>. QED  BY <1>1, <1>5, <2>1, <2>2, Resting DEF records, Aside
  <1>16. CASE Returns(k)
    <2>1. /\ At(k, b.pc) /\ UNCHANGED <<books, call, kept, disk, host, faults>>
      BY <1>16 DEF Returns, At
    <2>2. PICK result \in {"completed", "failed", "cancelled", "recovery_required"} :
            LET doubt == result = "recovery_required"
                status == IF doubt \/ child[k].unsaved THEN "unknown" ELSE result IN
            /\ WorkerEnds(k, IF doubt THEN "doubt" ELSE "gone", IF doubt THEN "kept" ELSE "none")
            /\ child' = [child EXCEPT ![k].pc = "evidence", ![k].receipt.status = status,
                                      ![k].receipt.result = IF child[k].unsaved THEN "none" ELSE result]
            /\ HaltIf(status = "unknown")
      BY <1>16 DEF Returns
    <2>3. child' \in [Children -> ChildRecords] /\ Aside(child, child', k)
      <3> DEFINE status == IF result = "recovery_required" \/ b.unsaved THEN "unknown" ELSE result
                 answer == IF b.unsaved THEN "none" ELSE result
                 d == [b EXCEPT !.pc = "evidence", !.receipt.status = status, !.receipt.result = answer]
      <3>1. status \in Statuses /\ answer \in Results
        BY DEF Statuses, Results, Final
      <3>2. child' = [child EXCEPT ![k].pc = "evidence", ![k].receipt.status = status,
                                   ![k].receipt.result = answer]
        BY <2>2
      <3>. HIDE DEF status, answer
      <3>3. d \in ChildRecords
        BY <1>2, <3>1 DEF ChildRecords, Receipts, Late
      <3>4. child' = [child EXCEPT ![k] = d]
        BY <1>1, <3>2
      <3>. QED  BY <1>1, <3>3, <3>4 DEF Aside
    <2>4. PoolStep({k})
      BY <2>2, Halting
    <2>. QED  BY <1>1, <1>5, <1>6, <2>1, <2>2, <2>3, <2>4
  <1>17. CASE LeaseStays(k)
    <2>1. /\ At(k, b.pc) /\ UNCHANGED <<books, call, kept, disk, host>> /\ faults' = faults + 1
          /\ WorkerEnds(k, "gone", "kept") /\ Fails(k, b, "rejected")
      BY <1>17 DEF LeaseStays, At
    <2>. QED  BY <1>1, <1>5, <1>6, <1>7, <2>1
  <1>18. CASE Rejects(k)
    <2>1. /\ At(k, b.pc) /\ UNCHANGED <<books, call, kept, disk, host, faults>>
          /\ WorkerEnds(k, IF fate[k] = "alive" THEN "doubt" ELSE "none", "none") /\ Fails(k, b, "rejected")
      BY <1>18 DEF Rejects, At
    <2>. QED  BY <1>1, <1>5, <1>6, <1>7, <2>1
  <1>19. CASE StartRefused(k)
    <2>1. /\ At(k, b.pc) /\ UNCHANGED <<books, call, kept, disk, host, faults>>
          /\ WorkerEnds(k, "none", "none") /\ Fails(k, b, "not_started")
      BY <1>19 DEF StartRefused, At
    <2>. QED  BY <1>1, <1>5, <1>6, <1>7, <2>1
  <1>20. CASE Unclean(k)
    <2>1. /\ At(k, b.pc) /\ UNCHANGED <<books, call, kept, disk, host, faults>>
          /\ WorkerEnds(k, "stray", "kept") /\ Fails(k, b, "rejected")
      BY <1>20 DEF Unclean, At
    <2>. QED  BY <1>1, <1>5, <1>6, <1>7, <2>1
  <1> DEFINE Rest == /\ host = "up" /\ call[CallOf(k)].pc = "children" /\ UNCHANGED <<workers, host, recovering, recovered>>
  <1>21. ASSUME Rest, PoolStep({k}), faults' \in Nat,
                child' \in [Children -> ChildRecords], Aside(child, child', k),
                kept' \in [Children -> Receipts], Aside(kept, kept', k),
                disk' \in [Children -> Receipts], Aside(disk, disk', k),
                settled' \subseteq Children, settled \subseteq settled', reserved' \in Int,
                call' \in [Calls -> CallRecords],
                \A c \in Calls : /\ call'[c].pc = call[c].pc /\ call'[c].target = call[c].target
                                 /\ call'[c].saved = call[c].saved
                                 /\ c # CallOf(k) => call'[c] = call[c]
         PROVE  OneChild(k)
    BY <1>1, <1>21 DEF OneChild, workers, Aside
  <1>22. CASE Evidence(k)
    <2> DEFINE c == [b EXCEPT !.pc = "recording"]
               due == c.receipt.ws # Nowhere /\ c.attempted
    <2>1. /\ Rest /\ settled' = settled \cup {k} /\ UNCHANGED <<reserved, call, kept, disk>>
          /\ \/ child' = [child EXCEPT ![k] = [c EXCEPT !.receipt.artifact = due]] /\ UNCHANGED <<poolVars, faults>>
             \/ child' = [child EXCEPT ![k] = Unknown(c)] /\ faults' = faults + 1 /\ HaltIf(TRUE)
      BY <1>22 DEF Evidence, At, Lost
    <2>2. c \in ChildRecords /\ c.receipt \in Receipts /\ due \in BOOLEAN
      BY <1>2 DEF ChildRecords, Late
    <2>. HIDE DEF c, due
    <2>3. [c EXCEPT !.receipt.artifact = due] \in ChildRecords /\ Unknown(c) \in ChildRecords
      BY <2>2 DEF ChildRecords, Receipts, Statuses, Unknown
    <2>4. child' \in [Children -> ChildRecords] /\ Aside(child, child', k)
      BY <1>1, <2>1, <2>3 DEF Aside
    <2>5. PoolStep({k}) /\ faults' \in Nat
      <3>1. CASE UNCHANGED <<poolVars, faults>>
        BY <1>1, <3>1, Resting
      <3>2. CASE faults' = faults + 1 /\ HaltIf(TRUE)
        <4>1. PoolStep({k})
          BY <3>2, Halting
        <4>. QED  BY <1>1, <3>2, <4>1
      <3>. QED  BY <2>1, <3>1, <3>2
    <2>6. kept' = kept /\ disk' = disk /\ call' = call /\ reserved' = reserved
      BY <2>1
    <2>7. Aside(kept, kept', k) /\ Aside(disk, disk', k)
      BY <2>6 DEF Aside
    <2>. QED  BY <1>1, <1>21, <2>1, <2>4, <2>5, <2>6, <2>7
  <1>23. CASE Record(k)
    <2> DEFINE c == [b EXCEPT !.pc = "releasing"]
    <2>1. /\ Rest /\ UNCHANGED <<books, call>>
          /\ \/ /\ child' = [child EXCEPT ![k] = c] /\ UNCHANGED <<poolVars, faults>>
                /\ kept' = [kept EXCEPT ![k] = c.receipt] /\ disk' = [disk EXCEPT ![k] = c.receipt]
             \/ /\ child' = [child EXCEPT ![k] = Unknown(c)] /\ faults' = faults + 1 /\ HaltIf(TRUE)
                /\ \E r \in {disk[k], c.receipt, Unknown(c).receipt} : disk' = [disk EXCEPT ![k] = r]
                /\ UNCHANGED kept
      BY <1>23 DEF Record, At, Lost, books
    <2>2. c \in ChildRecords /\ c.receipt \in Receipts
      BY <1>2 DEF ChildRecords, Late
    <2>. HIDE DEF c
    <2>3. Unknown(c) \in ChildRecords /\ Unknown(c).receipt \in Receipts
      BY <2>2 DEF ChildRecords, Receipts, Statuses, Unknown
    <2>4. child' \in [Children -> ChildRecords] /\ Aside(child, child', k)
      BY <1>1, <2>1, <2>2, <2>3 DEF Aside
    <2>5. PoolStep({k}) /\ faults' \in Nat
      <3>1. CASE UNCHANGED <<poolVars, faults>>
        BY <1>1, <3>1, Resting
      <3>2. CASE faults' = faults + 1 /\ HaltIf(TRUE)
        <4>1. PoolStep({k})
          BY <3>2, Halting
        <4>. QED  BY <1>1, <3>2, <4>1
      <3>. QED  BY <2>1, <3>1, <3>2
    <2>6. kept' \in [Children -> Receipts] /\ Aside(kept, kept', k)
      BY <1>1, <2>1, <2>2 DEF Aside
    <2>7. disk' \in [Children -> Receipts] /\ Aside(disk, disk', k)
      BY <1>1, <2>1, <2>2, <2>3 DEF Aside
    <2>. QED  BY <1>1, <1>21, <2>1, <2>4, <2>5, <2>6, <2>7 DEF books
  <1>24. CASE Leave(k)
    <2> DEFINE c == [b EXCEPT !.pc = "over", !.attempted = FALSE, !.started = FALSE, !.unsaved = FALSE]
    <2>1. /\ Rest /\ UNCHANGED <<settled, kept>> /\ closer' = closer
          /\ reserved' = reserved - 1 /\ call' = [call EXCEPT ![CallOf(k)].left = @ - 1]
          /\ \/ /\ child' = [child EXCEPT ![k] = c] /\ pool' = Release(pool, k)
                /\ UNCHANGED <<unsafe, disk, faults>>
             \/ /\ faults' = faults + 1 /\ child' = [child EXCEPT ![k] = Unknown(c)]
                /\ pool' = Release(Halted(pool), k) /\ unsafe' = TRUE
                /\ \E r \in {disk[k], Unknown(c).receipt} : disk' = [disk EXCEPT ![k] = r]
      BY <1>24 DEF Leave, At, books
    <2>2. c \in ChildRecords /\ c.receipt \in Receipts
      BY <1>2 DEF ChildRecords, Late
    <2>. HIDE DEF c
    <2>3. Unknown(c) \in ChildRecords /\ Unknown(c).receipt \in Receipts
      BY <2>2 DEF ChildRecords, Receipts, Statuses, Unknown
    <2>4. child' \in [Children -> ChildRecords] /\ Aside(child, child', k)
      BY <1>1, <2>1, <2>2, <2>3 DEF Aside
    <2>5. PoolStep({k})
      <3>1. PoolInv(pool) /\ NoneIdle(pool) /\ unsafe \in BOOLEAN
        BY DEF Typed
      <3>2. CASE pool' = Release(pool, k) /\ unsafe' = unsafe
        BY <2>1, <3>1, <3>2, ReleaseGood DEF PoolStep
      <3>3. CASE pool' = Release(Halted(pool), k) /\ unsafe' = TRUE
        <4>1. PoolInv(Halted(pool)) /\ NoneIdle(Halted(pool)) /\ Calm(pool, Halted(pool), {})
          BY <3>1, ClosedGood DEF Halted
        <4>2. PoolInv(pool') /\ NoneIdle(pool') /\ Calm(Halted(pool), pool', {k}) /\ pool'.closed = Halted(pool).closed
          BY <3>3, <4>1, ReleaseGood
        <4>. QED  BY <2>1, <3>3, <4>1, <4>2 DEF PoolStep, Calm
      <3>. QED  BY <2>1, <3>2, <3>3
    <2>6. disk' \in [Children -> Receipts] /\ Aside(disk, disk', k) /\ faults' \in Nat
      BY <1>1, <2>1, <2>3 DEF Aside
    <2>7. kept' \in [Children -> Receipts] /\ Aside(kept, kept', k)
      BY <1>1, <2>1 DEF Aside
    <2>8. /\ call' \in [Calls -> CallRecords] /\ reserved' \in Int
          /\ \A d \in Calls : /\ call'[d].pc = call[d].pc /\ call'[d].target = call[d].target
                              /\ call'[d].saved = call[d].saved
                              /\ d # CallOf(k) => call'[d] = call[d]
      <3>1. [call[CallOf(k)] EXCEPT !.left = @ - 1] \in CallRecords
        BY <1>1 DEF CallRecords
      <3>2. call' = [call EXCEPT ![CallOf(k)] = [call[CallOf(k)] EXCEPT !.left = @ - 1]] /\ reserved' \in Int
        BY <1>1, <2>1
      <3>. QED  BY <1>1, <3>1, <3>2 DEF CallRecords
    <2>. QED  BY <1>1, <1>21, <2>1, <2>4, <2>5, <2>6, <2>7, <2>8
  <1>. QED
    BY <1>8, <1>9, <1>10, <1>11, <1>12, <1>13, <1>14, <1>15, <1>16, <1>17, <1>18, <1>19, <1>20,
       <1>22, <1>23, <1>24 DEF ChildStep

\* A pool that was just made.
LEMMA EmptyPoolGood ==
  ASSUME NEW n \in Nat \ {0}
  PROVE  LET q == EmptyPool(n) IN
         /\ PoolInv(q) /\ NoneIdle(q) /\ q.closed = "open" /\ q.capacity = n
         /\ \A k \in Children : q.claim[k] = "none"
  <1> DEFINE q == EmptyPool(n)
  <1>1. /\ q.capacity = n /\ q.closed = "open" /\ q.active = 0 /\ q.queue = <<>>
        /\ q.claim = [k \in Children |-> "none"] /\ q \in PoolType
    <2>1. <<>> \in Seq(Children) /\ [k \in Children |-> "none"] \in [Children -> Claims]
      BY EmptySeq DEF Claims
    <2>. QED  BY <2>1 DEF EmptyPool, PoolType
  <1>. HIDE DEF q
  <1>2. Held(q) = {} /\ Waiting(q) = {} /\ Len(q.queue) = 0
    BY <1>1 DEF Held, Waiting
  <1>3. IsFiniteSet(Held(q)) /\ Cardinality(Held(q)) = 0
    BY <1>2, FS_EmptySet
  <1>4. InOrder(q)
    BY <1>1, <1>2 DEF InOrder
  <1>5. Counted(q)
    BY <1>1, <1>3 DEF Counted
  <1>. QED  BY <1>1, <1>4, <1>5 DEF PoolInv, NoneIdle, q

\* The states the run begins with have the right types.
LEMMA TypedInit == Init => Typed
  <1> SUFFICES ASSUME Init PROVE Typed
    OBVIOUS
  <1>1. PICK n \in Capacities : pool = EmptyPool(n)
    BY DEF Init
  <1>2. n \in Nat \ {0}
    BY PoolConstants
  <1>3. PoolInv(pool) /\ NoneIdle(pool) /\ \A k \in Children : pool.claim[k] = "none"
    BY <1>1, <1>2, EmptyPoolGood
  <1>4. NoReceipt \in Receipts /\ NotBegun \in ChildRecords /\ NoCall \in CallRecords
    BY DEF NoReceipt, NotBegun, NoCall, Receipts, ChildRecords, CallRecords, Modes, Statuses, Results,
           Early, CallPcs, Nowhere, NoChild
  <1>5. /\ call = [c \in Calls |-> NoCall] /\ child = [k \in Children |-> NotBegun]
        /\ kept = [k \in Children |-> NoReceipt] /\ disk = [k \in Children |-> NoReceipt]
        /\ fate = [k \in Children |-> "none"] /\ lease = [k \in Children |-> "none"]
        /\ unsafe = FALSE /\ closer = "none" /\ reserved = 0 /\ recovering = {} /\ recovered = {}
        /\ settled = {} /\ host = "up" /\ faults = 0
    BY DEF Init
  <1>6. NoCall.pc = "none" /\ NoCall.saved = 0
    BY DEF NoCall
  <1>7. /\ call \in [Calls -> CallRecords] /\ child \in [Children -> ChildRecords]
        /\ kept \in [Children -> Receipts] /\ disk \in [Children -> Receipts]
        /\ \A c \in Calls : call[c].pc = "none" /\ call[c].saved = 0
    BY <1>4, <1>5, <1>6
  <1>8. /\ fate \in [Children -> {"none", "called", "alive", "gone", "doubt", "stray"}]
        /\ lease \in [Children -> {"none", "held", "kept"}]
    BY <1>5
  <1>10. unsafe \in BOOLEAN
    BY <1>5
  <1>9. /\ closer \in {"none", "closing", "closed"} /\ host \in {"up", "lost"}
        /\ reserved \in Int /\ faults \in Nat
        /\ recovering \subseteq Children /\ recovered \subseteq Children /\ settled \subseteq Children
    BY <1>5
  <1>. QED  BY <1>3, <1>7, <1>8, <1>9, <1>10 DEF Typed

\* A step of a call, whose record becomes new: the children's workers are left alone.
OneCall(c, new) ==
  /\ host = "up" /\ UNCHANGED <<workers, host, settled>> /\ PoolStep(TasksOf(c))
  /\ new \in CallRecords /\ call' = [call EXCEPT ![c] = new]
  /\ new.pc # "none" /\ (call[c].pc # "none" => new.target = call[c].target)
  /\ new.pc = "prepared" => pool' = pool /\ call[c].pc = "none"
  /\ new.pc = "intent" => new.saved < Tasks[c]
  /\ new.pc \in {"prepared", "admitted", "verifying"} => new.saved = 0
  /\ Recovery(c) => new.target \in Children
  /\ reserved' \in Int /\ faults' \in Nat /\ recovering' \subseteq Children /\ recovered' \subseteq Children
  /\ child' \in [Children -> ChildRecords] /\ kept' \in [Children -> Receipts]
  /\ disk' \in [Children -> Receipts]

CallChange(c) == CallStep(c) \/ Prepare(c) \/ Refuse(c) \/ Execute(c)

\* Every step of a call is of that kind (prepare, execute, executeBatch).
LEMMA CallStepsAreApart ==
  ASSUME Typed, NEW c \in Calls, CallChange(c)
  PROVE  \E new : OneCall(c, new)
  <1> DEFINE d == call[c]
  <1>1. /\ child \in [Children -> ChildRecords] /\ kept \in [Children -> Receipts]
        /\ disk \in [Children -> Receipts] /\ faults \in Nat /\ reserved \in Int
        /\ recovering \subseteq Children /\ recovered \subseteq Children
        /\ call \in [Calls -> CallRecords] /\ PoolInv(pool) /\ NoneIdle(pool)
    BY DEF Typed
  <1>2. /\ d \in CallRecords /\ d.saved \in Nat /\ d.left \in Int /\ d.target \in Children \cup {NoChild}
        /\ Tasks[c] \in Nat \ {0} /\ Tasks[c] \in Int /\ 0 \in Int
    BY <1>1, PoolConstants DEF CallRecords
  <1>3. /\ Recovery(c) /\ d.pc # "none" => d.target \in Children
        /\ d.pc \in {"none", "prepared", "admitted", "verifying"} => d.saved = 0
    BY DEF Typed
  <1>4. UNCHANGED poolVars => PoolStep(TasksOf(c))
    BY Resting
  <1>5. ASSUME NEW new \in CallRecords, call' = [call EXCEPT ![c] = new], host = "up",
               UNCHANGED <<poolVars, workers, host, books, records, faults>>,
               new.pc \notin {"none", "intent"}, new.pc = "prepared" => d.pc = "none",
               d.pc # "none" => new.target = d.target,
               new.pc \in {"prepared", "admitted", "verifying"} => new.saved = 0, Recovery(c) => new.target \in Children
        PROVE  OneCall(c, new)
    BY <1>1, <1>4, <1>5 DEF OneCall, poolVars, books, records
  <1>6. CASE Prepare(c)
    <2>1. PICK k \in Children \cup {NoChild} :
            /\ Recovery(c) => k # NoChild
            /\ call' = [call EXCEPT ![c].pc = "prepared", ![c].target = k]
      BY <1>6 DEF Prepare, Recovery
    <2> DEFINE new == [d EXCEPT !.pc = "prepared", !.target = k]
    <2>2. new \in CallRecords /\ new.pc = "prepared" /\ new.target = k /\ new.saved = d.saved
      BY <1>2 DEF CallRecords, CallPcs
    <2>3. call' = [call EXCEPT ![c] = new]
      BY <1>1, <2>1
    <2>4. /\ UNCHANGED <<poolVars, workers, host, books, records, faults>> /\ d.pc = "none" /\ host = "up"
      BY <1>6 DEF Prepare
    <2>. HIDE DEF new
    <2>5. OneCall(c, new)
      BY <1>3, <1>5, <2>1, <2>2, <2>3, <2>4
    <2>. QED  BY <2>5
  <1>7. CASE Refuse(c)
    <2> DEFINE new == [d EXCEPT !.pc = "over", !.result = "not_executed"]
    <2>1. new \in CallRecords /\ new.pc = "over" /\ new.target = d.target
      BY <1>2 DEF CallRecords, CallPcs
    <2>2. call' = [call EXCEPT ![c] = new]
      BY <1>1, <1>7 DEF Refuse
    <2>3. UNCHANGED <<poolVars, workers, host, books, records, faults>> /\ d.pc # "none" /\ host = "up"
      BY <1>7 DEF Refuse
    <2>. HIDE DEF new
    <2>4. OneCall(c, new)
      BY <1>3, <1>5, <2>1, <2>2, <2>3
    <2>. QED  BY <2>4
  <1>8. CASE Execute(c)
    <2> DEFINE new == [d EXCEPT !.pc = "admitted", !.left = Tasks[c]]
    <2>1. new \in CallRecords /\ new.pc = "admitted" /\ new.target = d.target
          /\ new.saved = d.saved
      BY <1>2 DEF CallRecords, CallPcs
    <2>2. call' = [call EXCEPT ![c] = new]
      BY <1>1, <1>8 DEF Execute
    <2>3. /\ UNCHANGED <<unsafe, closer, recovered, settled, records, workers, host, faults>>
          /\ d.pc = "prepared" /\ host = "up"
          /\ pool' = Acquire(pool, ChildrenOf(c)) /\ reserved' = reserved + Tasks[c]
          /\ recovering' = (IF Recovery(c) THEN recovering \cup {d.target} ELSE recovering)
      BY <1>8 DEF Execute
    <2>. HIDE DEF new
    <2>4. PoolStep(TasksOf(c))
      <3>1. \A k \in TasksOf(c) : pool.claim[k] = "none"
        BY <2>3 DEF Typed, TasksOf
      <3>2. unsafe \in BOOLEAN
        BY DEF Typed
      <3>. QED  BY <1>1, <2>3, <3>1, <3>2, AcquireGood DEF PoolStep
    <2>5. recovering' \subseteq Children /\ reserved' \in Int
      BY <1>1, <1>2, <1>3, <2>3
    <2>6. OneCall(c, new)
      BY <1>1, <1>3, <2>1, <2>2, <2>3, <2>4, <2>5 DEF OneCall, records
    <2>. QED  BY <2>6
  <1>9. CASE Check(c)
    <2> DEFINE new == [d EXCEPT !.pc = "verifying"]
    <2>1. new \in CallRecords /\ new.pc = "verifying" /\ new.target = d.target
          /\ new.saved = d.saved
      BY <1>2 DEF CallRecords, CallPcs
    <2>2. call' = [call EXCEPT ![c] = new]
      BY <1>1, <1>9 DEF Check
    <2>3. /\ UNCHANGED <<poolVars, workers, host, books, records, faults>>
          /\ d.pc = "admitted" /\ host = "up"
      BY <1>9 DEF Check
    <2>. HIDE DEF new
    <2>4. OneCall(c, new)
      BY <1>3, <1>5, <2>1, <2>2, <2>3
    <2>. QED  BY <2>4
  <1>10. CASE Abandon(c)
    <2> DEFINE new == [d EXCEPT !.pc = "draining", !.result = "not_executed"]
    <2>1. new \in CallRecords /\ new.pc = "draining" /\ new.target = d.target
      BY <1>2 DEF CallRecords, CallPcs
    <2>2. call' = [call EXCEPT ![c] = new]
      BY <1>1, <1>10 DEF Abandon
    <2>3. UNCHANGED <<poolVars, workers, host, books, records, faults>> /\ d.pc # "none" /\ host = "up"
      BY <1>10 DEF Abandon
    <2>. HIDE DEF new
    <2>4. OneCall(c, new)
      BY <1>3, <1>5, <2>1, <2>2, <2>3
    <2>. QED  BY <2>4
  <1>11. CASE Intend(c)
    <2> DEFINE new == [d EXCEPT !.pc = "intent"]
    <2>1. new \in CallRecords /\ new.pc = "intent" /\ new.target = d.target
          /\ new.saved = d.saved
      BY <1>2 DEF CallRecords, CallPcs
    <2>2. /\ call' = [call EXCEPT ![c].pc = "intent"] /\ d.pc = "verifying" /\ host = "up"
          /\ recovered' = (IF Recovery(c) THEN recovered \cup {d.target} ELSE recovered)
          /\ UNCHANGED <<poolVars, reserved, recovering, settled, kept, disk, workers, host, faults>>
      BY <1>11 DEF Intend
    <2>3. call' = [call EXCEPT ![c] = new]
      BY <1>1, <2>2
    <2>4. child' \in [Children -> ChildRecords]
      <3>1. Mode(c) \in Modes
        <4>1. CASE Recovery(c)
          <5>1. d.target \in Children
            BY <1>3, <2>2, <4>1
          <5>. QED  BY <1>1, <4>1, <5>1 DEF Mode, Recovery, Receipts
        <4>2. CASE ~Recovery(c)
          BY <4>2, DelegationConstants DEF Mode, Recovery, Modes
        <4>. QED  BY <4>1, <4>2
      <3>2. \A b \in ChildRecords : DrawnUp(b, c) \in ChildRecords
        BY <3>1 DEF DrawnUp, ChildRecords, Receipts, Statuses, Early
      <3>3. child' = [k \in Children |-> IF CallOf(k) = c THEN DrawnUp(child[k], c) ELSE child[k]]
        BY <1>11 DEF Intend
      <3>. QED  BY <1>1, <3>2, <3>3
    <2>. HIDE DEF new
    <2>5. new.saved < Tasks[c]
      BY <1>2, <1>3, <2>1, <2>2
    <2>6. recovered' \subseteq Children
      BY <1>1, <1>3, <2>2
    <2>7. OneCall(c, new)
      BY <1>1, <1>3, <1>4, <2>1, <2>2, <2>3, <2>4, <2>5, <2>6 DEF OneCall
    <2>. QED  BY <2>7
  <1>12. CASE SaveIntent(c)
    <2> DEFINE k == <<c, d.saved + 1>>
               new == [d EXCEPT !.saved = d.saved + 1, !.pc = IF d.saved + 1 = Tasks[c] THEN "children" ELSE @]
    <2>1. /\ call' = [call EXCEPT ![c].saved = d.saved + 1,
                                  ![c].pc = IF d.saved + 1 = Tasks[c] THEN "children" ELSE @]
          /\ kept' = [kept EXCEPT ![k] = child[k].receipt] /\ disk' = [disk EXCEPT ![k] = child[k].receipt]
          /\ UNCHANGED <<poolVars, books, child, workers, host, faults>> /\ d.pc = "intent" /\ host = "up"
      BY <1>12 DEF SaveIntent
    <2>2. d.saved < Tasks[c]
      BY <2>1 DEF Typed
    <2>3. d.saved + 1 \in Nat /\ d.saved + 1 \in 1 .. Tasks[c]
      BY <1>2, <2>2
    <2>4. k \in Children
      BY <2>3, ChildrenAreTasks
    <2>5. child[k].receipt \in Receipts
      BY <1>1, <2>4 DEF ChildRecords
    <2>6. new \in CallRecords /\ new.pc \in {"intent", "children"} /\ new.target = d.target
          /\ new.saved = d.saved + 1 /\ (new.pc = "intent" => d.saved + 1 # Tasks[c])
      BY <1>2, <2>1, <2>3 DEF CallRecords, CallPcs
    <2>7. call' = [call EXCEPT ![c] = new]
      BY <1>1, <2>1
    <2>8. new.pc = "intent" => new.saved < Tasks[c]
      BY <1>2, <2>2, <2>6
    <2>. HIDE DEF new, k
    <2>9. kept' \in [Children -> Receipts] /\ disk' \in [Children -> Receipts]
      BY <1>1, <2>1, <2>4, <2>5
    <2>10. OneCall(c, new)
      BY <1>1, <1>3, <1>4, <2>1, <2>6, <2>7, <2>8, <2>9 DEF OneCall, books
    <2>. QED  BY <2>10
  <1>13. CASE IntentLost(c)
    <2> DEFINE k == <<c, d.saved + 1>>
               new == [d EXCEPT !.pc = "draining", !.result = "unknown"]
    <2>1. /\ call' = [call EXCEPT ![c].pc = "draining", ![c].result = "unknown"]
          /\ HaltIf(TRUE) /\ faults' = faults + 1 /\ d.pc = "intent" /\ host = "up"
          /\ UNCHANGED <<books, child, kept, workers, host>>
          /\ \E written \in BOOLEAN : disk' = [disk EXCEPT ![k] = IF written THEN child[k].receipt ELSE @]
      BY <1>13 DEF IntentLost
    <2>2. d.saved < Tasks[c]
      BY <2>1 DEF Typed
    <2>3. d.saved + 1 \in 1 .. Tasks[c]
      BY <1>2, <2>2
    <2>4. k \in Children
      BY <2>3, ChildrenAreTasks
    <2>5. child[k].receipt \in Receipts
      BY <1>1, <2>4 DEF ChildRecords
    <2>6. new \in CallRecords /\ new.pc = "draining" /\ new.target = d.target
      BY <1>2 DEF CallRecords, CallPcs
    <2>7. call' = [call EXCEPT ![c] = new]
      BY <1>1, <2>1
    <2>. HIDE DEF new, k
    <2>8. disk' \in [Children -> Receipts]
      <3>1. disk' = disk \/ disk' = [disk EXCEPT ![k] = child[k].receipt]
        <4>1. PICK written \in BOOLEAN : disk' = [disk EXCEPT ![k] = IF written THEN child[k].receipt ELSE @]
          BY <2>1 DEF k
        <4>. QED  BY <1>1, <4>1
      <3>. QED  BY <1>1, <2>4, <2>5, <3>1
    <2>9. PoolStep(TasksOf(c))
      <3>1. HaltIf(TRUE)
        BY <2>1
      <3>. QED  BY <3>1, Halting
    <2>10. OneCall(c, new)
      <3>1. faults' = faults + 1 /\ d.pc = "intent" /\ host = "up" /\ UNCHANGED <<books, child, kept, workers, host>>
        BY <2>1
      <3>. QED  BY <1>1, <1>3, <2>6, <2>7, <2>8, <2>9, <3>1 DEF OneCall, books
    <2>. QED  BY <2>10
  <1>14. CASE Answer(c)
    <2> DEFINE new == [d EXCEPT !.pc = "draining", !.result = "children"]
    <2>1. new \in CallRecords /\ new.pc = "draining" /\ new.target = d.target
      BY <1>2 DEF CallRecords, CallPcs
    <2>2. call' = [call EXCEPT ![c] = new]
      BY <1>1, <1>14 DEF Answer
    <2>3. UNCHANGED <<poolVars, workers, host, books, records, faults>> /\ d.pc # "none" /\ host = "up"
      BY <1>14 DEF Answer
    <2>. HIDE DEF new
    <2>4. OneCall(c, new)
      BY <1>3, <1>5, <2>1, <2>2, <2>3
    <2>. QED  BY <2>4
  <1>15. CASE Drain(c)
    <2> DEFINE new == [d EXCEPT !.pc = "over", !.left = 0]
    <2>1. new \in CallRecords /\ new.pc = "over" /\ new.target = d.target
      BY <1>2 DEF CallRecords, CallPcs
    <2>2. call' = [call EXCEPT ![c] = new]
      BY <1>1, <1>15 DEF Drain
    <2>3. /\ UNCHANGED <<unsafe, closer, recovered, settled, records, workers, host, faults>>
          /\ d.pc = "draining" /\ host = "up" /\ pool' = GivenBack(pool, c)
          /\ reserved' = reserved - d.left /\ recovering' = recovering \ {d.target}
      BY <1>15 DEF Drain
    <2>. HIDE DEF new
    <2>4. PoolStep(TasksOf(c))
      <3>1. unsafe \in BOOLEAN
        BY DEF Typed
      <3>. QED  BY <1>1, <2>3, <3>1, GivenBackGood DEF PoolStep
    <2>5. reserved' \in Int /\ recovering' \subseteq Children
      BY <1>1, <1>2, <2>3
    <2>6. OneCall(c, new)
      BY <1>1, <1>3, <2>1, <2>2, <2>3, <2>4, <2>5 DEF OneCall, records
    <2>. QED  BY <2>6
  <1>. QED
    BY <1>6, <1>7, <1>8, <1>9, <1>10, <1>11, <1>12, <1>13, <1>14, <1>15 DEF CallChange, CallStep

\* Every step preserves the types.
LEMMA TypedStep == Typed /\ [Next]_vars => Typed'
  <1> SUFFICES ASSUME Typed, [Next]_vars PROVE Typed'
    OBVIOUS
  <1>1. /\ child \in [Children -> ChildRecords] /\ kept \in [Children -> Receipts]
        /\ disk \in [Children -> Receipts] /\ faults \in Nat
        /\ fate \in [Children -> {"none", "called", "alive", "gone", "doubt", "stray"}]
        /\ lease \in [Children -> {"none", "held", "kept"}]
        /\ call \in [Calls -> CallRecords] /\ settled \subseteq Children /\ reserved \in Int
        /\ recovering \subseteq Children /\ recovered \subseteq Children
        /\ PoolInv(pool) /\ NoneIdle(pool) /\ unsafe \in BOOLEAN /\ host \in {"up", "lost"}
        /\ closer \in {"none", "closing", "closed"}
    BY DEF Typed
  <1>2. \A c \in Calls : /\ call[c].pc = "intent" => call[c].saved < Tasks[c]
                         /\ call[c].pc \in {"none", "prepared", "admitted", "verifying"} => call[c].saved = 0
                         /\ Recovery(c) /\ call[c].pc # "none" => call[c].target \in Children
    BY DEF Typed
  <1>3. \A k \in Children : call[CallOf(k)].pc \in {"none", "prepared"} => pool.claim[k] = "none"
    BY DEF Typed
  <1>4. \A c \in Calls : /\ call[c] \in CallRecords /\ Tasks[c] \in Nat \ {0}
                         /\ call[c].saved \in Nat /\ call[c].left \in Int
    BY <1>1, PoolConstants DEF CallRecords
  <1>5. CASE UNCHANGED vars
    <2>1. /\ pool' = pool /\ unsafe' = unsafe /\ closer' = closer /\ call' = call /\ child' = child
          /\ reserved' = reserved /\ recovering' = recovering /\ recovered' = recovered
          /\ settled' = settled /\ kept' = kept /\ disk' = disk /\ fate' = fate /\ lease' = lease
          /\ host' = host /\ faults' = faults
      BY <1>5 DEF vars, poolVars, books, records, workers
    <2>2. PoolInv(pool') /\ NoneIdle(pool')
      BY <1>1, <2>1
    <2>. QED  BY <1>1, <1>2, <1>3, <2>1, <2>2 DEF Typed, Recovery
  <1>6. ASSUME NEW k \in Children, ChildStep(k)
        PROVE  Typed'
    <2>1. OneChild(k)
      BY <1>6, ChildStepsAreApart
    <2>2. \A c \in Calls : /\ call'[c].pc = "intent" => call'[c].saved < Tasks[c]
                           /\ call'[c].pc \in {"none", "prepared", "admitted", "verifying"} => call'[c].saved = 0
                           /\ Recovery(c)' /\ call'[c].pc # "none" => call'[c].target \in Children
      BY <1>2, <2>1 DEF OneChild, Recovery
    <2>3. \A j \in Children : call'[CallOf(j)].pc \in {"none", "prepared"} => pool'.claim[j] = "none"
      BY <1>3, <2>1, ChildrenAreTasks DEF OneChild, PoolStep, Calm
    <2>. QED  BY <1>1, <2>1, <2>2, <2>3 DEF OneChild, PoolStep, Typed
  <1>7. ASSUME NEW c \in Calls, CallChange(c)
        PROVE  Typed'
    <2>1. PICK new : OneCall(c, new)
      BY <1>7, CallStepsAreApart
    <2>2. call' \in [Calls -> CallRecords] /\ \A d \in Calls : call'[d] = IF d = c THEN new ELSE call[d]
      BY <1>1, <2>1 DEF OneCall
    <2>3. \A d \in Calls : /\ call'[d].pc = "intent" => call'[d].saved < Tasks[d]
                           /\ call'[d].pc \in {"none", "prepared", "admitted", "verifying"} => call'[d].saved = 0
                           /\ Recovery(d)' /\ call'[d].pc # "none" => call'[d].target \in Children
      BY <1>2, <2>1, <2>2 DEF Recovery, OneCall
    <2>4. \A j \in Children : call'[CallOf(j)].pc \in {"none", "prepared"} => pool'.claim[j] = "none"
      <3> SUFFICES ASSUME NEW j \in Children, call'[CallOf(j)].pc \in {"none", "prepared"}
                   PROVE  pool'.claim[j] = "none"
        OBVIOUS
      <3>1. CASE CallOf(j) = c
        BY <1>3, <2>1, <2>2, <3>1 DEF OneCall
      <3>2. CASE CallOf(j) # c
        <4>1. pool.claim[j] = "none" /\ j \notin TasksOf(c)
          BY <1>3, <2>2, <3>2, ChildrenAreTasks DEF TasksOf
        <4>. QED  BY <2>1, <4>1 DEF OneCall, PoolStep, Calm
      <3>. QED  BY <3>1, <3>2
    <2>. QED  BY <1>1, <2>1, <2>2, <2>3, <2>4 DEF Typed, OneCall, PoolStep, workers
  <1>8. CASE CloseAll
    <2>1. PoolInv(pool') /\ NoneIdle(pool') /\ Calm(pool, pool', {})
      BY <1>1, <1>8, ClosedGood DEF CloseAll
    <2>2. \A k \in Children : call[CallOf(k)].pc \in {"none", "prepared"} => pool'.claim[k] = "none"
      BY <1>3, <2>1 DEF Calm
    <2>. QED  BY <1>1, <1>2, <1>8, <2>1, <2>2 DEF CloseAll, Typed, books, records, workers, Recovery
  <1>9. CASE Closed
    <2>1. UNCHANGED <<pool, unsafe, books, call, records, workers, host, faults>> /\ closer' = "closed"
      BY <1>9 DEF Closed
    <2>2. PoolInv(pool') /\ NoneIdle(pool')
      BY <1>1, <2>1
    <2>. QED  BY <1>1, <1>2, <1>3, <2>1, <2>2 DEF Typed, books, records, workers, Recovery
  <1>10. CASE HostLost
    <2>1. pool.capacity \in Nat \ {0} /\ pool' = EmptyPool(pool.capacity)
      BY <1>1, <1>10 DEF HostLost, PoolInv, PoolType
    <2>2. PoolInv(pool') /\ NoneIdle(pool') /\ \A k \in Children : pool'.claim[k] = "none"
      BY <2>1, EmptyPoolGood
    <2>3. NoReceipt \in Receipts /\ NotBegun \in ChildRecords /\ NoCall \in CallRecords
          /\ NoCall.pc = "none" /\ NoCall.saved = 0
      BY DEF NoReceipt, NotBegun, NoCall, Receipts, ChildRecords, CallRecords, Modes, Statuses, Results,
             Early, CallPcs, Nowhere, NoChild
    <2>4. /\ unsafe' = FALSE /\ closer' = "none" /\ reserved' = 0 /\ recovering' = {} /\ recovered' = {}
          /\ settled' = {} /\ host' = "lost" /\ faults' = 0 /\ disk' = disk
          /\ call' = [c \in Calls |-> NoCall] /\ child' = [k \in Children |-> NotBegun]
          /\ kept' = [k \in Children |-> NoReceipt] /\ lease' = [k \in Children |-> "none"]
      BY <1>10 DEF HostLost
    <2>5. fate' \in [Children -> {"none", "called", "alive", "gone", "doubt", "stray"}]
      <3>1. fate' = [k \in Children |-> IF fate[k] = "alive" THEN "doubt" ELSE IF fate[k] = "called" THEN "none"
                                        ELSE fate[k]]
        BY <1>10 DEF HostLost
      <3>. QED  BY <1>1, <3>1
    <2>6. /\ call' \in [Calls -> CallRecords] /\ child' \in [Children -> ChildRecords]
          /\ kept' \in [Children -> Receipts] /\ \A c \in Calls : call'[c].pc = "none" /\ call'[c].saved = 0
          /\ lease' \in [Children -> {"none", "held", "kept"}]
      BY <2>3, <2>4
    <2>8. unsafe' \in BOOLEAN
      BY <2>4
    <2>7. /\ closer' \in {"none", "closing", "closed"} /\ host' \in {"up", "lost"}
          /\ reserved' \in Int /\ faults' \in Nat /\ disk' \in [Children -> Receipts]
          /\ recovering' \subseteq Children /\ recovered' \subseteq Children /\ settled' \subseteq Children
      BY <1>1, <2>4
    <2>. QED  BY <2>2, <2>5, <2>6, <2>7, <2>8 DEF Typed
  <1>. QED  BY <1>5, <1>6, <1>7, <1>8, <1>9, <1>10 DEF Next, DelegationStep, Requests, CallChange

-----------------------------------------------------------------------------
(* Types.                                                                  *)

\* The variables have the types of the code, and the pool is well-formed: nobody waits
\* twice, the requests of a call stand together, the places taken are counted and never
\* more than there are, a closed pool has no queue and an open one keeps nobody waiting
\* while a place is free (createNativeAgentTaskPool).
THEOREM DelegationsAreTyped == Spec => []Typed
  BY TypedInit, TypedStep, PTL DEF Spec

-----------------------------------------------------------------------------
(* Doubt.                                                                  *)

\* A failure leaves what it was given, with the verdict.
LEMMA EndedIs ==
  ASSUME NEW b \in ChildRecords, NEW status \in Statuses
  PROVE  LET e == Ended(b, status) IN
         /\ e.pc = "evidence" /\ e.attempted = b.attempted /\ e.started = b.started /\ e.unsaved = b.unsaved
         /\ e.receipt.status = status /\ e.receipt.mode = b.receipt.mode /\ e.receipt.result = b.receipt.result
         /\ e.receipt.ws = b.receipt.ws /\ e.receipt.verified = b.receipt.verified
         /\ e.receipt.artifact = b.receipt.artifact
  BY DEF Ended, ChildRecords, Receipts

\* A step of a child brings no doubt that does not close the pool.
LEMMA DoubtOfAChild ==
  ASSUME Typed, DoubtCloses, NEW k \in Children, ChildStep(k)
  PROVE  /\ Doubtful(k)' => Doubtful(k) \/ pool'.closed # "open"
         /\ child'[k].pc = "running" => child'[k].started
  <1> DEFINE b == child[k]
             Good == /\ Doubtful(k)' => Doubtful(k) \/ pool'.closed # "open"
                     /\ child'[k].pc = "running" => child'[k].started
  <1>1. /\ child \in [Children -> ChildRecords] /\ b \in ChildRecords /\ b.receipt \in Receipts
        /\ lease \in [Children -> {"none", "held", "kept"}]
        /\ fate \in [Children -> {"none", "called", "alive", "gone", "doubt", "stray"}]
    BY DEF Typed, ChildRecords
  <1>2. b.pc = "running" /\ host = "up" => b.started
    BY DEF DoubtCloses
  <1>3. ASSUME NEW e, Fails(k, b, e) \/ \E c \in ChildRecords : Fails(k, c, e)
        PROVE  /\ child'[k].pc = "evidence" /\ (child'[k].receipt.status = "unknown" => pool'.closed # "open")
    <2>1. PICK c \in ChildRecords : Fails(k, c, e)
      BY <1>1, <1>3
    <2>2. PICK s : s = Verdict(k, c, e)
      OBVIOUS
    <2>3. s \in Statuses /\ child'[k] = Ended(c, s) /\ (s = "unknown" => pool'.closed # "open")
      BY <2>1, <2>2, Failing DEF Statuses, Final
    <2>. QED  BY <2>3, EndedIs
  <1>4. ASSUME UNCHANGED workers, child'[k].pc # "running",
               child'[k].receipt.status = "unknown" => b.receipt.status = "unknown" \/ pool'.closed # "open"
        PROVE  Good
    BY <1>4 DEF Doubtful, workers
  <1>5. ASSUME NEW c \in ChildRecords, NEW next \in Early, Save(k, c, next), UNCHANGED workers,
               c.receipt.status = "unknown" => b.receipt.status = "unknown"
        PROVE  Good
    <2>1. \/ child'[k] = [c EXCEPT !.pc = next]
          \/ child'[k] = Ended(c, "unknown") /\ pool'.closed # "open"
      BY <1>5, Saving
    <2>2. CASE child'[k] = [c EXCEPT !.pc = next]
      <3>1. child'[k].pc = next /\ child'[k].receipt = c.receipt
        BY <2>2 DEF ChildRecords
      <3>. QED  BY <1>4, <1>5, <3>1 DEF Early
    <2>3. CASE child'[k] = Ended(c, "unknown") /\ pool'.closed # "open"
      BY <1>4, <1>5, <2>3, EndedIs DEF Statuses
    <2>. QED  BY <2>1, <2>2, <2>3
  <1>6. CASE Admitted(k)
    <2> DEFINE owner == IF Recovery(CallOf(k)) THEN kept[Target(k)].ws ELSE Nowhere
                c == [b EXCEPT !.receipt.status = "prepared", !.receipt.ws = owner,
                              !.receipt.verified = (owner # Nowhere), !.attempted = (owner # Nowhere)]
    <2>1. Save(k, c, "checking") /\ UNCHANGED workers
      BY <1>6 DEF Admitted
    <2>2. owner \in Children \cup {Nowhere}
      <3>1. Recovery(CallOf(k)) => Target(k) \in Children
        BY <1>6, ChildrenAreTasks DEF Admitted, At, Typed, Target
      <3>2. kept \in [Children -> Receipts]
        BY DEF Typed
      <3>. QED  BY <3>1, <3>2 DEF Receipts
    <2>. HIDE DEF owner
    <2>3. c \in ChildRecords /\ c.receipt.status = "prepared"
      BY <1>1, <2>2 DEF ChildRecords, Receipts, Statuses
    <2>. HIDE DEF c
    <2>. QED  BY <1>5, <2>1, <2>3 DEF Early
  <1>7. CASE Checked(k)
    <2> DEFINE c == [b EXCEPT !.receipt.ws = k]
    <2>1. CASE Kind[CallOf(k)] = "implement"
      <3>1. Save(k, c, "creating") /\ UNCHANGED workers
        BY <1>7, <2>1 DEF Checked
      <3>2. c \in ChildRecords /\ c.receipt.status = b.receipt.status
        BY <1>1 DEF ChildRecords, Receipts
      <3>. HIDE DEF c
      <3>. QED  BY <1>5, <3>1, <3>2 DEF Early
    <2>2. CASE Kind[CallOf(k)] # "implement"
      <3>1. child' = [child EXCEPT ![k].pc = "launching"] /\ UNCHANGED workers
        BY <1>7, <2>2 DEF Checked
      <3>2. child'[k].pc = "launching" /\ child'[k].receipt = b.receipt
        BY <1>1, <3>1 DEF ChildRecords
      <3>. QED  BY <1>4, <3>1, <3>2
    <2>. QED  BY <2>1, <2>2
  <1>8. CASE Created(k)
    <2> DEFINE c == [b EXCEPT !.attempted = TRUE, !.receipt.verified = TRUE]
               d == [b EXCEPT !.attempted = TRUE]
    <2>1. c \in ChildRecords /\ d \in ChildRecords /\ c.receipt.status = b.receipt.status
      BY <1>1 DEF ChildRecords, Receipts
    <2>2. (Save(k, c, "launching") \/ Fails(k, d, "worktree")) /\ UNCHANGED workers
      BY <1>8 DEF Created
    <2>. HIDE DEF c, d
    <2>3. CASE Save(k, c, "launching")
      BY <1>5, <2>1, <2>2, <2>3 DEF Early
    <2>4. CASE Fails(k, d, "worktree")
      BY <1>3, <1>4, <2>1, <2>2, <2>4
    <2>. QED  BY <2>2, <2>3, <2>4
  <1>9. CASE Launched(k)
    <2> DEFINE c == [b EXCEPT !.receipt.status = "running"]
    <2>1. c \in ChildRecords /\ c.receipt.status = "running"
      BY <1>1 DEF ChildRecords, Receipts, Statuses
    <2>2. Save(k, c, "starting") /\ UNCHANGED workers
      BY <1>9 DEF Launched
    <2>. HIDE DEF c
    <2>. QED  BY <1>5, <2>1, <2>2 DEF Early
  <1>10. CASE Throw(k)
    BY <1>3, <1>4, <1>10 DEF Throw
  <1>11. CASE Start(k)
    <2>1. /\ child' = [child EXCEPT ![k].pc = "running", ![k].started = TRUE]
          /\ fate' = [fate EXCEPT ![k] = "called"] /\ lease' = lease
      BY <1>11 DEF Start
    <2>2. child'[k].started /\ child'[k].receipt = b.receipt /\ fate'[k] = "called"
      BY <1>1, <2>1 DEF ChildRecords
    <2>. QED  BY <2>1, <2>2 DEF Doubtful
  <1>12. CASE StartUnsaved(k)
    <2>1. child' = [child EXCEPT ![k].unsaved = TRUE] /\ HaltIf(TRUE) /\ b.pc = "running" /\ host = "up"
      BY <1>12 DEF StartUnsaved, At
    <2>2. child'[k].started = b.started
      BY <1>1, <2>1 DEF ChildRecords
    <2>3. pool'.closed # "open"
      BY <2>1, Halting
    <2>. QED  BY <1>2, <2>1, <2>2, <2>3
  <1>13. CASE Works(k)
    <2>1. /\ b.pc = "running" /\ host = "up" /\ child' = child /\ fate' = [fate EXCEPT ![k] = "alive"]
          /\ lease' = [lease EXCEPT ![k] = IF Writes(k) THEN "held" ELSE lease[k]]
      BY <1>13 DEF Works, At, records
    <2>2. fate'[k] = "alive" /\ lease'[k] \in {"held", lease[k]}
      BY <1>1, <2>1
    <2>. QED  BY <1>2, <2>1, <2>2 DEF Doubtful
  <1>14. CASE Returns(k)
    <2>1. PICK result \in {"completed", "failed", "cancelled", "recovery_required"} :
            LET doubt == result = "recovery_required"
                status == IF doubt \/ child[k].unsaved THEN "unknown" ELSE result IN
            /\ WorkerEnds(k, IF doubt THEN "doubt" ELSE "gone", IF doubt THEN "kept" ELSE "none")
            /\ child' = [child EXCEPT ![k].pc = "evidence", ![k].receipt.status = status,
                                      ![k].receipt.result = IF child[k].unsaved THEN "none" ELSE result]
            /\ HaltIf(status = "unknown")
      BY <1>14 DEF Returns
    <2> DEFINE unknown == result = "recovery_required" \/ b.unsaved
    <2>2. unknown => pool'.closed # "open"
      <3>1. unknown => HaltIf(TRUE)
        BY <2>1
      <3>. QED  BY <3>1, Halting
    <2>3. /\ child'[k].pc = "evidence"
          /\ child'[k].receipt.status = IF unknown THEN "unknown" ELSE result
      BY <1>1, <2>1 DEF ChildRecords, Receipts
    <2>4. ~unknown => fate'[k] = "gone" /\ lease'[k] \in {"none", lease[k]}
      BY <1>1, <2>1 DEF WorkerEnds
    <2>. QED  BY <2>2, <2>3, <2>4 DEF Doubtful
  <1>15. ASSUME NEW e \in {"rejected", "not_started"}, At(k, "running"), Fails(k, b, e),
                e = "rejected" \/ (fate'[k] = "none" /\ lease'[k] \in {"none", lease[k]})
         PROVE  Good
    <2>1. child'[k].pc = "evidence" /\ (child'[k].receipt.status = "unknown" => pool'.closed # "open")
      BY <1>3, <1>15
    <2>2. CASE e = "rejected"
      <3>1. Verdict(k, b, e) = "unknown"
        BY <1>2, <1>15, <2>2 DEF Verdict, At
      <3>2. pool'.closed # "open"
        BY <1>1, <1>15, <3>1, Failing
      <3>. QED  BY <2>1, <3>2
    <2>3. CASE e # "rejected"
      BY <1>15, <2>1, <2>3 DEF Doubtful
    <2>. QED  BY <2>2, <2>3
  <1>16. CASE LeaseStays(k)
    BY <1>15, <1>16 DEF LeaseStays
  <1>17. CASE Rejects(k)
    BY <1>15, <1>17 DEF Rejects
  <1>18. CASE StartRefused(k)
    <2>1. WorkerEnds(k, "none", "none") /\ At(k, "running") /\ Fails(k, b, "not_started")
      BY <1>18 DEF StartRefused
    <2>2. fate'[k] = "none" /\ lease'[k] \in {"none", lease[k]}
      BY <1>1, <2>1 DEF WorkerEnds
    <2>. QED  BY <1>15, <2>1, <2>2
  <1>19. CASE Unclean(k)
    BY <1>15, <1>19 DEF Unclean
  <1>20. CASE Evidence(k)
    <2> DEFINE c == [b EXCEPT !.pc = "recording"]
               due == c.receipt.ws # Nowhere /\ c.attempted
    <2>1. /\ UNCHANGED workers
          /\ \/ child' = [child EXCEPT ![k] = [c EXCEPT !.receipt.artifact = due]]
             \/ child' = [child EXCEPT ![k] = Unknown(c)] /\ HaltIf(TRUE)
      BY <1>20 DEF Evidence, Lost
    <2>2. c \in ChildRecords /\ c.pc = "recording" /\ c.receipt = b.receipt
      BY <1>1 DEF ChildRecords, Late
    <2>. HIDE DEF c, due
    <2>3. CASE child' = [child EXCEPT ![k] = [c EXCEPT !.receipt.artifact = due]]
      <3>1. child'[k].pc = "recording" /\ child'[k].receipt.status = b.receipt.status
        BY <1>1, <2>2, <2>3 DEF ChildRecords, Receipts
      <3>. QED  BY <1>4, <2>1, <3>1
    <2>4. CASE child' = [child EXCEPT ![k] = Unknown(c)] /\ HaltIf(TRUE)
      <3>1. child'[k].pc = "recording"
        BY <1>1, <2>2, <2>4 DEF ChildRecords, Unknown
      <3>2. pool'.closed # "open"
        BY <2>4, Halting
      <3>. QED  BY <1>4, <2>1, <3>1, <3>2
    <2>. QED  BY <2>1, <2>3, <2>4
  <1>21. CASE Record(k)
    <2> DEFINE c == [b EXCEPT !.pc = "releasing"]
    <2>1. /\ UNCHANGED workers
          /\ \/ child' = [child EXCEPT ![k] = c]
             \/ child' = [child EXCEPT ![k] = Unknown(c)] /\ HaltIf(TRUE)
      BY <1>21 DEF Record, Lost
    <2>2. c \in ChildRecords /\ c.pc = "releasing" /\ c.receipt = b.receipt
      BY <1>1 DEF ChildRecords, Late
    <2>. HIDE DEF c
    <2>3. CASE child' = [child EXCEPT ![k] = c]
      BY <1>1, <1>4, <2>1, <2>2, <2>3
    <2>4. CASE child' = [child EXCEPT ![k] = Unknown(c)] /\ HaltIf(TRUE)
      <3>1. child'[k].pc = "releasing"
        BY <1>1, <2>2, <2>4 DEF ChildRecords, Unknown
      <3>2. pool'.closed # "open"
        BY <2>4, Halting
      <3>. QED  BY <1>4, <2>1, <3>1, <3>2
    <2>. QED  BY <2>1, <2>3, <2>4
  <1>22. CASE Leave(k)
    <2> DEFINE c == [b EXCEPT !.pc = "over", !.attempted = FALSE, !.started = FALSE, !.unsaved = FALSE]
    <2>1. /\ UNCHANGED workers
          /\ \/ child' = [child EXCEPT ![k] = c]
             \/ child' = [child EXCEPT ![k] = Unknown(c)] /\ pool' = Release(Halted(pool), k)
      BY <1>22 DEF Leave
    <2>2. c \in ChildRecords /\ c.pc = "over" /\ c.receipt = b.receipt
      BY <1>1 DEF ChildRecords, Late
    <2>. HIDE DEF c
    <2>3. CASE child' = [child EXCEPT ![k] = c]
      BY <1>1, <1>4, <2>1, <2>2, <2>3
    <2>4. CASE child' = [child EXCEPT ![k] = Unknown(c)] /\ pool' = Release(Halted(pool), k)
      <3>1. child'[k].pc = "over"
        BY <1>1, <2>2, <2>4 DEF ChildRecords, Unknown
      <3>2. PoolInv(Halted(pool)) /\ Halted(pool).closed # "open"
        BY ClosedGood DEF Halted, Typed
      <3>3. pool'.closed # "open"
        BY <2>4, <3>2, ReleaseGood
      <3>. QED  BY <1>4, <2>1, <3>1, <3>3
    <2>. QED  BY <2>1, <2>3, <2>4
  <1>. QED
    BY <1>6, <1>7, <1>8, <1>9, <1>10, <1>11, <1>12, <1>13, <1>14, <1>16, <1>17, <1>18, <1>19, <1>20,
       <1>21, <1>22 DEF ChildStep

\* Doubt closes the pool, whatever happens next.
LEMMA DoubtStep == Typed /\ DoubtCloses /\ [Next]_vars => DoubtCloses'
  <1> SUFFICES ASSUME Typed, DoubtCloses, [Next]_vars, host' = "up" PROVE DoubtCloses'
    BY DEF DoubtCloses
  <1>1. CASE UNCHANGED vars
    BY <1>1 DEF DoubtCloses, Doubtful, Current, vars, poolVars, records, workers
  <1>2. ASSUME NEW k \in Children, ChildStep(k)
        PROVE  DoubtCloses'
    <2>1. OneChild(k)
      BY <1>2, ChildStepsAreApart
    <2>2. \A j \in Children : j # k => (Doubtful(j)' <=> Doubtful(j)) /\ child'[j] = child[j]
      BY <2>1 DEF OneChild, Aside, Doubtful
    <2>3. /\ Doubtful(k)' => Doubtful(k) \/ pool'.closed # "open"
          /\ child'[k].pc = "running" => child'[k].started
      BY <1>2, DoubtOfAChild
    <2>4. pool.closed # "open" => pool'.closed # "open"
      BY <2>1 DEF OneChild, PoolStep, Calm
    <2>5. host = "up"
      BY <2>1 DEF OneChild
    <2>. QED  BY <2>2, <2>3, <2>4, <2>5 DEF DoubtCloses, Current
  <1>3. ASSUME NEW c \in Calls, CallChange(c)
        PROVE  DoubtCloses'
    <2>1. PICK new : OneCall(c, new)
      BY <1>3, CallStepsAreApart
    <2>2. pool.closed # "open" => pool'.closed # "open"
      BY <2>1 DEF OneCall, PoolStep, Calm
    <2>3. \A k \in Children : /\ child'[k].receipt.status = "unknown" => child[k].receipt.status = "unknown"
                              /\ child'[k].pc = "running" => child[k].pc = "running" /\ child'[k] = child[k]
      <3>1. CASE Intend(c)
        <4>1. \A k \in Children : child'[k] = IF CallOf(k) = c THEN DrawnUp(child[k], c) ELSE child[k]
          BY <3>1 DEF Intend
        <4>2. \A b \in ChildRecords : DrawnUp(b, c).pc = "queued" /\ DrawnUp(b, c).receipt.status = "queued"
          BY DEF DrawnUp, ChildRecords, Receipts
        <4>3. \A k \in Children : child[k] \in ChildRecords
          BY DEF Typed
        <4>. QED  BY <4>1, <4>2, <4>3
      <3>2. CASE ~Intend(c)
        <4>1. child' = child
          BY <1>3, <3>2 DEF CallChange, CallStep, Prepare, Refuse, Execute, Check, Abandon, SaveIntent,
                            IntentLost, Answer, Drain, records
        <4>. QED  BY <4>1
      <3>. QED  BY <3>1, <3>2
    <2>. QED  BY <2>1, <2>2, <2>3 DEF DoubtCloses, Doubtful, Current, OneCall, workers
  <1>4. CASE CloseAll
    <2>1. Close(pool, "cancelled").closed # "open"
      BY ClosedGood DEF Typed
    <2>. QED  BY <1>4, <2>1 DEF CloseAll, DoubtCloses, Current, records, workers
  <1>5. CASE Closed
    BY <1>5 DEF Closed, DoubtCloses, Doubtful, Current, records, workers
  <1>6. CASE HostLost
    BY <1>6 DEF HostLost
  <1>. QED
    BY <1>1, <1>2, <1>3, <1>4, <1>5, <1>6 DEF Next, DelegationStep, Requests, CallChange

LEMMA DoubtInit == Init => DoubtCloses
  BY DEF Init, DoubtCloses, Doubtful, NotBegun, NoReceipt

-----------------------------------------------------------------------------
(* What each step of a child leaves.                                       *)

\* The locals of a child, and what its receipt says of its worktree, are as they were.
Flags(b, n) == n.attempted = b.attempted /\ n.started = b.started /\ n.unsaved = b.unsaved
Kin(b, n) == /\ n.receipt.mode = b.receipt.mode /\ n.receipt.ws = b.receipt.ws
             /\ n.receipt.verified = b.receipt.verified
Kept(b, n) == n.receipt.result = b.receipt.result /\ n.receipt.artifact = b.receipt.artifact

\* n is the failed b.
FailedFrom(b, n, error) ==
  /\ n.pc = "evidence" /\ Flags(b, n) /\ Kin(b, n) /\ Kept(b, n)
  /\ n.receipt.status \in {"unknown", "cancelled", "failed"}
  /\ n.receipt.status # "unknown" => /\ error # "unsaved" /\ ~b.unsaved
                                     /\ b.started => error = "not_started"
                                     /\ b.attempted => b.receipt.verified
LEMMA FailureIs ==
  ASSUME Typed, NEW k \in Children, NEW b \in ChildRecords, NEW error, Fails(k, b, error)
  PROVE  /\ FailedFrom(b, child'[k], error)
         /\ child'[k].receipt.status = "unknown" => pool'.closed # "open"
         /\ child'[k].receipt.status # "unknown" => pool' = pool
  <1>1. PICK s : s = Verdict(k, b, error)
    OBVIOUS
  <1>2. /\ s \in {"unknown", "cancelled", "failed"} /\ child'[k] = Ended(b, s)
        /\ s = "unknown" => pool'.closed # "open"
        /\ s # "unknown" => pool' = pool
    BY <1>1, Failing
  <1>3. s \in Statuses
    BY <1>2 DEF Statuses, Final
  <1>4. s # "unknown" => /\ error # "unsaved" /\ ~b.unsaved
                         /\ b.started => error = "not_started"
                         /\ b.attempted => b.receipt.verified
    BY <1>1 DEF Verdict
  <1>5. LET e == Ended(b, s) IN
        /\ e.pc = "evidence" /\ e.attempted = b.attempted /\ e.started = b.started /\ e.unsaved = b.unsaved
        /\ e.receipt.status = s /\ e.receipt.mode = b.receipt.mode /\ e.receipt.result = b.receipt.result
        /\ e.receipt.ws = b.receipt.ws /\ e.receipt.verified = b.receipt.verified
        /\ e.receipt.artifact = b.receipt.artifact
    BY <1>3, EndedIs
  <1>. QED  BY <1>2, <1>4, <1>5 DEF FailedFrom, Flags, Kin, Kept

\* n is b saved on its way to next, or b with an outcome that is unknown.
SavedAs(k, b, next) ==
  LET n == child'[k] IN
  /\ Flags(b, n) /\ Kin(b, n) /\ Kept(b, n)
  /\ \/ /\ n.pc = next /\ n.receipt = b.receipt /\ pool' = pool
        /\ kept'[k] = b.receipt /\ disk'[k] = b.receipt
     \/ /\ n.pc = "evidence" /\ n.receipt.status = "unknown" /\ pool'.closed # "open"
        /\ kept' = kept /\ disk'[k] \in {disk[k], b.receipt}
LEMMA SaveIs ==
  ASSUME Typed, NEW k \in Children, NEW b \in ChildRecords, NEW next \in Early, Save(k, b, next)
  PROVE  SavedAs(k, b, next)
  <1>1. \/ /\ child'[k] = [b EXCEPT !.pc = next] /\ pool' = pool
           /\ kept'[k] = b.receipt /\ disk'[k] = b.receipt
        \/ /\ child'[k] = Ended(b, "unknown")
           /\ pool'.closed # "open"
           /\ kept' = kept /\ disk'[k] \in {disk[k], b.receipt}
    BY Saving
  <1>2. LET n == [b EXCEPT !.pc = next] IN
        /\ n.pc = next /\ n.receipt = b.receipt
        /\ n.attempted = b.attempted /\ n.started = b.started /\ n.unsaved = b.unsaved
    BY DEF ChildRecords
  <1>3. LET e == Ended(b, "unknown") IN
        /\ e.pc = "evidence" /\ e.attempted = b.attempted /\ e.started = b.started /\ e.unsaved = b.unsaved
        /\ e.receipt.status = "unknown" /\ e.receipt.mode = b.receipt.mode /\ e.receipt.result = b.receipt.result
        /\ e.receipt.ws = b.receipt.ws /\ e.receipt.verified = b.receipt.verified
        /\ e.receipt.artifact = b.receipt.artifact
    BY EndedIs DEF Statuses
  <1>4. CASE child'[k] = [b EXCEPT !.pc = next]
    BY <1>1, <1>2, <1>3, <1>4 DEF SavedAs, Flags, Kin, Kept
  <1>5. CASE child'[k] = Ended(b, "unknown")
    BY <1>1, <1>2, <1>3, <1>5 DEF SavedAs, Flags, Kin, Kept
  <1>. QED  BY <1>1, <1>4, <1>5

\* The kinds of a child's records.
LEMMA ChildTypes ==
  ASSUME Typed, NEW k \in Children
  PROVE  /\ child \in [Children -> ChildRecords] /\ child[k] \in ChildRecords /\ child[k].receipt \in Receipts
         /\ kept \in [Children -> Receipts] /\ kept[k] \in Receipts /\ disk[k] \in Receipts
         /\ fate \in [Children -> {"none", "called", "alive", "gone", "doubt", "stray"}]
         /\ lease \in [Children -> {"none", "held", "kept"}]
         /\ child[k].attempted \in BOOLEAN /\ child[k].started \in BOOLEAN /\ child[k].unsaved \in BOOLEAN
         /\ child[k].receipt.ws \in Children \cup {Nowhere} /\ kept[k].ws \in Children \cup {Nowhere}
         /\ child[k].receipt.verified \in BOOLEAN /\ child[k].receipt.artifact \in BOOLEAN
         /\ child[k].pc \in Early \cup {"running"} \cup Late /\ child[k].receipt.status \in Statuses
         /\ child[k].receipt.mode \in Modes /\ child[k].receipt.result \in Results
  <1>1. child \in [Children -> ChildRecords] /\ child[k] \in ChildRecords
    BY DEF Typed
  <1>2. child[k].receipt \in Receipts
    BY <1>1 DEF ChildRecords
  <1>3. /\ child[k].attempted \in BOOLEAN /\ child[k].started \in BOOLEAN /\ child[k].unsaved \in BOOLEAN
        /\ child[k].pc \in Early \cup {"running"} \cup Late
    BY <1>1 DEF ChildRecords
  <1>4. kept \in [Children -> Receipts] /\ kept[k] \in Receipts /\ disk[k] \in Receipts
    BY DEF Typed
  <1>5. \A r \in Receipts : /\ r.ws \in Children \cup {Nowhere} /\ r.verified \in BOOLEAN /\ r.artifact \in BOOLEAN
                            /\ r.status \in Statuses /\ r.mode \in Modes /\ r.result \in Results
    BY DEF Receipts
  <1>6. /\ fate \in [Children -> {"none", "called", "alive", "gone", "doubt", "stray"}]
        /\ lease \in [Children -> {"none", "held", "kept"}]
    BY DEF Typed
  <1>. QED  BY <1>1, <1>2, <1>3, <1>4, <1>5, <1>6

\* A child whose receipt is prepared takes over the worktree of the child it recovers.
LEMMA AdmittedIs ==
  ASSUME Typed, NEW k \in Children, Admitted(k)
  PROVE  LET b == child[k]
             n == child'[k]
             owner == IF Recovery(CallOf(k)) THEN kept[Target(k)].ws ELSE Nowhere IN
         /\ At(k, "queued") /\ pool.claim[k] = "granted" /\ Current
         /\ n.started = b.started /\ n.unsaved = b.unsaved /\ n.receipt.mode = b.receipt.mode
         /\ n.attempted = (owner # Nowhere) /\ n.receipt.ws = owner /\ n.receipt.verified = (owner # Nowhere)
         /\ Kept(b, n) /\ UNCHANGED workers
         /\ \/ /\ n.pc = "checking" /\ n.receipt.status = "prepared" /\ pool' = pool
               /\ kept'[k] = n.receipt /\ disk'[k] = n.receipt
            \/ /\ n.pc = "evidence" /\ n.receipt.status = "unknown" /\ pool'.closed # "open"
               /\ kept' = kept /\ (disk'[k] = disk[k] \/ disk'[k].status = "prepared")
  <1> DEFINE b == child[k]
             owner == IF Recovery(CallOf(k)) THEN kept[Target(k)].ws ELSE Nowhere
             c == [b EXCEPT !.receipt.status = "prepared", !.receipt.ws = owner,
                            !.receipt.verified = (owner # Nowhere), !.attempted = (owner # Nowhere)]
  <1>1. /\ At(k, "queued") /\ pool.claim[k] = "granted" /\ Current /\ UNCHANGED workers
        /\ Save(k, c, "checking")
    BY DEF Admitted
  <1>2. owner \in Children \cup {Nowhere}
    <2>1. CASE Recovery(CallOf(k))
      <3>1. CallOf(k) \in Calls
        BY ChildrenAreTasks
      <3>2. Target(k) \in Children
        BY <1>1, <2>1, <3>1 DEF At, Target, Typed
      <3>. QED  BY <2>1, <3>2, ChildTypes
    <2>. QED  BY <2>1
  <1>. HIDE DEF owner
  <1>3. /\ c \in ChildRecords /\ c.started = b.started /\ c.unsaved = b.unsaved
        /\ c.receipt.mode = b.receipt.mode /\ c.receipt.result = b.receipt.result
        /\ c.receipt.artifact = b.receipt.artifact
        /\ c.attempted = (owner # Nowhere) /\ c.receipt.ws = owner /\ c.receipt.verified = (owner # Nowhere)
        /\ c.receipt.status = "prepared"
    <2>1. b \in ChildRecords /\ b.receipt \in Receipts
      BY ChildTypes
    <2>. QED  BY <1>2, <2>1 DEF ChildRecords, Receipts, Statuses
  <1>. HIDE DEF c
  <1>4. SavedAs(k, c, "checking")
    BY <1>1, <1>3, SaveIs DEF Early
  <1>. QED  BY <1>1, <1>3, <1>4 DEF SavedAs, Flags, Kin, Kept, owner

\* A child whose checks pass goes on to its worktree, or to its launch.
LEMMA CheckedIs ==
  ASSUME Typed, NEW k \in Children, Checked(k)
  PROVE  LET b == child[k]
             n == child'[k] IN
         /\ At(k, "checking") /\ Current /\ Flags(b, n) /\ Kept(b, n) /\ UNCHANGED workers
         /\ n.receipt.mode = b.receipt.mode /\ n.receipt.verified = b.receipt.verified
         /\ n.receipt.ws = IF Kind[CallOf(k)] = "implement" THEN k ELSE b.receipt.ws
         /\ \/ /\ n.pc = (IF Kind[CallOf(k)] = "implement" THEN "creating" ELSE "launching")
               /\ n.receipt.status = b.receipt.status /\ pool' = pool
               /\ \/ kept' = kept /\ disk' = disk /\ Kind[CallOf(k)] # "implement"
                  \/ kept'[k] = n.receipt /\ disk'[k] = n.receipt
            \/ /\ n.pc = "evidence" /\ n.receipt.status = "unknown" /\ pool'.closed # "open"
               /\ kept' = kept
               /\ disk'[k] = disk[k] \/ disk'[k].status = b.receipt.status
  <1> DEFINE b == child[k]
             c == [b EXCEPT !.receipt.ws = k]
  <1>1. /\ At(k, "checking") /\ Current /\ UNCHANGED workers
        /\ IF Kind[CallOf(k)] = "implement" THEN Save(k, c, "creating")
           ELSE /\ child' = [child EXCEPT ![k].pc = "launching"]
                /\ UNCHANGED <<poolVars, kept, disk, faults>>
    BY DEF Checked
  <1>2. CASE Kind[CallOf(k)] = "implement"
    <2>1. /\ c \in ChildRecords /\ c.started = b.started /\ c.unsaved = b.unsaved /\ c.attempted = b.attempted
          /\ c.receipt.mode = b.receipt.mode /\ c.receipt.result = b.receipt.result
          /\ c.receipt.artifact = b.receipt.artifact /\ c.receipt.verified = b.receipt.verified
          /\ c.receipt.status = b.receipt.status /\ c.receipt.ws = k
      <3>1. b \in ChildRecords /\ b.receipt \in Receipts
        BY ChildTypes
      <3>. QED  BY <3>1 DEF ChildRecords, Receipts
    <2>. HIDE DEF c
    <2>2. SavedAs(k, c, "creating")
      BY <1>1, <1>2, <2>1, SaveIs DEF Early
    <2>. QED  BY <1>1, <1>2, <2>1, <2>2 DEF SavedAs, Flags, Kin, Kept
  <1>3. CASE Kind[CallOf(k)] # "implement"
    <2>1. /\ child'[k].pc = "launching" /\ child'[k].receipt = b.receipt /\ child'[k].attempted = b.attempted
          /\ child'[k].started = b.started /\ child'[k].unsaved = b.unsaved
      BY <1>1, <1>3, ChildTypes DEF ChildRecords
    <2>. QED  BY <1>1, <1>3, <2>1 DEF Flags, Kept, poolVars
  <1>. QED  BY <1>2, <1>3

\* A worktree is made, or nobody knows how far its making came.
LEMMA CreatedIs ==
  ASSUME Typed, NEW k \in Children, Created(k)
  PROVE  LET b == child[k]
             n == child'[k] IN
         /\ At(k, "creating") /\ Kept(b, n) /\ UNCHANGED workers
         /\ n.attempted /\ n.started = b.started /\ n.unsaved = b.unsaved
         /\ n.receipt.mode = b.receipt.mode /\ n.receipt.ws = b.receipt.ws
         /\ \/ /\ n.pc = "launching" /\ n.receipt.status = b.receipt.status /\ pool' = pool
               /\ n.receipt.verified /\ Current /\ kept'[k] = n.receipt /\ disk'[k] = n.receipt
            \/ /\ n.pc = "evidence" /\ n.receipt.status = "unknown" /\ pool'.closed # "open"
               /\ n.receipt.verified /\ Current
               /\ kept' = kept
               /\ disk'[k] = disk[k] \/ disk'[k].status = b.receipt.status
            \/ /\ FailedFrom([b EXCEPT !.attempted = TRUE], n, "worktree")
               /\ n.receipt.verified = b.receipt.verified
               /\ n.receipt.status # "unknown" => b.receipt.verified /\ pool' = pool
               /\ n.receipt.status = "unknown" => pool'.closed # "open"
               /\ kept' = kept /\ disk' = disk
  <1> DEFINE b == child[k]
             c == [b EXCEPT !.attempted = TRUE, !.receipt.verified = TRUE]
             d == [b EXCEPT !.attempted = TRUE]
  <1>1. b \in ChildRecords /\ b.receipt \in Receipts
    BY ChildTypes
  <1>2. /\ At(k, "creating") /\ UNCHANGED workers
        /\ \/ Current /\ Save(k, c, "launching")
           \/ Fails(k, d, "worktree") /\ UNCHANGED <<kept, disk, faults>>
    BY DEF Created
  <1>3. CASE Current /\ Save(k, c, "launching")
    <2>1. /\ c \in ChildRecords /\ c.started = b.started /\ c.unsaved = b.unsaved /\ c.attempted
          /\ c.receipt.mode = b.receipt.mode /\ c.receipt.result = b.receipt.result
          /\ c.receipt.artifact = b.receipt.artifact /\ c.receipt.verified
          /\ c.receipt.status = b.receipt.status /\ c.receipt.ws = b.receipt.ws
      BY <1>1 DEF ChildRecords, Receipts
    <2>. HIDE DEF c
    <2>2. SavedAs(k, c, "launching")
      BY <1>3, <2>1, SaveIs DEF Early
    <2>. QED  BY <1>2, <1>3, <2>1, <2>2 DEF SavedAs, Flags, Kin, Kept
  <1>4. CASE Fails(k, d, "worktree") /\ UNCHANGED <<kept, disk, faults>>
    <2>1. /\ d \in ChildRecords /\ d.started = b.started /\ d.unsaved = b.unsaved /\ d.attempted
          /\ d.receipt = b.receipt
      BY <1>1 DEF ChildRecords
    <2>. HIDE DEF d
    <2>2. /\ FailedFrom(d, child'[k], "worktree")
          /\ child'[k].receipt.status = "unknown" => pool'.closed # "open"
          /\ child'[k].receipt.status # "unknown" => pool' = pool
      BY <1>4, <2>1, FailureIs
    <2>3. /\ Kept(b, child'[k]) /\ child'[k].attempted
          /\ child'[k].started = b.started /\ child'[k].unsaved = b.unsaved
          /\ child'[k].receipt.mode = b.receipt.mode /\ child'[k].receipt.ws = b.receipt.ws
          /\ child'[k].receipt.verified = b.receipt.verified
          /\ child'[k].receipt.status # "unknown" => b.receipt.verified
      BY <2>1, <2>2 DEF FailedFrom, Flags, Kin, Kept
    <2>. QED  BY <1>2, <1>4, <2>2, <2>3 DEF d
  <1>. QED  BY <1>2, <1>3, <1>4

\* The start is in the receipt before the child runs.
LEMMA LaunchedIs ==
  ASSUME Typed, NEW k \in Children, Launched(k)
  PROVE  LET b == child[k]
             n == child'[k] IN
         /\ At(k, "launching") /\ Current /\ Flags(b, n) /\ Kin(b, n) /\ Kept(b, n) /\ UNCHANGED workers
         /\ \/ /\ n.pc = "starting" /\ n.receipt.status = "running" /\ pool' = pool
               /\ kept'[k] = n.receipt /\ disk'[k] = n.receipt
            \/ /\ n.pc = "evidence" /\ n.receipt.status = "unknown" /\ pool'.closed # "open"
               /\ kept' = kept /\ (disk'[k] = disk[k] \/ disk'[k].status = "running")
  <1> DEFINE b == child[k]
             c == [b EXCEPT !.receipt.status = "running"]
  <1>1. At(k, "launching") /\ Current /\ UNCHANGED workers /\ Save(k, c, "starting")
    BY DEF Launched
  <1>2. /\ c \in ChildRecords /\ c.started = b.started /\ c.unsaved = b.unsaved /\ c.attempted = b.attempted
        /\ c.receipt.mode = b.receipt.mode /\ c.receipt.result = b.receipt.result
        /\ c.receipt.artifact = b.receipt.artifact /\ c.receipt.verified = b.receipt.verified
        /\ c.receipt.status = "running" /\ c.receipt.ws = b.receipt.ws
    <2>1. b \in ChildRecords /\ b.receipt \in Receipts
      BY ChildTypes
    <2>. QED  BY <2>1 DEF ChildRecords, Receipts, Statuses
  <1>. HIDE DEF c
  <1>3. SavedAs(k, c, "starting")
    BY <1>1, <1>2, SaveIs DEF Early
  <1>. QED  BY <1>1, <1>2, <1>3 DEF SavedAs, Flags, Kin, Kept

\* A child that fails before its run goes on to its evidence.
LEMMA ThrowIs ==
  ASSUME Typed, NEW k \in Children, Throw(k)
  PROVE  /\ host = "up" /\ call[CallOf(k)].pc = "children"
         /\ \/ child[k].pc = "queued" /\ (pool.claim[k] \in {"cancelled", "unsafe"} \/ ~Current)
            \/ child[k].pc \in {"checking", "launching", "starting"}
         /\ FailedFrom(child[k], child'[k], "check") /\ UNCHANGED <<kept, disk, workers>>
         /\ child'[k].receipt.status = "unknown" => pool'.closed # "open"
         /\ child'[k].receipt.status # "unknown" => pool' = pool
  <1>1. /\ \/ At(k, "queued") /\ (pool.claim[k] \in {"cancelled", "unsafe"} \/ ~Current)
           \/ At(k, "checking") \/ At(k, "launching") \/ At(k, "starting")
        /\ Fails(k, child[k], "check") /\ UNCHANGED <<kept, disk, workers>>
    BY DEF Throw
  <1>. QED  BY <1>1, ChildTypes, FailureIs DEF At

\* runChild is called.
LEMMA StartIs ==
  ASSUME Typed, NEW k \in Children, Start(k)
  PROVE  LET b == child[k]
             n == child'[k] IN
         /\ At(k, "starting") /\ Current /\ n.pc = "running" /\ n.started
         /\ n.attempted = b.attempted /\ n.unsaved = b.unsaved /\ n.receipt = b.receipt
         /\ fate'[k] = "called" /\ UNCHANGED <<pool, kept, disk, lease>>
  <1>1. /\ At(k, "starting") /\ Current /\ UNCHANGED <<pool, kept, disk, lease>>
        /\ child' = [child EXCEPT ![k].pc = "running", ![k].started = TRUE]
        /\ fate' = [fate EXCEPT ![k] = "called"]
    BY DEF Start, poolVars
  <1>. QED  BY <1>1, ChildTypes DEF ChildRecords

\* The timing of a start cannot be saved.
LEMMA StartUnsavedIs ==
  ASSUME Typed, NEW k \in Children, StartUnsaved(k)
  PROVE  LET b == child[k]
             n == child'[k] IN
         /\ At(k, "running") /\ n.pc = "running" /\ n.started = b.started
         /\ n.attempted = b.attempted /\ n.unsaved /\ n.receipt = b.receipt
         /\ UNCHANGED <<kept, disk, workers>> /\ pool'.closed # "open"
  <1>1. /\ At(k, "running") /\ child' = [child EXCEPT ![k].unsaved = TRUE] /\ HaltIf(TRUE)
        /\ UNCHANGED <<kept, disk, workers>>
    BY DEF StartUnsaved
  <1>2. pool'.closed # "open"
    BY <1>1, Halting
  <1>. QED  BY <1>1, <1>2, ChildTypes DEF ChildRecords, At

\* The run begins, with its lease.
LEMMA WorksIs ==
  ASSUME Typed, NEW k \in Children, Works(k)
  PROVE  /\ At(k, "running") /\ fate[k] = "called" /\ Current
         /\ fate'[k] = "alive" /\ lease'[k] = IF Writes(k) THEN "held" ELSE lease[k]
         /\ UNCHANGED <<pool, child, kept, disk>>
  <1>1. /\ At(k, "running") /\ fate[k] = "called" /\ Current /\ UNCHANGED <<pool, child, kept, disk>>
        /\ fate' = [fate EXCEPT ![k] = "alive"]
        /\ lease' = [lease EXCEPT ![k] = IF Writes(k) THEN "held" ELSE @]
    BY DEF Works, records, poolVars
  <1>. QED  BY <1>1, ChildTypes

LEMMA WorkerEndsIs ==
  ASSUME Typed, NEW k \in Children, NEW end, NEW of, WorkerEnds(k, end, of)
  PROVE  fate'[k] = end /\ lease'[k] = IF lease[k] = "held" THEN of ELSE lease[k]
  BY ChildTypes DEF WorkerEnds

\* The run ended on its journal; a result in doubt keeps the lease and leaves the outcome unknown.
LEMMA ReturnsIs ==
  ASSUME Typed, NEW k \in Children, Returns(k)
  PROVE  LET b == child[k]
             n == child'[k] IN
         /\ At(k, "running") /\ fate[k] = "alive" /\ UNCHANGED <<kept, disk>>
         /\ n.pc = "evidence" /\ Flags(b, n) /\ Kin(b, n) /\ n.receipt.artifact = b.receipt.artifact
         /\ n.receipt.result \in {"none", "completed", "failed", "cancelled", "recovery_required"}
         /\ b.unsaved => n.receipt.result = "none"
         /\ n.receipt.status \in {"unknown", "completed", "failed", "cancelled"}
         /\ n.receipt.status # "unknown" => n.receipt.result = n.receipt.status
         /\ \/ /\ fate'[k] = "gone" /\ lease'[k] = IF lease[k] = "held" THEN "none" ELSE lease[k]
            \/ /\ fate'[k] = "doubt" /\ lease'[k] = IF lease[k] = "held" THEN "kept" ELSE lease[k]
               /\ n.receipt.status = "unknown"
         /\ n.receipt.status = "unknown" => pool'.closed # "open"
         /\ n.receipt.status # "unknown" => pool' = pool
  <1> DEFINE b == child[k]
  <1>1. PICK result \in {"completed", "failed", "cancelled", "recovery_required"} :
          LET doubt == result = "recovery_required"
              status == IF doubt \/ child[k].unsaved THEN "unknown" ELSE result IN
          /\ WorkerEnds(k, IF doubt THEN "doubt" ELSE "gone", IF doubt THEN "kept" ELSE "none")
          /\ child' = [child EXCEPT ![k].pc = "evidence", ![k].receipt.status = status,
                                    ![k].receipt.result = IF child[k].unsaved THEN "none" ELSE result]
          /\ HaltIf(status = "unknown")
    BY DEF Returns
  <1>2. At(k, "running") /\ fate[k] = "alive" /\ UNCHANGED <<kept, disk>>
    BY DEF Returns
  <1> DEFINE doubt == result = "recovery_required"
             status == IF doubt \/ b.unsaved THEN "unknown" ELSE result
             answer == IF b.unsaved THEN "none" ELSE result
  <1>3. /\ WorkerEnds(k, IF doubt THEN "doubt" ELSE "gone", IF doubt THEN "kept" ELSE "none")
        /\ child' = [child EXCEPT ![k].pc = "evidence", ![k].receipt.status = status,
                                  ![k].receipt.result = answer]
        /\ HaltIf(status = "unknown")
    BY <1>1
  <1>4. /\ status \in {"unknown", "completed", "failed", "cancelled"} /\ (doubt => status = "unknown")
        /\ answer \in {"none", "completed", "failed", "cancelled", "recovery_required"}
        /\ status # "unknown" => answer = status
        /\ b.unsaved => answer = "none"
    OBVIOUS
  <1>. HIDE DEF doubt, status, answer
  <1>5. LET n == child'[k] IN
        /\ n.pc = "evidence" /\ Flags(b, n) /\ Kin(b, n) /\ n.receipt.artifact = b.receipt.artifact
        /\ n.receipt.status = status /\ n.receipt.result = answer
    BY <1>3, ChildTypes DEF ChildRecords, Receipts, Flags, Kin
  <1>6. /\ status = "unknown" => pool'.closed # "open"
        /\ status # "unknown" => pool' = pool
    BY <1>3, Halting
  <1>7. /\ fate'[k] = IF doubt THEN "doubt" ELSE "gone"
        /\ lease'[k] = IF lease[k] = "held" THEN IF doubt THEN "kept" ELSE "none" ELSE lease[k]
    BY <1>3, WorkerEndsIs
  <1>. QED  BY <1>2, <1>4, <1>5, <1>6, <1>7

\* A run that ends otherwise: its lease stays, its journal does not say how, its worker may
\* still be there, or it never began.
LEMMA CutOffIs ==
  ASSUME Typed, NEW k \in Children, LeaseStays(k) \/ Rejects(k) \/ StartRefused(k) \/ Unclean(k)
  PROVE  LET b == child[k]
             n == child'[k] IN
         /\ At(k, "running") /\ UNCHANGED <<kept, disk>>
         /\ n.receipt.status = "unknown" => pool'.closed # "open"
         /\ n.receipt.status # "unknown" => pool' = pool
         /\ \/ FailedFrom(b, n, "rejected") /\ fate[k] = "alive" /\ fate'[k] = "gone"
                 /\ lease'[k] = IF lease[k] = "held" THEN "kept" ELSE lease[k]
            \/ FailedFrom(b, n, "rejected") /\ fate'[k] = (IF fate[k] = "alive" THEN "doubt" ELSE "none")
                 /\ lease'[k] = IF lease[k] = "held" THEN "none" ELSE lease[k]
            \/ FailedFrom(b, n, "not_started") /\ fate[k] = "called" /\ fate'[k] = "none"
                 /\ lease'[k] = IF lease[k] = "held" THEN "none" ELSE lease[k]
            \/ FailedFrom(b, n, "rejected") /\ fate[k] = "alive" /\ fate'[k] = "stray"
                 /\ lease'[k] = IF lease[k] = "held" THEN "kept" ELSE lease[k]
  <1>1. \A e : Fails(k, child[k], e) => /\ FailedFrom(child[k], child'[k], e)
                                        /\ child'[k].receipt.status = "unknown" => pool'.closed # "open"
                                        /\ child'[k].receipt.status # "unknown" => pool' = pool
    BY ChildTypes, FailureIs
  <1>2. CASE LeaseStays(k)
    BY <1>1, <1>2, WorkerEndsIs DEF LeaseStays
  <1>3. CASE Rejects(k)
    BY <1>1, <1>3, WorkerEndsIs DEF Rejects
  <1>4. CASE StartRefused(k)
    BY <1>1, <1>4, WorkerEndsIs DEF StartRefused
  <1>5. CASE Unclean(k)
    BY <1>1, <1>5, WorkerEndsIs DEF Unclean
  <1>. QED  BY <1>2, <1>3, <1>4, <1>5

\* A receipt that becomes unknown stays the same otherwise.
LEMMA UnknownIs ==
  ASSUME NEW c \in ChildRecords, NEW n, n = Unknown(c)
  PROVE  n.pc = c.pc /\ Flags(c, n) /\ Kin(c, n) /\ Kept(c, n) /\ n.receipt.status = "unknown"
  <1>1. c.receipt \in Receipts
    BY DEF ChildRecords
  <1>. QED  BY <1>1 DEF ChildRecords, Receipts, Unknown, Flags, Kin, Kept

\* So does a receipt that says whether there is evidence.
WithEvidence(c, due) == [c EXCEPT !.receipt.artifact = due]
LEMMA ArtifactIs ==
  ASSUME NEW c \in ChildRecords, NEW due \in BOOLEAN, NEW n, n = WithEvidence(c, due)
  PROVE  /\ n.pc = c.pc /\ Flags(c, n) /\ Kin(c, n) /\ n.receipt.status = c.receipt.status
         /\ n.receipt.result = c.receipt.result /\ n.receipt.artifact = due
  <1>1. c.receipt \in Receipts
    BY DEF ChildRecords
  <1>. QED  BY <1>1 DEF WithEvidence, ChildRecords, Receipts, Flags, Kin

\* The evidence of a child is taken, or its outcome becomes unknown.
LEMMA EvidenceIs ==
  ASSUME Typed, NEW k \in Children, Evidence(k)
  PROVE  LET b == child[k]
             n == child'[k] IN
         /\ At(k, "evidence") /\ UNCHANGED <<kept, disk, workers>> /\ settled' = settled \cup {k}
         /\ n.pc = "recording" /\ Flags(b, n) /\ Kin(b, n) /\ n.receipt.result = b.receipt.result
         /\ \/ /\ n.receipt.status = b.receipt.status /\ pool' = pool
               /\ n.receipt.artifact = (b.receipt.ws # Nowhere /\ b.attempted)
            \/ /\ n.receipt.status = "unknown" /\ n.receipt.artifact = b.receipt.artifact
               /\ pool'.closed # "open"
  <1> DEFINE b == child[k]
             c == [b EXCEPT !.pc = "recording"]
             due == c.receipt.ws # Nowhere /\ c.attempted
  <1>1. /\ At(k, "evidence") /\ UNCHANGED <<kept, disk, workers>> /\ settled' = settled \cup {k}
        /\ \/ child' = [child EXCEPT ![k] = [c EXCEPT !.receipt.artifact = due]] /\ pool' = pool
           \/ child' = [child EXCEPT ![k] = Unknown(c)] /\ HaltIf(TRUE)
    BY DEF Evidence, Lost, poolVars
  <1>2. /\ c \in ChildRecords /\ c.pc = "recording" /\ c.receipt = b.receipt /\ c.attempted = b.attempted
        /\ c.started = b.started /\ c.unsaved = b.unsaved
    BY ChildTypes DEF ChildRecords, Late
  <1>3. due \in BOOLEAN
    BY <1>2, ChildTypes
  <1>7. due = (b.receipt.ws # Nowhere /\ b.attempted)
    BY <1>2, ChildTypes
  <1>. HIDE DEF c, due
  <1>4. HaltIf(TRUE) => pool'.closed # "open"
    BY Halting
  <1>5. CASE child' = [child EXCEPT ![k] = [c EXCEPT !.receipt.artifact = due]] /\ pool' = pool
    <2>1. child'[k] = WithEvidence(c, due)
      BY <1>5, ChildTypes DEF WithEvidence
    <2>2. /\ child'[k].pc = c.pc /\ Flags(c, child'[k]) /\ Kin(c, child'[k])
          /\ child'[k].receipt.status = c.receipt.status
          /\ child'[k].receipt.result = c.receipt.result /\ child'[k].receipt.artifact = due
      BY <1>2, <1>3, <2>1, ArtifactIs
    <2>. QED  BY <1>1, <1>2, <1>5, <1>7, <2>2 DEF Flags, Kin, Kept
  <1>6. CASE child' = [child EXCEPT ![k] = Unknown(c)] /\ HaltIf(TRUE)
    <2>1. child'[k] = Unknown(c)
      BY <1>6, ChildTypes
    <2>2. /\ child'[k].pc = c.pc /\ Flags(c, child'[k]) /\ Kin(c, child'[k]) /\ Kept(c, child'[k])
          /\ child'[k].receipt.status = "unknown"
      BY <1>2, <2>1, UnknownIs
    <2>. QED  BY <1>1, <1>2, <1>4, <1>6, <2>2 DEF Flags, Kin, Kept
  <1>. QED  BY <1>1, <1>5, <1>6

\* The outcome of a child is saved, or saved as unknown.
LEMMA RecordIs ==
  ASSUME Typed, NEW k \in Children, Record(k)
  PROVE  LET b == child[k]
             n == child'[k] IN
         /\ At(k, "recording") /\ UNCHANGED workers
         /\ n.pc = "releasing" /\ Flags(b, n) /\ Kin(b, n) /\ Kept(b, n)
         /\ \/ /\ n.receipt = b.receipt /\ kept'[k] = b.receipt /\ disk'[k] = b.receipt /\ pool' = pool
            \/ /\ n.receipt.status = "unknown" /\ kept' = kept /\ disk'[k] \in {disk[k], b.receipt, n.receipt}
               /\ pool'.closed # "open"
  <1> DEFINE b == child[k]
             c == [b EXCEPT !.pc = "releasing"]
  <1>0. kept \in [Children -> Receipts] /\ disk \in [Children -> Receipts]
    BY DEF Typed
  <1>1. /\ At(k, "recording") /\ UNCHANGED workers
        /\ \/ /\ child' = [child EXCEPT ![k] = c] /\ kept' = [kept EXCEPT ![k] = c.receipt]
              /\ disk' = [disk EXCEPT ![k] = c.receipt] /\ pool' = pool
           \/ /\ child' = [child EXCEPT ![k] = Unknown(c)] /\ HaltIf(TRUE) /\ kept' = kept
              /\ \E r \in {disk[k], c.receipt, Unknown(c).receipt} : disk' = [disk EXCEPT ![k] = r]
    BY DEF Record, Lost, poolVars
  <1>2. /\ c \in ChildRecords /\ c.pc = "releasing" /\ c.receipt = b.receipt /\ c.attempted = b.attempted
        /\ c.started = b.started /\ c.unsaved = b.unsaved
    BY ChildTypes DEF ChildRecords, Late
  <1>. HIDE DEF c
  <1>3. HaltIf(TRUE) => pool'.closed # "open"
    BY Halting
  <1>4. CASE /\ child' = [child EXCEPT ![k] = c] /\ kept' = [kept EXCEPT ![k] = c.receipt]
             /\ disk' = [disk EXCEPT ![k] = c.receipt] /\ pool' = pool
    <2>1. child'[k] = c /\ kept'[k] = c.receipt /\ disk'[k] = c.receipt
      BY <1>0, <1>4, ChildTypes
    <2>. QED  BY <1>1, <1>2, <1>4, <2>1 DEF Flags, Kin, Kept
  <1>5. CASE /\ child' = [child EXCEPT ![k] = Unknown(c)] /\ HaltIf(TRUE) /\ kept' = kept
             /\ \E r \in {disk[k], c.receipt, Unknown(c).receipt} : disk' = [disk EXCEPT ![k] = r]
    <2>1. child'[k] = Unknown(c)
      BY <1>5, ChildTypes
    <2>2. disk'[k] \in {disk[k], b.receipt, child'[k].receipt}
      BY <1>0, <1>2, <1>5, <2>1
    <2>3. /\ child'[k].pc = c.pc /\ Flags(c, child'[k]) /\ Kin(c, child'[k]) /\ Kept(c, child'[k])
          /\ child'[k].receipt.status = "unknown"
      BY <1>2, <2>1, UnknownIs
    <2>. QED  BY <1>1, <1>2, <1>3, <1>5, <2>2, <2>3 DEF Flags, Kin, Kept
  <1>. QED  BY <1>1, <1>4, <1>5

\* A child is over and its place given back; its receipt may still become unknown.
LEMMA LeaveIs ==
  ASSUME Typed, NEW k \in Children, Leave(k)
  PROVE  LET b == child[k]
             n == child'[k] IN
         /\ At(k, "releasing") /\ UNCHANGED <<kept, settled, workers>>
         /\ n.pc = "over" /\ ~n.attempted /\ ~n.started /\ ~n.unsaved /\ Kin(b, n) /\ Kept(b, n)
         /\ \/ /\ n.receipt = b.receipt /\ disk' = disk /\ pool' = Release(pool, k)
            \/ /\ n.receipt.status = "unknown" /\ disk'[k] \in {disk[k], n.receipt}
               /\ pool' = Release(Halted(pool), k) /\ pool'.closed # "open"
         /\ reserved' = reserved - 1 /\ call'[CallOf(k)].left = call[CallOf(k)].left - 1
  <1> DEFINE b == child[k]
             c == [b EXCEPT !.pc = "over", !.attempted = FALSE, !.started = FALSE, !.unsaved = FALSE]
  <1>0. disk \in [Children -> Receipts] /\ call \in [Calls -> CallRecords] /\ CallOf(k) \in Calls
    BY ChildrenAreTasks DEF Typed
  <1>1. /\ At(k, "releasing") /\ UNCHANGED <<kept, settled, workers>>
        /\ \/ child' = [child EXCEPT ![k] = c] /\ disk' = disk /\ pool' = Release(pool, k)
           \/ /\ child' = [child EXCEPT ![k] = Unknown(c)] /\ pool' = Release(Halted(pool), k)
              /\ \E r \in {disk[k], Unknown(c).receipt} : disk' = [disk EXCEPT ![k] = r]
        /\ reserved' = reserved - 1 /\ call' = [call EXCEPT ![CallOf(k)].left = @ - 1]
    BY DEF Leave
  <1>2. /\ c \in ChildRecords /\ c.pc = "over" /\ c.receipt = b.receipt /\ ~c.attempted
        /\ ~c.started /\ ~c.unsaved
    BY ChildTypes DEF ChildRecords, Late
  <1>. HIDE DEF c
  <1>3. call'[CallOf(k)].left = call[CallOf(k)].left - 1
    BY <1>0, <1>1 DEF CallRecords
  <1>4. CASE child' = [child EXCEPT ![k] = c] /\ disk' = disk /\ pool' = Release(pool, k)
    <2>1. child'[k] = c
      BY <1>4, ChildTypes
    <2>. QED  BY <1>1, <1>2, <1>3, <1>4, <2>1 DEF Kin, Kept
  <1>5. CASE /\ child' = [child EXCEPT ![k] = Unknown(c)] /\ pool' = Release(Halted(pool), k)
             /\ \E r \in {disk[k], Unknown(c).receipt} : disk' = [disk EXCEPT ![k] = r]
    <2>1. child'[k] = Unknown(c) /\ disk'[k] \in {disk[k], child'[k].receipt}
      BY <1>0, <1>5, ChildTypes
    <2>2. PoolInv(Halted(pool)) /\ Halted(pool).closed # "open"
      BY ClosedGood DEF Halted, Typed
    <2>3. pool'.closed # "open"
      BY <1>5, <2>2, ReleaseGood
    <2>4. /\ child'[k].pc = c.pc /\ Flags(c, child'[k]) /\ Kin(c, child'[k]) /\ Kept(c, child'[k])
          /\ child'[k].receipt.status = "unknown"
      BY <1>2, <2>1, UnknownIs
    <2>. QED  BY <1>1, <1>2, <1>3, <1>5, <2>1, <2>3, <2>4 DEF Flags, Kin, Kept
  <1>. QED  BY <1>1, <1>4, <1>5

\* A launch needs an open pool: a child is started, a worktree made or taken over, and
\* a run begun only while the pool is open (the checks of the signal).
LEMMA LaunchesNeedAnOpenPool ==
  ASSUME Typed, [Next]_vars, NEW k \in Children,
         \/ child'[k].started /\ ~child[k].started
         \/ child'[k].receipt.verified /\ ~child[k].receipt.verified
         \/ fate'[k] = "alive" /\ fate[k] # "alive"
  PROVE  host = "up" /\ Current
  <1>1. child[k].started \in BOOLEAN /\ child[k].receipt.verified \in BOOLEAN
    BY ChildTypes
  <1>2. CASE UNCHANGED vars
    BY <1>2 DEF vars, records, workers
  <1>3. ASSUME NEW c \in Calls, CallChange(c)
        PROVE  FALSE
    <2>1. PICK new : OneCall(c, new)
      BY <1>3, CallStepsAreApart
    <2>2. fate' = fate
      BY <2>1 DEF OneCall, workers
    <2>3. CASE Intend(c)
      <3>1. child'[k] = IF CallOf(k) = c THEN DrawnUp(child[k], c) ELSE child[k]
        BY <2>3 DEF Intend
      <3>2. \A b \in ChildRecords : b.receipt \in Receipts
        BY DEF ChildRecords
      <3>3. \A b \in ChildRecords : /\ DrawnUp(b, c).started = b.started
                                    /\ DrawnUp(b, c).receipt.verified = b.receipt.verified
        BY <3>2 DEF DrawnUp, ChildRecords, Receipts
      <3>4. child[k] \in ChildRecords
        BY ChildTypes
      <3>5. child'[k].started = child[k].started /\ child'[k].receipt.verified = child[k].receipt.verified
        BY <3>1, <3>3, <3>4
      <3>. QED  BY <2>2, <3>5
    <2>4. CASE ~Intend(c)
      <3>1. child' = child
        BY <1>3, <2>4 DEF CallChange, CallStep, Prepare, Refuse, Execute, Check, Abandon, SaveIntent,
                          IntentLost, Answer, Drain, records
      <3>. QED  BY <2>2, <3>1
    <2>. QED  BY <2>3, <2>4
  <1>4. CASE CloseAll \/ Closed
    BY <1>4 DEF CloseAll, Closed, records, workers
  <1>5. CASE HostLost
    <2>1. fate' = [j \in Children |-> CASE fate[j] = "alive" -> "doubt" [] fate[j] = "called" -> "none"
                                         [] OTHER -> fate[j]]
      BY <1>5 DEF HostLost
    <2>2. fate'[k] = CASE fate[k] = "alive" -> "doubt" [] fate[k] = "called" -> "none" [] OTHER -> fate[k]
      BY <2>1
    <2>3. fate'[k] = "alive" => fate[k] = "alive"
      BY <2>2
    <2>4. child'[k] = NotBegun
      BY <1>5 DEF HostLost
    <2>. QED  BY <2>3, <2>4 DEF NotBegun, NoReceipt
  <1>6. ASSUME NEW j \in Children, ChildStep(j)
        PROVE  host = "up" /\ Current
    <2>1. OneChild(j)
      BY <1>6, ChildStepsAreApart
    <2>2. j = k /\ host = "up"
      BY <2>1 DEF OneChild, Aside
    <2>3. SUFFICES ASSUME ~Current PROVE FALSE
      BY <2>2
    <2>4. \/ Created(k) \/ Throw(k) \/ StartUnsaved(k) \/ Returns(k)
          \/ LeaseStays(k) \/ Rejects(k) \/ StartRefused(k) \/ Unclean(k)
          \/ Evidence(k) \/ Record(k) \/ Leave(k)
      BY <1>6, <2>2, <2>3 DEF ChildStep, Admitted, Checked, Launched, Start, Works
    <2>5. CASE Created(k)
      BY <1>1, <2>3, <2>5, CreatedIs DEF workers
    <2>6. CASE Throw(k)
      BY <1>1, <2>6, ThrowIs DEF FailedFrom, Flags, Kin, workers
    <2>7. CASE StartUnsaved(k)
      BY <1>1, <2>7, StartUnsavedIs DEF workers
    <2>8. CASE Returns(k)
      BY <1>1, <2>8, ReturnsIs DEF Flags, Kin
    <2>9. CASE LeaseStays(k) \/ Rejects(k) \/ StartRefused(k) \/ Unclean(k)
      BY <1>1, <2>9, CutOffIs DEF FailedFrom, Flags, Kin
    <2>10. CASE Evidence(k)
      BY <1>1, <2>10, EvidenceIs DEF Flags, Kin, workers
    <2>11. CASE Record(k)
      BY <1>1, <2>11, RecordIs DEF Flags, Kin, workers
    <2>12. CASE Leave(k)
      BY <1>1, <2>12, LeaveIs DEF Kin, workers
    <2>. QED  BY <2>4, <2>5, <2>6, <2>7, <2>8, <2>9, <2>10, <2>11, <2>12
  <1>. QED
    BY <1>2, <1>3, <1>4, <1>5, <1>6 DEF Next, DelegationStep, Requests, CallChange

\* Once the outcome or the cleanup of a child is in doubt, nothing more is launched:
\* doubt closes the pool, and a launch needs an open one (halt).
THEOREM NoLaunchWhileInDoubt == Spec => NoLaunchAfterDoubt
  <1>1. Typed /\ DoubtCloses /\ [Next]_vars
        => [\A k \in Children :
              \/ child'[k].started /\ ~child[k].started
              \/ child'[k].receipt.verified /\ ~child[k].receipt.verified
              \/ fate'[k] = "alive" /\ fate[k] # "alive"
              => \A j \in Children : /\ child[j].receipt.status # "unknown" /\ lease[j] # "kept"
                                     /\ fate[j] \notin {"doubt", "stray"}]_vars
    BY LaunchesNeedAnOpenPool DEF DoubtCloses, Doubtful
  <1>. QED  BY TypedInit, TypedStep, DoubtInit, DoubtStep, <1>1, PTL DEF Spec, NoLaunchAfterDoubt

-----------------------------------------------------------------------------
(* Receipts tell the truth.                                                *)

LEMMA ReceiptInit == Init => ReceiptInv
  <1> SUFFICES ASSUME Init PROVE ReceiptInv
    OBVIOUS
  <1>1. \A k \in Children : /\ child[k] = NotBegun /\ kept[k] = NoReceipt /\ disk[k] = NoReceipt
                            /\ fate[k] = "none" /\ lease[k] = "none" /\ CallOf(k) \in Calls
    BY ChildrenAreTasks DEF Init
  <1>2. \A c \in Calls : call[c].pc = "none"
    BY DEF Init, NoCall
  <1>3. /\ NotBegun.pc = "none" /\ NotBegun.receipt = NoReceipt /\ ~NotBegun.attempted /\ ~NotBegun.started
        /\ ~NotBegun.unsaved
        /\ NoReceipt.status = "none" /\ NoReceipt.result = "none" /\ NoReceipt.ws = Nowhere
        /\ ~NoReceipt.verified /\ ~NoReceipt.artifact
    BY DEF NotBegun, NoReceipt
  <1>4. ASSUME NEW k \in Children PROVE OnDisk(k) /\ Stage(k)
    <2>1. OnDisk(k)
      BY <1>1, <1>3 DEF OnDisk, Told, Complete, Final
    <2>2. Paced(k) /\ Moded(k)
      BY <1>1, <1>2, <1>3 DEF Paced, Moded
    <2>3. EarlyStage(k) /\ RunningStage(k) /\ LateStage(k)
      BY <1>1, <1>3 DEF EarlyStage, RunningStage, LateStage, Early, Late, Final
    <2>4. Recorded(k)
      BY <1>1, <1>3 DEF Recorded, Final
    <2>. QED  BY <2>1, <2>2, <2>3, <2>4 DEF Stage
  <1>. QED  BY <1>2, <1>4 DEF ReceiptInv, Sound

\* A child that is recovered has been recorded, and its worktree is free.
LEMMA TargetsRest ==
  ASSUME Typed, ReceiptInv, host = "up", NEW c \in Calls, Recovery(c), call[c].pc # "none"
  PROVE  LET k == call[c].target IN
         /\ k \in Children /\ child[k].pc \in {"releasing", "over"}
         /\ kept[k].ws = child[k].receipt.ws /\ kept[k].mode = child[k].receipt.mode
         /\ kept[k].mode = "implement" => kept[k].ws # Nowhere
         /\ lease[k] = "none" /\ fate[k] \in {"none", "gone"}
  <1> DEFINE k == call[c].target
  <1>1. k \in Children
    BY DEF Typed
  <1>2. kept[k].status \in Final /\ kept[k].result # "none"
    BY DEF ReceiptInv, Sound, SafelySettled, Final
  <1>3. Recorded(k)
    BY <1>1 DEF ReceiptInv, Stage
  <1>. QED  BY <1>1, <1>2, <1>3 DEF Recorded, Told

\* What a child was recorded with stays, once its outcome is recorded.
LEMMA RecordsRest ==
  ASSUME Typed, NEW k \in Children, ChildStep(k), child[k].pc \in {"releasing", "over"}
  PROVE  /\ kept' = kept /\ UNCHANGED workers /\ settled' = settled
         /\ child'[k].pc \in {"releasing", "over"} /\ Kin(child[k], child'[k])
  <1>1. \A pc \in {"queued", "checking", "creating", "launching", "starting", "running", "evidence", "recording"} :
          ~At(k, pc)
    BY DEF At
  <1>2. Leave(k)
    BY <1>1 DEF ChildStep, Admitted, Checked, Created, Launched, Throw, Start, StartUnsaved, Works, Returns,
                LeaseStays, Rejects, StartRefused, Unclean, Evidence, Record
  <1>. QED  BY <1>2, LeaveIs

\* ... so what a call was prepared for stays, and so does what its children are to do.
LEMMA SoundStays ==
  ASSUME Typed, ReceiptInv, NEW k \in Children, ChildStep(k)
  PROVE  /\ \A c \in Calls : Sound(c)'
         /\ \A c \in Calls : call[c].pc # "none" => Mode(c)' = Mode(c)
  <1>1. OneChild(k)
    BY ChildStepsAreApart
  <1>2. ASSUME NEW c \in Calls, Recovery(c), call[c].pc # "none"
        PROVE  /\ call'[c].target = call[c].target /\ kept'[call[c].target] = kept[call[c].target]
               /\ settled \subseteq settled'
    <2>1. call[c].target \in Children /\ child[call[c].target].pc \in {"releasing", "over"}
      BY <1>1, <1>2, TargetsRest DEF OneChild
    <2>2. call[c].target = k => kept' = kept
      BY <2>1, RecordsRest
    <2>. QED  BY <1>1, <2>1, <2>2 DEF OneChild, Aside
  <1>3. \A c \in Calls : call'[c].pc = call[c].pc
    BY <1>1 DEF OneChild
  <1>4. \A c \in Calls : Sound(c)
    BY <1>1 DEF ReceiptInv, OneChild
  <1>5. ASSUME NEW c \in Calls PROVE Sound(c)'
    BY <1>2, <1>3, <1>4 DEF Sound, SafelySettled, Recovery
  <1>6. ASSUME NEW c \in Calls, call[c].pc # "none" PROVE Mode(c)' = Mode(c)
    BY <1>2, <1>6 DEF Mode, Recovery
  <1>. QED  BY <1>5, <1>6

\* The receipts and stages of everyone else are as they were.
LEMMA OthersReceipts ==
  ASSUME Typed, ReceiptInv, NEW k \in Children, ChildStep(k), NEW j \in Children, j # k
  PROVE  OnDisk(j)' /\ Stage(j)'
  <1>1. OneChild(k)
    BY ChildStepsAreApart
  <1>2. /\ child'[j] = child[j] /\ kept'[j] = kept[j] /\ disk'[j] = disk[j] /\ fate'[j] = fate[j]
        /\ lease'[j] = lease[j]
    BY <1>1 DEF OneChild, Aside
  <1>3. CallOf(j) \in Calls /\ call'[CallOf(j)].pc = call[CallOf(j)].pc
    BY <1>1, ChildrenAreTasks DEF OneChild
  <1>4. OnDisk(j) /\ Stage(j)
    BY <1>1 DEF ReceiptInv, OneChild
  <1>5. OnDisk(j)'
    BY <1>2, <1>4 DEF OnDisk, Told, Complete, Alarming
  <1>6. Paced(j)'
    BY <1>2, <1>3, <1>4 DEF Stage, Paced
  <1>7. EarlyStage(j)' /\ RunningStage(j)' /\ LateStage(j)' /\ Recorded(j)'
    BY <1>2, <1>4 DEF Stage, EarlyStage, RunningStage, LateStage, Recorded, Told, Alarming, Housed, Writes
  <1>8. Moded(j)'
    <2>1. child[j].pc # "none" => call[CallOf(j)].pc # "none"
      BY <1>4 DEF Stage, Paced
    <2>2. call[CallOf(j)].pc # "none" => Mode(CallOf(j))' = Mode(CallOf(j))
      BY <1>3, SoundStays
    <2>. QED  BY <1>2, <1>4, <2>1, <2>2 DEF Stage, Moded, CallOf
  <1>. QED  BY <1>5, <1>6, <1>7, <1>8 DEF Stage

\* A step of a child is one of these, and none of them forgets what the child is to do.
LEMMA OwnPace ==
  ASSUME Typed, ReceiptInv, NEW k \in Children, ChildStep(k)
  PROVE  Paced(k)' /\ Moded(k)'
  <1>1. /\ host = "up" /\ call[CallOf(k)].pc = "children" /\ call'[CallOf(k)].pc = "children"
        /\ CallOf(k) \in Calls
    BY ChildStepsAreApart, ChildrenAreTasks DEF OneChild
  <1>2. Paced(k) /\ Moded(k)
    BY <1>1 DEF ReceiptInv, Stage
  <1>3. child[k].pc # "none"
    BY <1>1, <1>2 DEF Paced
  <1> DEFINE Goes == child'[k].pc \notin {"none", "queued"} /\ child'[k].receipt.mode = child[k].receipt.mode
  <1>4. \A e : FailedFrom(child[k], child'[k], e) => Goes
    BY DEF FailedFrom, Kin
  <1>5. Goes
    <2>1. CASE Admitted(k)
      BY <2>1, AdmittedIs
    <2>2. CASE Checked(k)
      BY <2>2, CheckedIs
    <2>3. CASE Created(k)
      BY <2>3, CreatedIs DEF FailedFrom
    <2>4. CASE Launched(k)
      BY <2>4, LaunchedIs DEF Kin
    <2>5. CASE Throw(k)
      BY <1>4, <2>5, ThrowIs
    <2>6. CASE Start(k)
      BY <2>6, StartIs
    <2>7. CASE StartUnsaved(k)
      BY <2>7, StartUnsavedIs
    <2>8. CASE Works(k)
      BY <2>8, WorksIs DEF At
    <2>9. CASE Returns(k)
      BY <2>9, ReturnsIs DEF Kin
    <2>10. CASE LeaseStays(k) \/ Rejects(k) \/ StartRefused(k) \/ Unclean(k)
      BY <1>4, <2>10, CutOffIs
    <2>11. CASE Evidence(k)
      BY <2>11, EvidenceIs DEF Kin
    <2>12. CASE Record(k)
      BY <2>12, RecordIs DEF Kin
    <2>13. CASE Leave(k)
      BY <2>13, LeaveIs DEF Kin
    <2>. QED  BY <2>1, <2>2, <2>3, <2>4, <2>5, <2>6, <2>7, <2>8, <2>9, <2>10, <2>11, <2>12, <2>13 DEF ChildStep
  <1>6. Mode(CallOf(k))' = Mode(CallOf(k))
    BY <1>1, SoundStays
  <1>. QED  BY <1>1, <1>2, <1>3, <1>5, <1>6 DEF Paced, Moded, CallOf

\* What a child at work writes, by what it was asked to do.
LEMMA OwnMode ==
  ASSUME Typed, ReceiptInv, NEW k \in Children, ChildStep(k)
  PROVE  /\ host = "up" /\ call[CallOf(k)].pc = "children" /\ OnDisk(k) /\ Stage(k) /\ CallOf(k) \in Calls
         /\ child[k].pc # "none"
         /\ Kind[CallOf(k)] \in {"review", "implement", "recover"}
         /\ Kind[CallOf(k)] = "implement" => Writes(k)
         /\ Kind[CallOf(k)] = "review" => ~Writes(k)
         /\ Recovery(CallOf(k)) => /\ Target(k) \in Children
                                   /\ Writes(k) => kept[Target(k)].ws # Nowhere
  <1>1. /\ host = "up" /\ call[CallOf(k)].pc = "children" /\ CallOf(k) \in Calls
    BY ChildStepsAreApart, ChildrenAreTasks DEF OneChild
  <1>2. OnDisk(k) /\ Stage(k)
    BY <1>1 DEF ReceiptInv
  <1>3. child[k].pc # "none" /\ child[k].receipt.mode = Mode(CallOf(k))
    BY <1>1, <1>2 DEF Stage, Paced, Moded
  <1>4. Kind[CallOf(k)] \in {"review", "implement", "recover"}
    BY <1>1, DelegationConstants
  <1>5. Recovery(CallOf(k)) => /\ Target(k) \in Children
                               /\ Writes(k) => kept[Target(k)].ws # Nowhere
    BY <1>1, <1>3, TargetsRest DEF Target, Mode, Recovery, Writes
  <1>. QED  BY <1>1, <1>2, <1>3, <1>4, <1>5 DEF Mode, Writes

\* What a child's receipt says on disk and in memory is true after each of its steps.
OwnTruth(k) == OnDisk(k) /\ EarlyStage(k) /\ RunningStage(k) /\ LateStage(k) /\ Recorded(k)

LEMMA PrepareIsTrue ==
  ASSUME Typed, ReceiptInv, NEW k \in Children, Admitted(k) \/ Checked(k) \/ Created(k) \/ Launched(k)
  PROVE  OwnTruth(k)'
  <1> DEFINE b == child[k]
             n == child'[k]
  <1>0. ChildStep(k)
    BY DEF ChildStep
  <1>1. /\ OnDisk(k) /\ EarlyStage(k) /\ Recorded(k)
        /\ Kind[CallOf(k)] \in {"review", "implement", "recover"}
        /\ Kind[CallOf(k)] = "implement" => Writes(k)
        /\ Kind[CallOf(k)] = "review" => ~Writes(k)
        /\ Recovery(CallOf(k)) /\ Writes(k) => kept[Target(k)].ws # Nowhere
    BY <1>0, OwnMode DEF Stage
  <1>2. b.receipt.ws \in Children \cup {Nowhere} /\ k # Nowhere
    BY ChildTypes, ChildrenAreTasks
  <1>3. CASE Admitted(k)
    <2>1. b.pc = "queued" /\ fate'[k] = fate[k] /\ lease'[k] = lease[k]
      BY <1>3, AdmittedIs DEF At, workers
    <2>2. /\ b.receipt.result = "none" /\ ~b.receipt.artifact /\ ~b.started /\ ~b.unsaved
          /\ fate[k] = "none" /\ lease[k] = "none" /\ disk[k].status \notin Final /\ kept[k].result = "none"
      BY <1>1, <2>1 DEF EarlyStage, Recorded, Early
    <2>3. Recovery(CallOf(k)) => (Writes(k)' => n.receipt.ws # Nowhere /\ n.receipt.verified /\ n.attempted)
      BY <1>1, <1>3, AdmittedIs DEF Writes
    <2>4. /\ n.pc \in {"checking", "evidence"}
          /\ ~n.started /\ ~n.unsaved /\ n.receipt.result = "none" /\ ~n.receipt.artifact
          /\ n.pc = "checking" => n.receipt.status = "prepared" /\ kept'[k] = n.receipt /\ disk'[k] = n.receipt
          /\ n.pc = "evidence" => n.receipt.status = "unknown" /\ kept'[k] = kept[k]
                                  /\ (disk'[k] = disk[k] \/ disk'[k].status = "prepared")
      BY <1>3, <2>2, AdmittedIs DEF Kept
    <2>. QED  BY <2>1, <2>2, <2>3, <2>4
              DEF OwnTruth, OnDisk, EarlyStage, RunningStage, LateStage, Recorded, Told, Complete, Housed,
                  Early, Late, Final, CallOf, Recovery
  <1>4. CASE Checked(k)
    <2>1. b.pc = "checking" /\ fate'[k] = fate[k] /\ lease'[k] = lease[k]
      BY <1>4, CheckedIs DEF At, workers
    <2>2. /\ b.receipt.result = "none" /\ ~b.receipt.artifact /\ ~b.started /\ ~b.unsaved
          /\ b.receipt.status \notin Final \cup {"unknown"}
          /\ fate[k] = "none" /\ lease[k] = "none" /\ disk[k].status \notin Final /\ kept[k].result = "none"
          /\ Recovery(CallOf(k)) => Housed(k) /\ (Writes(k) => b.attempted)
      BY <1>1, <2>1 DEF EarlyStage, Recorded, Early
    <2>3. /\ n.pc \in {"creating", "launching", "evidence"} /\ n.receipt.mode = b.receipt.mode
          /\ n.pc = "creating" => Kind[CallOf(k)] = "implement" /\ n.receipt.ws = k
          /\ n.pc = "launching" => Kind[CallOf(k)] # "implement" /\ n.receipt.ws = b.receipt.ws
          /\ n.receipt.verified = b.receipt.verified /\ n.attempted = b.attempted
          /\ ~n.started /\ ~n.unsaved /\ n.receipt.result = "none" /\ ~n.receipt.artifact
          /\ n.pc # "evidence" => /\ n.receipt.status = b.receipt.status
                                  /\ \/ kept'[k] = kept[k] /\ disk'[k] = disk[k]
                                     \/ kept'[k] = n.receipt /\ disk'[k] = n.receipt
          /\ n.pc = "evidence" => n.receipt.status = "unknown" /\ kept'[k] = kept[k]
                                  /\ (disk'[k] = disk[k] \/ disk'[k].status = b.receipt.status)
      BY <1>4, <2>2, CheckedIs DEF Kept, Flags
    <2>4. n.pc = "launching" => (Writes(k)' => n.receipt.ws # Nowhere /\ n.receipt.verified /\ n.attempted)
      BY <1>1, <2>2, <2>3 DEF Writes, Housed, Recovery
    <2>. QED  BY <2>1, <2>2, <2>3, <2>4
              DEF OwnTruth, OnDisk, EarlyStage, RunningStage, LateStage, Recorded, Told, Complete, Housed,
                  Early, Late, Final, CallOf, Recovery
  <1>5. CASE Created(k)
    <2>1. b.pc = "creating" /\ fate'[k] = fate[k] /\ lease'[k] = lease[k]
      BY <1>5, CreatedIs DEF At, workers
    <2>2. /\ b.receipt.result = "none" /\ ~b.receipt.artifact /\ ~b.started /\ ~b.unsaved
          /\ b.receipt.status \notin Final \cup {"unknown"} /\ b.receipt.ws = k
          /\ fate[k] = "none" /\ lease[k] = "none" /\ disk[k].status \notin Final /\ kept[k].result = "none"
      BY <1>1, <2>1 DEF EarlyStage, Recorded, Early
    <2>3. /\ n.pc \in {"launching", "evidence"} /\ n.receipt.ws = k /\ n.attempted
          /\ n.pc = "launching" => n.receipt.verified
          /\ ~n.started /\ ~n.unsaved /\ n.receipt.result = "none" /\ ~n.receipt.artifact
          /\ n.pc # "evidence" => /\ n.receipt.status = b.receipt.status
                                  /\ kept'[k] = n.receipt /\ disk'[k] = n.receipt
          /\ n.pc = "evidence" => n.receipt.status \in {"unknown", "failed", "cancelled"} /\ kept'[k] = kept[k]
                                  /\ (disk'[k] = disk[k] \/ disk'[k].status = b.receipt.status)
      BY <1>5, <2>2, CreatedIs DEF Kept, FailedFrom
    <2>. QED  BY <1>2, <2>1, <2>2, <2>3
              DEF OwnTruth, OnDisk, EarlyStage, RunningStage, LateStage, Recorded, Told, Complete, Housed,
                  Early, Late, Final, CallOf, Recovery
  <1>6. CASE Launched(k)
    <2>1. b.pc = "launching" /\ fate'[k] = fate[k] /\ lease'[k] = lease[k]
      BY <1>6, LaunchedIs DEF At, workers
    <2>2. /\ b.receipt.result = "none" /\ ~b.receipt.artifact /\ ~b.started /\ ~b.unsaved
          /\ fate[k] = "none" /\ lease[k] = "none" /\ disk[k].status \notin Final /\ kept[k].result = "none"
          /\ Housed(k) /\ (Writes(k) => b.attempted)
      BY <1>1, <2>1 DEF EarlyStage, Recorded, Early
    <2>3. /\ n.pc \in {"starting", "evidence"} /\ n.receipt.mode = b.receipt.mode /\ n.receipt.ws = b.receipt.ws
          /\ n.receipt.verified = b.receipt.verified /\ n.attempted = b.attempted
          /\ ~n.started /\ ~n.unsaved /\ n.receipt.result = "none" /\ ~n.receipt.artifact
          /\ n.pc # "evidence" => /\ n.receipt.status = "running"
                                  /\ kept'[k] = n.receipt /\ disk'[k] = n.receipt
          /\ n.pc = "evidence" => n.receipt.status = "unknown" /\ kept'[k] = kept[k]
                                  /\ (disk'[k] = disk[k] \/ disk'[k].status = "running")
      BY <1>6, <2>2, LaunchedIs DEF Kept, Flags, Kin
    <2>4. /\ Housed(k)' /\ (Writes(k)' => n.attempted)
          /\ Kind[CallOf(k)] = "implement" => n.receipt.mode = "implement" /\ n.receipt.ws # Nowhere
      BY <1>1, <2>2, <2>3 DEF Writes, Housed
    <2>. QED  BY <2>1, <2>2, <2>3, <2>4
              DEF OwnTruth, OnDisk, EarlyStage, RunningStage, LateStage, Recorded, Told, Complete, Alarming,
                  Early, Late, Final, CallOf, Recovery
  <1>. QED  BY <1>3, <1>4, <1>5, <1>6

LEMMA ThrowIsTrue ==
  ASSUME Typed, ReceiptInv, NEW k \in Children, Throw(k)
  PROVE  OwnTruth(k)'
  <1> DEFINE b == child[k]
             n == child'[k]
  <1>1. OnDisk(k) /\ EarlyStage(k) /\ Recorded(k)
    BY OwnMode DEF ChildStep, Stage
  <1>2. b.pc \in Early \ {"none"} /\ fate'[k] = fate[k] /\ lease'[k] = lease[k] /\ kept'[k] = kept[k] /\ disk'[k] = disk[k]
    BY ThrowIs DEF workers, Early
  <1>3. /\ b.receipt.result = "none" /\ ~b.started /\ fate[k] = "none" /\ lease[k] = "none"
        /\ disk[k].status \notin Final /\ kept[k].result = "none"
    BY <1>1, <1>2 DEF EarlyStage, Recorded, Early
  <1>4. /\ n.pc = "evidence" /\ n.receipt.result = "none" /\ ~n.started
        /\ n.receipt.status \in {"unknown", "failed", "cancelled"}
    BY <1>3, ThrowIs DEF FailedFrom, Flags, Kept
  <1>. QED  BY <1>1, <1>2, <1>3, <1>4
            DEF OwnTruth, OnDisk, EarlyStage, RunningStage, LateStage, Recorded, Told, Complete,
                Early, Late, Final

LEMMA RunIsTrue ==
  ASSUME Typed, ReceiptInv, NEW k \in Children, Start(k) \/ StartUnsaved(k) \/ Works(k) \/ Returns(k)
  PROVE  OwnTruth(k)'
  <1> DEFINE b == child[k]
             n == child'[k]
  <1>1. OnDisk(k) /\ EarlyStage(k) /\ RunningStage(k) /\ Recorded(k)
    BY OwnMode DEF ChildStep, Stage
  <1>2. CASE Start(k)
    <2>1. /\ b.pc = "starting" /\ n.pc = "running" /\ n.started /\ n.attempted = b.attempted
          /\ n.receipt = b.receipt /\ fate'[k] = "called" /\ lease'[k] = lease[k]
          /\ kept'[k] = kept[k] /\ disk'[k] = disk[k]
      BY <1>2, StartIs DEF At
    <2>2. /\ b.receipt.result = "none" /\ b.receipt.status = "running" /\ ~b.receipt.artifact
          /\ lease[k] = "none" /\ Alarming(disk[k], k) /\ Housed(k) /\ (Writes(k) => b.attempted)
          /\ disk[k].status \notin Final /\ kept[k].result = "none"
      BY <1>1, <2>1 DEF EarlyStage, Recorded, Early
    <2>. QED  BY <1>1, <2>1, <2>2
              DEF OwnTruth, OnDisk, EarlyStage, RunningStage, LateStage, Recorded, Told, Complete, Alarming,
                  Housed, Writes, Early, Late, Final
  <1> DEFINE Running == /\ b.receipt.result = "none" /\ b.receipt.status = "running" /\ ~b.receipt.artifact
                        /\ b.started /\ fate[k] \in {"called", "alive"} /\ Alarming(disk[k], k)
                        /\ lease[k] = (IF fate[k] = "alive" /\ Writes(k) THEN "held" ELSE "none")
                        /\ Housed(k) /\ (Writes(k) => b.attempted)
                        /\ disk[k].status \notin Final /\ kept[k].result = "none"
  <1>3. b.pc = "running" => Running
    BY <1>1 DEF RunningStage, OnDisk, Recorded
  <1>. HIDE DEF Running
  <1>4. CASE StartUnsaved(k)
    <2>1. /\ b.pc = "running" /\ n.pc = "running" /\ n.started = b.started /\ n.attempted = b.attempted
          /\ n.receipt = b.receipt /\ fate'[k] = fate[k] /\ lease'[k] = lease[k]
          /\ kept'[k] = kept[k] /\ disk'[k] = disk[k]
      BY <1>4, StartUnsavedIs DEF At, workers
    <2>. QED  BY <1>1, <1>3, <2>1
              DEF OwnTruth, OnDisk, EarlyStage, RunningStage, LateStage, Recorded, Told, Complete, Alarming,
                  Housed, Writes, Early, Late, Final, Running
  <1>5. CASE Works(k)
    <2>1. /\ b.pc = "running" /\ fate[k] = "called" /\ n = b /\ fate'[k] = "alive"
          /\ lease'[k] = IF Writes(k) THEN "held" ELSE lease[k]
          /\ kept'[k] = kept[k] /\ disk'[k] = disk[k]
      BY <1>5, WorksIs DEF At
    <2>. QED  BY <1>1, <1>3, <2>1
              DEF OwnTruth, OnDisk, EarlyStage, RunningStage, LateStage, Recorded, Told, Complete, Alarming,
                  Housed, Writes, Early, Late, Final, Running
  <1>6. CASE Returns(k)
    <2>1. /\ b.pc = "running" /\ fate[k] = "alive" /\ n.pc = "evidence" /\ Kin(b, n) /\ n.attempted = b.attempted
          /\ kept'[k] = kept[k] /\ disk'[k] = disk[k]
          /\ n.receipt.status \in {"unknown", "completed", "failed", "cancelled"}
          /\ n.receipt.status # "unknown" => n.receipt.result = n.receipt.status
          /\ \/ /\ fate'[k] = "gone" /\ lease'[k] = IF lease[k] = "held" THEN "none" ELSE lease[k]
             \/ /\ fate'[k] = "doubt" /\ lease'[k] = IF lease[k] = "held" THEN "kept" ELSE lease[k]
                /\ n.receipt.status = "unknown"
      BY <1>6, ReturnsIs DEF At, Flags
    <2>. QED  BY <1>1, <1>3, <2>1
              DEF OwnTruth, OnDisk, EarlyStage, RunningStage, LateStage, Recorded, Told, Complete, Alarming,
                  Housed, Writes, Early, Late, Final, Running, Kin
  <1>. QED  BY <1>2, <1>4, <1>5, <1>6

LEMMA CutOffIsTrue ==
  ASSUME Typed, ReceiptInv, NEW k \in Children, LeaseStays(k) \/ Rejects(k) \/ StartRefused(k) \/ Unclean(k)
  PROVE  OwnTruth(k)'
  <1> DEFINE b == child[k]
             n == child'[k]
  <1>1. OnDisk(k) /\ RunningStage(k) /\ Recorded(k)
    BY OwnMode DEF ChildStep, Stage
  <1>2. b.pc = "running" /\ kept'[k] = kept[k] /\ disk'[k] = disk[k]
    BY CutOffIs DEF At
  <1>3. /\ b.receipt.result = "none" /\ b.receipt.status = "running" /\ ~b.receipt.artifact
        /\ b.started /\ fate[k] \in {"called", "alive"} /\ Alarming(disk[k], k)
        /\ lease[k] = (IF fate[k] = "alive" /\ Writes(k) THEN "held" ELSE "none")
        /\ Housed(k) /\ (Writes(k) => b.attempted)
        /\ disk[k].status \notin Final /\ kept[k].result = "none"
    BY <1>1, <1>2 DEF RunningStage, OnDisk, Recorded
  <1>4. PICK e \in {"rejected", "not_started"} : FailedFrom(b, n, e) /\ (e = "not_started" => fate[k] = "called" /\ fate'[k] = "none")
    BY CutOffIs
  <1>5. /\ n.pc = "evidence" /\ Kin(b, n) /\ n.attempted = b.attempted /\ n.receipt.result = "none"
        /\ n.receipt.status \in {"unknown", "failed", "cancelled"}
        /\ n.receipt.status # "unknown" => fate[k] = "called" /\ fate'[k] = "none"
    BY <1>3, <1>4 DEF FailedFrom, Flags, Kept
  <1>6. /\ fate'[k] \in {"none", "gone", "doubt", "stray"} /\ lease'[k] \in {"none", "kept"}
        /\ fate'[k] \in {"doubt", "stray"} \/ lease'[k] = "kept" => fate[k] = "alive"
    BY <1>3, CutOffIs
  <1>. QED  BY <1>1, <1>2, <1>3, <1>5, <1>6
            DEF OwnTruth, OnDisk, EarlyStage, RunningStage, LateStage, Recorded, Told, Complete, Alarming,
                Housed, Writes, Early, Late, Final, Kin

LEMMA EndIsTrue ==
  ASSUME Typed, ReceiptInv, NEW k \in Children, Evidence(k) \/ Record(k) \/ Leave(k)
  PROVE  OwnTruth(k)'
  <1> DEFINE b == child[k]
             n == child'[k]
  <1>1. /\ OnDisk(k) /\ LateStage(k) /\ Recorded(k)
        /\ Kind[CallOf(k)] = "implement" => Writes(k)
    BY OwnMode DEF ChildStep, Stage
  <1>2. b.pc \in {"evidence", "recording", "releasing"} /\ fate'[k] = fate[k] /\ lease'[k] = lease[k]
    BY EvidenceIs, RecordIs, LeaveIs DEF workers, At
  <1>3. fate[k] \in {"none", "gone", "doubt", "stray"} /\ lease[k] \in {"none", "kept"}
    <2>1. b.pc \in Late
      BY <1>2 DEF Late
    <2>. QED  BY <1>1, <2>1, ChildTypes DEF LateStage
  <1> DEFINE Stays == /\ b.receipt.status \in Final \cup {"unknown"} /\ Told(b.receipt, k)
                      /\ lease[k] = "kept" \/ fate[k] \in {"doubt", "stray"} => b.receipt.status = "unknown"
                      /\ b.receipt.result # "none" => fate[k] # "none"
                      /\ fate[k] # "none" => Housed(k)
  <1>4. Stays
    BY <1>1, <1>2 DEF LateStage, Late
  <1>5. CASE Evidence(k)
    <2>1. /\ b.pc = "evidence" /\ n.pc = "recording" /\ Kin(b, n) /\ n.receipt.result = b.receipt.result
          /\ kept'[k] = kept[k] /\ disk'[k] = disk[k]
          /\ \/ /\ n.receipt.status = b.receipt.status
                /\ b.receipt.ws # Nowhere /\ b.attempted => n.receipt.artifact
             \/ n.receipt.status = "unknown"
      BY <1>5, EvidenceIs DEF At
    <2>2. fate[k] # "none" /\ Writes(k) => b.attempted /\ b.receipt.ws # Nowhere
      BY <1>1, <1>4, <2>1 DEF LateStage, Late, Housed
    <2>. QED  BY <1>1, <1>3, <1>4, <1>2, <2>1, <2>2
              DEF OwnTruth, OnDisk, EarlyStage, RunningStage, LateStage, Recorded, Told, Complete, Alarming,
                  Housed, Writes, Early, Late, Final, Kin
  <1>6. CASE Record(k)
    <2>1. /\ b.pc = "recording" /\ n.pc = "releasing" /\ Kin(b, n) /\ Kept(b, n)
          /\ \/ /\ n.receipt = b.receipt /\ kept'[k] = b.receipt /\ disk'[k] = b.receipt
             \/ /\ n.receipt.status = "unknown" /\ kept' = kept /\ disk'[k] \in {disk[k], b.receipt, n.receipt}
      BY <1>6, RecordIs DEF At
    <2>2. fate[k] # "none" /\ Writes(k) /\ b.receipt.status \in Final => b.receipt.artifact
      BY <1>1, <2>1 DEF LateStage, Late
    <2>3. /\ Told(b.receipt, k) /\ Complete(b.receipt)
          /\ fate[k] \in {"doubt", "stray"} => Alarming(b.receipt, k) /\ Alarming(n.receipt, k)
      BY <1>1, <1>2, <1>4, <2>1, <2>2 DEF Told, Complete, Alarming, Housed, Writes, Kin, Final
    <2>4. n.receipt.status = "unknown" => Told(n.receipt, k) /\ Complete(n.receipt)
      BY DEF Told, Complete, Final
    <2>5. OnDisk(k)'
      BY <1>1, <1>2, <1>3, <2>1, <2>3, <2>4 DEF OnDisk, Told, Alarming
    <2>6. Recorded(k)'
      BY <1>1, <1>2, <1>3, <1>4, <2>1, <2>3 DEF Recorded, Told, Kin, Housed, Writes, Final
    <2>7. LateStage(k)' /\ EarlyStage(k)' /\ RunningStage(k)'
      BY <1>2, <1>3, <1>4, <2>1, <2>2 DEF EarlyStage, RunningStage, LateStage, Told, Housed, Writes,
                                          Early, Late, Final, Kin, Kept
    <2>. QED  BY <2>5, <2>6, <2>7 DEF OwnTruth
  <1>7. CASE Leave(k)
    <2>1. /\ b.pc = "releasing" /\ n.pc = "over" /\ Kin(b, n) /\ Kept(b, n) /\ kept'[k] = kept[k]
          /\ \/ n.receipt = b.receipt /\ disk'[k] = disk[k]
             \/ n.receipt.status = "unknown" /\ disk'[k] \in {disk[k], n.receipt}
      BY <1>7, LeaveIs DEF At
    <2>2. fate[k] # "none" /\ Writes(k) /\ b.receipt.status \in Final => b.receipt.artifact
      BY <1>1, <2>1 DEF LateStage, Late
    <2>3. n.receipt.status = "unknown" =>
            /\ Told(n.receipt, k) /\ Complete(n.receipt)
            /\ fate[k] \in {"doubt", "stray"} => Alarming(n.receipt, k)
      BY <1>1, <1>2, <1>4, <2>1 DEF Told, Complete, Alarming, Housed, Writes, Kin, Final
    <2>5. OnDisk(k)'
      BY <1>1, <1>2, <1>3, <2>1, <2>3 DEF OnDisk, Told, Alarming
    <2>6. Recorded(k)'
      BY <1>1, <1>2, <1>3, <1>4, <2>1 DEF Recorded, Told, Kin, Housed, Writes, Final
    <2>7. LateStage(k)' /\ EarlyStage(k)' /\ RunningStage(k)'
      BY <1>2, <1>3, <1>4, <2>1, <2>2 DEF EarlyStage, RunningStage, LateStage, Told, Housed, Writes,
                                          Early, Late, Final, Kin, Kept
    <2>. QED  BY <2>5, <2>6, <2>7 DEF OwnTruth
  <1>. QED  BY <1>5, <1>6, <1>7

LEMMA ChildReceipts ==
  ASSUME Typed, ReceiptInv, NEW k \in Children, ChildStep(k)
  PROVE  ReceiptInv'
  <1>1. OwnTruth(k)'
    BY PrepareIsTrue, ThrowIsTrue, RunIsTrue, CutOffIsTrue, EndIsTrue DEF ChildStep
  <1>2. OnDisk(k)' /\ Stage(k)'
    BY <1>1, OwnPace DEF OwnTruth, Stage
  <1>3. \A j \in Children : OnDisk(j)' /\ Stage(j)'
    BY <1>2, OthersReceipts
  <1>. QED  BY <1>3, SoundStays DEF ReceiptInv

\* What a step of a call makes of its record, its children and their receipts.
CallGoes(c, new) ==
  \/ /\ UNCHANGED records
     /\ \/ call[c].pc = "none" /\ new.pc = "prepared" /\ (Recovery(c) => CanRecover(new.target))
        \/ call[c].pc = "prepared" /\ new.pc \in {"over", "admitted"}
        \/ call[c].pc = "admitted" /\ new.pc = "verifying"
        \/ call[c].pc \in {"admitted", "verifying"} /\ new.pc = "draining"
        \/ /\ call[c].pc = "children" /\ new.pc = "draining"
           /\ \A k \in TasksOf(c) : child[k].pc = "over"
        \/ call[c].pc = "draining" /\ new.pc = "over"
  \/ /\ call[c].pc = "verifying" /\ new.pc = "intent" /\ UNCHANGED <<kept, disk>>
     /\ \A k \in Children : child'[k] = IF CallOf(k) = c THEN DrawnUp(child[k], c) ELSE child[k]
  \/ /\ call[c].pc = "intent" /\ new.pc \in {"intent", "children"} /\ UNCHANGED child
     /\ \E i \in TasksOf(c) : /\ kept' = [kept EXCEPT ![i] = child[i].receipt]
                              /\ disk' = [disk EXCEPT ![i] = child[i].receipt]
  \/ /\ call[c].pc = "intent" /\ new.pc = "draining" /\ UNCHANGED <<child, kept>>
     /\ \E i \in TasksOf(c) : \E r \in {disk[i], child[i].receipt} : disk' = [disk EXCEPT ![i] = r]

LEMMA CallGoesOn ==
  ASSUME Typed, NEW c \in Calls, CallChange(c), NEW new, OneCall(c, new)
  PROVE  CallGoes(c, new)
  <1>1. call \in [Calls -> CallRecords] /\ call' = [call EXCEPT ![c] = new] /\ call'[c] = new
    BY DEF Typed, OneCall
  <1>2. call[c] \in CallRecords
    BY <1>1
  <1>3. \A d \in CallRecords, pc \in CallPcs : [d EXCEPT !.pc = pc].pc = pc
    BY DEF CallRecords
  <1>4. call[c].pc = "intent" => <<c, call[c].saved + 1>> \in TasksOf(c)
    <2>1. call[c].pc = "intent" => call[c].saved < Tasks[c] /\ call[c].saved \in Nat /\ Tasks[c] \in Nat
      BY <1>2, PoolConstants DEF Typed, CallRecords
    <2>2. call[c].pc = "intent" => call[c].saved + 1 \in 1 .. Tasks[c]
      BY <2>1
    <2>. QED  BY <2>2, ChildrenAreTasks DEF TasksOf
  <1>5. CASE Prepare(c)
    <2>1. PICK k \in Children \cup {NoChild} :
            /\ IF Kind[c] = "recover" THEN k # NoChild /\ CanRecover(k) ELSE k = NoChild
            /\ call' = [call EXCEPT ![c].pc = "prepared", ![c].target = k]
      BY <1>5 DEF Prepare
    <2>2. new.pc = "prepared" /\ new.target = k
      BY <1>1, <1>2, <2>1 DEF CallRecords
    <2>. QED  BY <1>5, <2>1, <2>2 DEF Prepare, CallGoes, Recovery
  <1>6. CASE Refuse(c)
    <2>1. new.pc = "over"
      BY <1>1, <1>2, <1>6 DEF Refuse, CallRecords
    <2>. QED  BY <1>6, <2>1 DEF Refuse, CallGoes
  <1>7. CASE Execute(c)
    <2>1. new.pc = "admitted"
      BY <1>1, <1>2, <1>7 DEF Execute, CallRecords
    <2>. QED  BY <1>7, <2>1 DEF Execute, CallGoes
  <1>8. CASE Check(c)
    <2>1. new.pc = "verifying"
      BY <1>1, <1>2, <1>8 DEF Check, CallRecords
    <2>. QED  BY <1>8, <2>1 DEF Check, CallGoes
  <1>9. CASE Abandon(c)
    <2>1. new.pc = "draining"
      BY <1>1, <1>2, <1>9 DEF Abandon, CallRecords
    <2>. QED  BY <1>9, <2>1 DEF Abandon, CallGoes
  <1>10. CASE Intend(c)
    <2>1. new.pc = "intent"
      BY <1>1, <1>2, <1>10 DEF Intend, CallRecords
    <2>. QED  BY <1>10, <2>1 DEF Intend, CallGoes
  <1>11. CASE SaveIntent(c)
    <2>1. /\ call[c].pc = "intent"
          /\ call' = [call EXCEPT ![c].saved = @ + 1,
                                  ![c].pc = IF call[c].saved + 1 = Tasks[c] THEN "children" ELSE @]
          /\ UNCHANGED child
      BY <1>11 DEF SaveIntent
    <2>2. new.pc \in {"intent", "children"}
      BY <1>1, <1>2, <2>1 DEF CallRecords
    <2>3. LET i == <<c, call[c].saved + 1>> IN
          /\ kept' = [kept EXCEPT ![i] = child[i].receipt] /\ disk' = [disk EXCEPT ![i] = child[i].receipt]
      BY <1>11 DEF SaveIntent
    <2>. QED  BY <1>4, <2>1, <2>2, <2>3 DEF CallGoes
  <1>12. CASE IntentLost(c)
    <2>1. /\ call[c].pc = "intent" /\ UNCHANGED <<child, kept>>
          /\ call' = [call EXCEPT ![c].pc = "draining", ![c].result = "unknown"]
      BY <1>12 DEF IntentLost
    <2>2. new.pc = "draining"
      BY <1>1, <1>2, <2>1 DEF CallRecords
    <2> DEFINE i == <<c, call[c].saved + 1>>
    <2>3. PICK written \in BOOLEAN : disk' = [disk EXCEPT ![i] = IF written THEN child[i].receipt ELSE @]
      BY <1>12 DEF IntentLost
    <2>4. \E r \in {disk[i], child[i].receipt} : disk' = [disk EXCEPT ![i] = r]
      <3>1. CASE written
        BY <2>3, <3>1
      <3>2. CASE ~written
        BY <2>3, <3>2
      <3>. QED  BY <3>1, <3>2
    <2>. QED  BY <1>4, <2>1, <2>2, <2>4 DEF CallGoes
  <1>13. CASE Answer(c)
    <2>1. new.pc = "draining"
      BY <1>1, <1>2, <1>13 DEF Answer, CallRecords
    <2>. QED  BY <1>13, <2>1 DEF Answer, CallGoes
  <1>14. CASE Drain(c)
    <2>1. new.pc = "over"
      BY <1>1, <1>2, <1>14 DEF Drain, CallRecords
    <2>. QED  BY <1>14, <2>1 DEF Drain, CallGoes
  <1>. QED
    BY <1>5, <1>6, <1>7, <1>8, <1>9, <1>10, <1>11, <1>12, <1>13, <1>14 DEF CallChange, CallStep

\* The receipts that are drawn up say that nothing was done.
LEMMA DrawnUpIs ==
  ASSUME NEW b \in ChildRecords, NEW c, NEW n, n = DrawnUp(b, c)
  PROVE  /\ n.pc = "queued" /\ n.receipt.status = "queued" /\ n.receipt.mode = Mode(c)
         /\ Flags(b, n) /\ n.receipt.ws = b.receipt.ws /\ n.receipt.verified = b.receipt.verified /\ Kept(b, n)
  <1>1. b.receipt \in Receipts
    BY DEF ChildRecords
  <1>. QED  BY <1>1 DEF DrawnUp, ChildRecords, Receipts, Flags, Kept

\* A step of a call leaves the receipts true and what is recovered alone.
LEMMA CallReceipts ==
  ASSUME Typed, ReceiptInv, NEW c \in Calls, CallChange(c)
  PROVE  ReceiptInv'
  <1>1. PICK new : OneCall(c, new)
    BY CallStepsAreApart
  <1>2. CallGoes(c, new)
    BY <1>1, CallGoesOn
  <1>3. /\ call \in [Calls -> CallRecords] /\ kept \in [Children -> Receipts] /\ disk \in [Children -> Receipts]
        /\ call' = [call EXCEPT ![c] = new] /\ call'[c] = new
        /\ \A d \in Calls \ {c} : call'[d] = call[d]
        /\ \A d \in Calls : call[d].pc # "none" => call'[d].target = call[d].target
        /\ host = "up" /\ settled' = settled /\ fate' = fate /\ lease' = lease
    BY <1>1 DEF Typed, OneCall, workers
  <1>4. \A k \in Children : OnDisk(k) /\ Stage(k) /\ CallOf(k) \in Calls /\ (CallOf(k) = c => k \in TasksOf(c))
    BY <1>3, ChildrenAreTasks DEF ReceiptInv, TasksOf
  <1>5. \A k \in TasksOf(c) : k \in Children /\ CallOf(k) = c
    BY DEF TasksOf
  \* what belongs to a child before and after
  <1>6. ASSUME NEW k \in Children
        PROVE  \/ /\ child'[k] = child[k] /\ kept'[k] = kept[k]
                  /\ \/ disk'[k] = disk[k]
                     \/ child[k].pc = "queued" /\ disk'[k] = child[k].receipt
               \/ child[k].pc = "queued" /\ child'[k] = child[k]
                  /\ kept'[k] = child[k].receipt /\ disk'[k] = child[k].receipt
               \/ /\ CallOf(k) = c /\ child[k].pc = "none" /\ child'[k] = DrawnUp(child[k], c)
                  /\ new.pc = "intent" /\ kept'[k] = kept[k] /\ disk'[k] = disk[k]
    <2>1. call[c].pc = "intent" => \A i \in TasksOf(c) : child[i].pc = "queued"
      <3>1. ASSUME NEW i \in TasksOf(c), call[c].pc = "intent" PROVE child[i].pc = "queued"
        <4>1. i \in Children /\ CallOf(i) = c
          BY <1>5
        <4>2. Paced(i)
          BY <1>4, <4>1 DEF Stage
        <4>. QED  BY <3>1, <4>1, <4>2 DEF Paced
      <3>. QED  BY <3>1
    <2>2. call[c].pc = "verifying" /\ CallOf(k) = c => child[k].pc = "none"
      BY <1>4 DEF Stage, Paced
    <2>. QED  BY <1>2, <1>3, <2>1, <2>2 DEF CallGoes, records
  <1>7. ASSUME NEW d \in Calls, Recovery(d), call[d].pc # "none"
        PROVE  kept'[call[d].target] = kept[call[d].target]
    <2>1. call[d].target \in Children /\ child[call[d].target].pc \in {"releasing", "over"}
      BY <1>3, <1>7, TargetsRest
    <2>. QED  BY <1>6, <2>1
  <1>8. ASSUME NEW d \in Calls PROVE Sound(d)'
    <2>1. CASE call[d].pc # "none"
      <3>1. Recovery(d) => SafelySettled(call[d].target)
        BY <1>3, <2>1 DEF ReceiptInv, Sound
      <3>. QED  BY <1>3, <1>7, <2>1, <3>1 DEF Sound, SafelySettled, Recovery
    <2>2. CASE call[d].pc = "none" /\ d = c
      <3>1. UNCHANGED records /\ (Recovery(c) => CanRecover(new.target))
        BY <1>2, <2>2 DEF CallGoes
      <3>. QED  BY <1>3, <2>2, <3>1 DEF Sound, SafelySettled, CanRecover, Recovery, records
    <2>3. CASE call[d].pc = "none" /\ d # c
      BY <1>3, <2>3 DEF Sound
    <2>. QED  BY <2>1, <2>2, <2>3
  <1>9. ASSUME NEW d \in Calls, call[d].pc # "none" PROVE Mode(d)' = Mode(d)
    BY <1>3, <1>7, <1>9 DEF Mode, Recovery
  <1>10. ASSUME NEW k \in Children PROVE OnDisk(k)' /\ Stage(k)'
    <2> DEFINE b == child[k]
               n == child'[k]
    <2>1. /\ OnDisk(k) /\ Paced(k) /\ EarlyStage(k) /\ RunningStage(k) /\ LateStage(k) /\ Moded(k) /\ Recorded(k)
          /\ CallOf(k) \in Calls /\ fate'[k] = fate[k] /\ lease'[k] = lease[k]
      BY <1>3, <1>4 DEF Stage
    <2>2. Paced(k)'
      <3>1. CASE CallOf(k) # c
        <4>1. n = b /\ call'[CallOf(k)].pc = call[CallOf(k)].pc
          BY <1>3, <1>6, <2>1, <3>1
        <4>. QED  BY <2>1, <4>1 DEF Paced, CallOf
      <3>2. CASE CallOf(k) = c
        <4>1. k \in TasksOf(c) /\ call'[CallOf(k)].pc = new.pc
          BY <1>3, <1>4, <3>2
        <4>2. DrawnUp(b, c).pc = "queued"
          BY ChildTypes, DrawnUpIs
        <4>. QED  BY <1>2, <1>6, <2>1, <3>2, <4>1, <4>2 DEF CallGoes, Paced, CallOf, records
      <3>. QED  BY <3>1, <3>2
    <2>3. b.pc # "none" => call[CallOf(k)].pc # "none"
      BY <2>1 DEF Paced
    <2>4. CASE n = b /\ kept'[k] = kept[k] /\ disk'[k] = disk[k]
      <3>1. OnDisk(k)'
        BY <2>1, <2>4 DEF OnDisk, Told, Complete, Alarming
      <3>2. EarlyStage(k)' /\ RunningStage(k)' /\ LateStage(k)' /\ Recorded(k)'
        BY <2>1, <2>4 DEF EarlyStage, RunningStage, LateStage, Recorded, Told, Alarming, Housed, Writes
      <3>3. Moded(k)'
        BY <1>9, <2>1, <2>3, <2>4 DEF Moded, CallOf
      <3>. QED  BY <2>2, <3>1, <3>2, <3>3 DEF Stage
    <2>5. CASE b.pc = "queued" /\ n = b /\ kept'[k] \in {kept[k], b.receipt} /\ disk'[k] = b.receipt
      <3>1. /\ b.receipt.result = "none" /\ b.receipt.status \notin Final \cup {"unknown"}
            /\ fate[k] = "none" /\ lease[k] = "none" /\ kept[k].result = "none"
        BY <2>1, <2>5 DEF EarlyStage, Recorded, Early
      <3>2. OnDisk(k)'
        BY <2>1, <2>5, <3>1 DEF OnDisk, Told, Complete, Final
      <3>3. EarlyStage(k)' /\ RunningStage(k)' /\ LateStage(k)' /\ Recorded(k)'
        BY <2>1, <2>5, <3>1 DEF EarlyStage, RunningStage, LateStage, Recorded, Early, Late
      <3>4. Moded(k)'
        BY <1>9, <2>1, <2>3, <2>5 DEF Moded, CallOf
      <3>. QED  BY <2>2, <3>2, <3>3, <3>4 DEF Stage
    <2>6. CASE /\ CallOf(k) = c /\ b.pc = "none" /\ n = DrawnUp(b, c) /\ new.pc = "intent"
               /\ kept'[k] = kept[k] /\ disk'[k] = disk[k]
      <3>1. /\ n.pc = "queued" /\ n.receipt.status = "queued" /\ n.receipt.mode = Mode(c)
            /\ Flags(b, n) /\ n.receipt.ws = b.receipt.ws /\ n.receipt.verified = b.receipt.verified /\ Kept(b, n)
        BY <2>6, ChildTypes, DrawnUpIs
      <3>2. /\ b.receipt.result = "none" /\ ~b.receipt.artifact /\ ~b.started /\ ~b.unsaved
            /\ fate[k] = "none" /\ lease[k] = "none" /\ kept[k].result = "none" /\ disk[k].status \notin Final
            /\ b.receipt.ws = Nowhere /\ ~b.receipt.verified /\ ~b.attempted
        BY <2>1, <2>6 DEF EarlyStage, Recorded, Early
      <3>3. OnDisk(k)'
        BY <2>1, <2>6 DEF OnDisk, Told, Complete, Alarming
      <3>4. EarlyStage(k)' /\ RunningStage(k)' /\ LateStage(k)' /\ Recorded(k)'
        BY <2>1, <2>6, <3>1, <3>2 DEF EarlyStage, RunningStage, LateStage, Recorded, Early, Late, Flags, Kept, Final
      <3>5. Moded(k)'
        <4>1. call[c].pc # "none"
          BY <1>2, <2>6 DEF CallGoes
        <4>. QED  BY <1>9, <2>6, <3>1, <4>1 DEF Moded, CallOf
      <3>. QED  BY <2>2, <3>3, <3>4, <3>5 DEF Stage
    <2>. QED  BY <1>6, <2>4, <2>5, <2>6
  <1>. QED  BY <1>8, <1>10 DEF ReceiptInv

LEMMA ReceiptStep == Typed /\ ReceiptInv /\ [Next]_vars => ReceiptInv'
  <1> SUFFICES ASSUME Typed, ReceiptInv, [Next]_vars PROVE ReceiptInv'
    OBVIOUS
  <1>1. CASE UNCHANGED vars
    BY <1>1 DEF ReceiptInv, vars, poolVars, books, records, workers, OnDisk, Told, Complete, Alarming, Stage,
                Paced, EarlyStage, RunningStage, LateStage, Moded, Mode, Recorded, Housed, Writes, Sound,
                SafelySettled, Recovery
  <1>2. ASSUME NEW k \in Children, ChildStep(k) PROVE ReceiptInv'
    BY <1>2, ChildReceipts
  <1>3. ASSUME NEW c \in Calls, CallChange(c) PROVE ReceiptInv'
    BY <1>3, CallReceipts
  <1>4. CASE CloseAll \/ Closed
    <2>1. UNCHANGED <<books, call, records, workers, host>>
      BY <1>4 DEF CloseAll, Closed
    <2>. QED  BY <2>1 DEF ReceiptInv, books, records, workers, OnDisk, Told, Complete, Alarming, Stage,
                Paced, EarlyStage, RunningStage, LateStage, Moded, Mode, Recorded, Housed, Writes, Sound,
                SafelySettled, Recovery
  <1>5. CASE HostLost
    <2>1. fate' = [j \in Children |-> CASE fate[j] = "alive" -> "doubt" [] fate[j] = "called" -> "none"
                                         [] OTHER -> fate[j]]
      BY <1>5 DEF HostLost
    <2>2. disk' = disk /\ host' = "lost"
      BY <1>5 DEF HostLost
    <2>3. ASSUME NEW k \in Children PROVE OnDisk(k)'
      <3>1. fate'[k] = CASE fate[k] = "alive" -> "doubt" [] fate[k] = "called" -> "none" [] OTHER -> fate[k]
        BY <2>1
      <3>2. OnDisk(k)
        BY DEF ReceiptInv
      <3>3. /\ fate[k] \in {"none", "gone"} => fate'[k] = fate[k]
            /\ fate'[k] \in {"called", "alive", "doubt", "stray"} => fate[k] \in {"called", "alive", "doubt", "stray"}
        BY <3>1
      <3>. QED  BY <2>2, <3>2, <3>3 DEF OnDisk, Told, Complete, Alarming
    <2>. QED  BY <2>2, <2>3 DEF ReceiptInv
  <1>. QED
    BY <1>1, <1>2, <1>3, <1>4, <1>5 DEF Next, DelegationStep, Requests, CallChange

\* What the next start reads of the children of this run is true, and every child that may
\* have done something unseen is in doubt there, its own worktree isolated
\* (refreshChildRecovery, and the catch and the finally of a child).
THEOREM ReceiptsOfChildrenAreTrue == Spec => []ChildReceiptsAreTrue
  <1>1. ReceiptInv => ChildReceiptsAreTrue
    <2> SUFFICES ASSUME ReceiptInv PROVE ChildReceiptsAreTrue
      OBVIOUS
    <2>1. \A k \in Children : Told(disk[k], k) /\ Complete(disk[k])
      BY DEF ReceiptInv, OnDisk
    <2>2. ASSUME NEW k \in Children, fate[k] \in {"doubt", "stray"}
          PROVE  InDoubt(disk[k]) /\ (Kind[CallOf(k)] = "implement" => k \in RecoveryRoots)
      <3>1. Alarming(disk[k], k)
        BY <2>2 DEF ReceiptInv, OnDisk
      <3>. QED  BY <3>1 DEF Alarming, InDoubt, RecoveryRoots
    <2>. QED  BY <2>1, <2>2 DEF ChildReceiptsAreTrue, Told, Complete, Final
  <1>. QED  BY TypedInit, TypedStep, ReceiptInit, ReceiptStep, <1>1, PTL DEF Spec
-----------------------------------------------------------------------------
(* Nobody shares a worktree.                                               *)

\* The worktree a child has, or is to take over.
Place(k) == IF Recovery(CallOf(k)) /\ child[k].pc # "none" THEN child[Target(k)].receipt.ws
            ELSE child[k].receipt.ws
PastIntend(c) == child[<<c, 1>>].pc # "none"

\* A child is recovered by one call, which nobody repeats, and rests from then on.
RecoveredOnce ==
  /\ \A c \in Calls : ~Recovery(c) => call[c].target = NoChild
  /\ \A c \in Calls : Operating(c) /\ Recovery(c) => call[c].target \in recovering
  /\ \A c \in Calls : Recovery(c) /\ call[c].pc \in {"admitted", "verifying"} => call[c].target \notin recovered
  /\ \A c \in Calls : Recovery(c) /\ PastIntend(c) => call[c].target \in recovered
  /\ \A c, d \in Calls : c # d /\ Recovery(c) /\ Recovery(d) /\ call[c].target = call[d].target
                         => ~(Operating(c) /\ Operating(d)) /\ ~(PastIntend(c) /\ PastIntend(d))
  /\ \A c \in Calls : call[c].saved > 0 => PastIntend(c)
  /\ \A k \in recovered : SafelySettled(k)

\* Worktrees are named after the children they were made for, and passed on to one heir.
PlacesApart ==
  /\ \A k \in Children : child[k].receipt.ws \in {Nowhere, Place(k)}
  /\ \A k \in Children : Place(k) # Nowhere => /\ child[Place(k)].receipt.ws = Place(k)
                                               /\ Kind[CallOf(Place(k))] = "implement"
  /\ \A j, k \in Children : j # k /\ Place(j) = Place(k) /\ Place(k) # Nowhere
                            => j \in recovered \/ k \in recovered

\* What the end of the application leaves in memory.
Forgotten ==
  /\ \A c \in Calls : call[c].pc = "none" /\ call[c].saved = 0
  /\ \A k \in Children : child[k] = NotBegun /\ fate[k] # "alive"
  /\ reserved = 0

PlaceInv == /\ host = "up" => RecoveredOnce /\ PlacesApart
            /\ host = "lost" => Forgotten

LEMMA FirstTask == \A c \in Calls : <<c, 1>> \in Children /\ <<c, 1>> \in TasksOf(c) /\ CallOf(<<c, 1>>) = c
  <1>1. \A c \in Calls : 1 \in 1 .. Tasks[c]
    BY PoolConstants
  <1>. QED  BY <1>1, ChildrenAreTasks DEF TasksOf

LEMMA PlaceInit == Init => PlaceInv
  <1> SUFFICES ASSUME Init PROVE PlaceInv
    OBVIOUS
  <1>1. /\ \A c \in Calls : /\ call[c].pc = "none" /\ call[c].saved = 0 /\ call[c].target = NoChild
                            /\ <<c, 1>> \in Children
        /\ \A k \in Children : child[k].pc = "none" /\ child[k].receipt.ws = Nowhere
        /\ recovered = {} /\ host = "up"
    <2>1. /\ call = [c \in Calls |-> NoCall] /\ child = [k \in Children |-> NotBegun]
          /\ recovered = {} /\ host = "up"
      BY DEF Init
    <2>2. /\ NoCall.pc = "none" /\ NoCall.saved = 0 /\ NoCall.target = NoChild
          /\ NotBegun.pc = "none" /\ NotBegun.receipt = NoReceipt /\ NoReceipt.ws = Nowhere
      BY DEF NoCall, NotBegun, NoReceipt
    <2>. QED  BY <2>1, <2>2, FirstTask
  <1>4. ASSUME NEW c \in Calls PROVE ~Operating(c) /\ ~PastIntend(c) /\ ~(call[c].saved > 0)
    <2>3. call[c].pc = "none" /\ call[c].saved = 0 /\ <<c, 1>> \in Children
      BY <1>1
    <2>1. child[<<c, 1>>].pc = "none" /\ call[c].pc = "none"
      BY <1>1, <2>3
    <2>2. ~(call[c].saved > 0)
      BY <2>3
    <2>. QED  BY <2>1, <2>2 DEF Operating, PastIntend
  <1>2. RecoveredOnce
    BY <1>1, <1>4 DEF RecoveredOnce
  <1>3. PlacesApart
    BY <1>1 DEF PlacesApart, Place
  <1>. QED  BY <1>1, <1>2, <1>3 DEF PlaceInv

\* Who is recovered has been recorded, for good.
LEMMA RecoveredRest ==
  ASSUME Typed, ReceiptInv, host = "up", NEW k \in Children, SafelySettled(k)
  PROVE  /\ child[k].pc \in {"releasing", "over"} /\ fate[k] \in {"none", "gone"} /\ lease[k] = "none"
         /\ kept[k].ws = child[k].receipt.ws
  <1>1. Recorded(k)
    BY DEF ReceiptInv, Stage
  <1>2. kept[k].status \in Final /\ kept[k].result # "none"
    BY DEF SafelySettled, Final
  <1>. QED  BY <1>1, <1>2 DEF Recorded, Told

\* A child's receipt is given a worktree in two places: when it takes over the worktree of
\* the child it recovers, and when its own is named.
LEMMA WorktreeIs ==
  ASSUME Typed, ReceiptInv, NEW k \in Children, ChildStep(k)
  PROVE  LET b == child[k]
             n == child'[k] IN
         /\ b.pc # "none" /\ n.pc # "none"
         /\ \/ n.receipt.ws = b.receipt.ws
            \/ Recovery(CallOf(k)) /\ b.receipt.ws = Nowhere /\ n.receipt.ws = Place(k)
            \/ Kind[CallOf(k)] = "implement" /\ n.receipt.ws = k
  <1> DEFINE b == child[k]
             n == child'[k]
  <1>1. /\ host = "up" /\ Stage(k) /\ CallOf(k) \in Calls /\ call[CallOf(k)].pc = "children" /\ child[k].pc # "none"
    BY OwnMode
  <1>2. child'[k].pc # "none"
    <2>1. call'[CallOf(k)].pc = "children"
      BY <1>1, ChildStepsAreApart DEF OneChild
    <2>. QED  BY <2>1, OwnPace DEF Paced, CallOf
  <1>3. \A e : FailedFrom(b, n, e) => n.receipt.ws = b.receipt.ws
    BY DEF FailedFrom, Kin
  <1>4. CASE Admitted(k)
    <2>1. b.pc = "queued" /\ n.receipt.ws = IF Recovery(CallOf(k)) THEN kept[Target(k)].ws ELSE Nowhere
      BY <1>4, AdmittedIs DEF At
    <2>2. b.receipt.ws = Nowhere
      BY <1>1, <2>1 DEF Stage, EarlyStage, Early
    <2>3. Recovery(CallOf(k)) => kept[Target(k)].ws = Place(k)
      BY <1>1, TargetsRest DEF Target, Place
    <2>. QED  BY <1>1, <1>2, <2>1, <2>2, <2>3
  <1>5. CASE Checked(k)
    BY <1>1, <1>2, <1>5, CheckedIs
  <1>6. CASE Created(k)
    BY <1>1, <1>2, <1>6, CreatedIs
  <1>7. CASE Launched(k)
    BY <1>1, <1>2, <1>7, LaunchedIs DEF Kin
  <1>8. CASE Throw(k)
    BY <1>1, <1>2, <1>3, <1>8, ThrowIs
  <1>9. CASE Start(k)
    BY <1>1, <1>2, <1>9, StartIs
  <1>10. CASE StartUnsaved(k)
    BY <1>1, <1>2, <1>10, StartUnsavedIs
  <1>11. CASE Works(k)
    BY <1>1, <1>2, <1>11, WorksIs
  <1>12. CASE Returns(k)
    BY <1>1, <1>2, <1>12, ReturnsIs DEF Kin
  <1>13. CASE LeaseStays(k) \/ Rejects(k) \/ StartRefused(k) \/ Unclean(k)
    BY <1>1, <1>2, <1>3, <1>13, CutOffIs
  <1>14. CASE Evidence(k)
    BY <1>1, <1>2, <1>14, EvidenceIs DEF Kin
  <1>15. CASE Record(k)
    BY <1>1, <1>2, <1>15, RecordIs DEF Kin
  <1>16. CASE Leave(k)
    BY <1>1, <1>2, <1>16, LeaveIs DEF Kin
  <1>. QED
    BY <1>4, <1>5, <1>6, <1>7, <1>8, <1>9, <1>10, <1>11, <1>12, <1>13, <1>14, <1>15, <1>16 DEF ChildStep

\* Who is recovered once is not recovered again while a child goes on ...
LEMMA ChildRecovery ==
  ASSUME Typed, ReceiptInv, PlaceInv, NEW k \in Children, ChildStep(k)
  PROVE  RecoveredOnce'
  <1>1. /\ host = "up" /\ recovering' = recovering /\ recovered' = recovered /\ recovered \subseteq Children
        /\ settled \subseteq settled' /\ \A j \in Children : j # k => child'[j] = child[j] /\ kept'[j] = kept[j]
        /\ \A c \in Calls : /\ call'[c].pc = call[c].pc /\ call'[c].target = call[c].target
                            /\ call'[c].saved = call[c].saved
    <2>1. OneChild(k)
      BY ChildStepsAreApart
    <2>2. recovered \subseteq Children
      BY DEF Typed
    <2>. QED  BY <2>1, <2>2 DEF OneChild, Aside
  <1>2. child[k].pc # "none" /\ child'[k].pc # "none"
    BY WorktreeIs
  <1>3. ASSUME NEW c \in Calls PROVE child'[<<c, 1>>].pc = "none" <=> child[<<c, 1>>].pc = "none"
    BY <1>1, <1>2, FirstTask
  <1>4. RecoveredOnce
    BY <1>1 DEF PlaceInv
  <1>5. ASSUME NEW j \in recovered PROVE SafelySettled(j)'
    <2>1. SafelySettled(j) /\ j \in Children
      BY <1>1, <1>4 DEF RecoveredOnce
    <2>2. kept'[j] = kept[j]
      BY <1>1, <2>1, RecoveredRest, RecordsRest
    <2>. QED  BY <1>1, <2>1, <2>2 DEF SafelySettled
  <1>6. /\ \A c \in Calls : ~Recovery(c) => call'[c].target = NoChild
        /\ \A c \in Calls : Operating(c)' /\ Recovery(c) => call'[c].target \in recovering'
        /\ \A c \in Calls : Recovery(c) /\ call'[c].pc \in {"admitted", "verifying"} => call'[c].target \notin recovered'
        /\ \A c \in Calls : Recovery(c) /\ PastIntend(c)' => call'[c].target \in recovered'
        /\ \A c \in Calls : call'[c].saved > 0 => PastIntend(c)'
    BY <1>1, <1>3, <1>4 DEF RecoveredOnce, Operating, PastIntend
  <1>7. ASSUME NEW c \in Calls, NEW d \in Calls, c # d, Recovery(c), Recovery(d), call'[c].target = call'[d].target
        PROVE  ~(Operating(c)' /\ Operating(d)') /\ ~(PastIntend(c)' /\ PastIntend(d)')
    BY <1>1, <1>3, <1>4, <1>7 DEF RecoveredOnce, Operating, PastIntend
  <1>. QED  BY <1>1, <1>5, <1>6, <1>7 DEF RecoveredOnce, Recovery

\* ... and its worktree is its own.
LEMMA ChildPlaces ==
  ASSUME Typed, ReceiptInv, PlaceInv, NEW k \in Children, ChildStep(k)
  PROVE  PlacesApart'
  <1>1. /\ host = "up" /\ recovered' = recovered /\ k # Nowhere
        /\ \A j \in Children : j # k => child'[j] = child[j]
        /\ \A c \in Calls : call'[c].pc = call[c].pc /\ call'[c].target = call[c].target
        /\ \A j \in Children : CallOf(j) \in Calls /\ j # Nowhere
    BY ChildStepsAreApart, ChildrenAreTasks DEF OneChild, Aside
  <1>2. PlacesApart /\ Stage(k)
    BY <1>1 DEF PlaceInv, ReceiptInv
  <1>3. /\ child[k].pc # "none" /\ child'[k].pc # "none"
        /\ \/ child'[k].receipt.ws = child[k].receipt.ws
           \/ /\ Recovery(CallOf(k)) /\ child[k].receipt.ws = Nowhere
              /\ child'[k].receipt.ws = Place(k)
           \/ Kind[CallOf(k)] = "implement" /\ child'[k].receipt.ws = k
    BY WorktreeIs
  <1>4. ASSUME NEW j \in Children, Recovery(CallOf(j)), child[j].pc # "none"
        PROVE  /\ Target(j) \in Children /\ child'[Target(j)].receipt.ws = child[Target(j)].receipt.ws
               /\ Target(j)' = Target(j)
    <2>1. call[CallOf(j)].pc # "none"
      BY <1>1, <1>4 DEF ReceiptInv, Stage, Paced
    <2>2. Target(j) \in Children /\ child[Target(j)].pc \in {"releasing", "over"}
      BY <1>1, <1>4, <2>1, TargetsRest DEF Target
    <2>3. Target(j) = k => child'[k].receipt.ws = child[k].receipt.ws
      BY <2>2, RecordsRest DEF Kin
    <2>. QED  BY <1>1, <2>2, <2>3 DEF Target, CallOf
  <1>5. ASSUME NEW j \in Children, j # k \/ Recovery(CallOf(k))
        PROVE  Place(j)' = Place(j)
    <2>1. child'[j].pc = "none" <=> child[j].pc = "none"
      BY <1>1, <1>3
    <2>2. CASE Recovery(CallOf(j)) /\ child[j].pc # "none"
      BY <1>4, <2>1, <2>2 DEF Place, Recovery, CallOf
    <2>3. CASE ~(Recovery(CallOf(j)) /\ child[j].pc # "none")
      BY <1>1, <1>3, <1>5, <2>1, <2>3 DEF Place, Recovery, CallOf
    <2>. QED  BY <2>2, <2>3
  <1>6. ~Recovery(CallOf(k)) => Place(k) = child[k].receipt.ws /\ Place(k)' = child'[k].receipt.ws
    BY DEF Place, Recovery, CallOf
  <1>7. CASE child'[k].receipt.ws = child[k].receipt.ws
    <2>1. \A j \in Children : Place(j)' = Place(j) /\ child'[j].receipt.ws = child[j].receipt.ws
      BY <1>1, <1>5, <1>6, <1>7
    <2>2. \A j \in Children : Place(j) # Nowhere => Place(j) \in Children
      BY <1>4, ChildTypes DEF Place
    <2>. QED  BY <1>1, <1>2, <2>1, <2>2 DEF PlacesApart, CallOf
  <1>8. CASE Recovery(CallOf(k)) /\ child[k].receipt.ws = Nowhere /\ child'[k].receipt.ws = Place(k)
    <2>1. \A j \in Children : Place(j)' = Place(j)
      BY <1>5, <1>8
    <2>2. \A j \in Children : Place(j) # Nowhere => Place(j) \in Children /\ Place(j) # k
      BY <1>2, <1>4, <1>8, ChildTypes DEF Place, PlacesApart
    <2>. QED  BY <1>1, <1>2, <1>8, <2>1, <2>2 DEF PlacesApart, CallOf
  <1>9. CASE Kind[CallOf(k)] = "implement" /\ child'[k].receipt.ws = k
    <2>1. ~Recovery(CallOf(k)) /\ Place(k) = child[k].receipt.ws /\ Place(k)' = k
      BY <1>6, <1>9 DEF Recovery
    <2>2. \A j \in Children : j # k => Place(j)' = Place(j)
      BY <1>5
    <2>3. \A j \in Children : Place(j) # Nowhere => Place(j) \in Children
      BY <1>4, ChildTypes DEF Place
    <2>4. \A j \in Children : child'[j].receipt.ws \in {Nowhere, Place(j)'}
      BY <1>1, <1>2, <1>9, <2>1, <2>2 DEF PlacesApart
    <2>5. \A j \in Children : Place(j)' # Nowhere => /\ child'[Place(j)'].receipt.ws = Place(j)'
                                                     /\ Kind[CallOf(Place(j)')] = "implement"
      BY <1>1, <1>2, <1>9, <2>1, <2>2, <2>3 DEF PlacesApart
    <2>6. ASSUME NEW i \in Children, NEW j \in Children, i # j, Place(i)' = Place(j)', Place(j)' # Nowhere
          PROVE  i \in recovered \/ j \in recovered
      <3>1. CASE i # k /\ j # k
        BY <1>2, <2>2, <2>6, <3>1 DEF PlacesApart
      <3>2. CASE i = k
        <4>1. Place(j) = k /\ k # Nowhere
          BY <1>1, <2>1, <2>2, <2>6, <3>2
        <4>2. child[k].receipt.ws = k
          BY <1>2, <4>1 DEF PlacesApart
        <4>. QED  BY <1>1, <1>2, <2>1, <2>6, <3>2, <4>1, <4>2 DEF PlacesApart
      <3>3. CASE j = k
        <4>1. Place(i) = k /\ k # Nowhere
          BY <1>1, <2>1, <2>2, <2>6, <3>3
        <4>2. child[k].receipt.ws = k
          BY <1>2, <4>1 DEF PlacesApart
        <4>. QED  BY <1>1, <1>2, <2>1, <2>6, <3>3, <4>1, <4>2 DEF PlacesApart
      <3>. QED  BY <3>1, <3>2, <3>3
    <2>. QED  BY <1>1, <2>4, <2>5, <2>6 DEF PlacesApart, CallOf
  <1>. QED  BY <1>3, <1>7, <1>8, <1>9

\* What a step of a call makes of the sets and counts that all calls share.
CallCounts(c, new) ==
  \/ Execute(c) /\ new.pc = "admitted" /\ new.left = Tasks[c] /\ new.saved = call[c].saved
  \/ Drain(c) /\ new.pc = "over" /\ new.saved = call[c].saved
  \/ Intend(c) /\ new.pc = "intent" /\ new.left = call[c].left /\ new.saved = call[c].saved
  \/ /\ SaveIntent(c) /\ new.pc \in {"intent", "children"} /\ new.left = call[c].left
  \/ /\ UNCHANGED <<recovering, recovered, reserved>> /\ pool' \in {pool, Halted(pool)}
     /\ new.left = call[c].left /\ new.saved = call[c].saved
     /\ \/ /\ call[c].pc = "none" /\ new.pc = "prepared" /\ pool' = pool
           /\ ~Recovery(c) => new.target = NoChild
        \/ call[c].pc = "prepared" /\ new.pc = "over" /\ pool' = pool
        \/ call[c].pc = "admitted" /\ new.pc = "verifying"
        \/ call[c].pc \in {"admitted", "verifying", "intent", "children"} /\ new.pc = "draining"

LEMMA CallCountsOn ==
  ASSUME Typed, NEW c \in Calls, CallChange(c), NEW new, OneCall(c, new)
  PROVE  CallCounts(c, new)
  <1>1. call \in [Calls -> CallRecords] /\ call' = [call EXCEPT ![c] = new] /\ call'[c] = new
    BY DEF Typed, OneCall
  <1>2. call[c] \in CallRecords
    BY <1>1
  <1> DEFINE d == call[c]
  <1>5. CASE Prepare(c)
    <2>1. PICK k \in Children \cup {NoChild} :
            /\ IF Kind[c] = "recover" THEN k # NoChild /\ CanRecover(k) ELSE k = NoChild
            /\ call' = [call EXCEPT ![c].pc = "prepared", ![c].target = k]
      BY <1>5 DEF Prepare
    <2>2. new.pc = "prepared" /\ new.target = k /\ new.left = d.left /\ new.saved = d.saved
      BY <1>1, <1>2, <2>1 DEF CallRecords
    <2>. QED  BY <1>5, <2>1, <2>2 DEF Prepare, CallCounts, Recovery, books, poolVars
  <1>6. CASE Refuse(c)
    <2>1. new.pc = "over" /\ new.left = d.left /\ new.saved = d.saved
      BY <1>1, <1>2, <1>6 DEF Refuse, CallRecords
    <2>. QED  BY <1>6, <2>1 DEF Refuse, CallCounts, books, poolVars
  <1>7. CASE Execute(c)
    <2>1. new.pc = "admitted" /\ new.left = Tasks[c] /\ new.saved = d.saved
      BY <1>1, <1>2, <1>7 DEF Execute, CallRecords
    <2>. QED  BY <1>7, <2>1 DEF CallCounts
  <1>8. CASE Check(c)
    <2>1. new.pc = "verifying" /\ new.left = d.left /\ new.saved = d.saved
      BY <1>1, <1>2, <1>8 DEF Check, CallRecords
    <2>. QED  BY <1>8, <2>1 DEF Check, CallCounts, books, poolVars
  <1>9. CASE Abandon(c)
    <2>1. new.pc = "draining" /\ new.left = d.left /\ new.saved = d.saved
      BY <1>1, <1>2, <1>9 DEF Abandon, CallRecords
    <2>. QED  BY <1>9, <2>1 DEF Abandon, CallCounts, books, poolVars
  <1>10. CASE Intend(c)
    <2>1. new.pc = "intent" /\ new.left = d.left /\ new.saved = d.saved
      BY <1>1, <1>2, <1>10 DEF Intend, CallRecords
    <2>. QED  BY <1>10, <2>1 DEF CallCounts
  <1>11. CASE SaveIntent(c)
    <2>1. /\ call[c].pc = "intent"
          /\ call' = [call EXCEPT ![c].saved = @ + 1,
                                  ![c].pc = IF call[c].saved + 1 = Tasks[c] THEN "children" ELSE @]
      BY <1>11 DEF SaveIntent
    <2>2. new.pc \in {"intent", "children"} /\ new.left = d.left
      BY <1>1, <1>2, <2>1 DEF CallRecords
    <2>. QED  BY <1>11, <2>2 DEF CallCounts
  <1>12. CASE IntentLost(c)
    <2>1. /\ d.pc = "intent" /\ UNCHANGED books /\ HaltIf(TRUE)
          /\ call' = [call EXCEPT ![c].pc = "draining", ![c].result = "unknown"]
      BY <1>12 DEF IntentLost
    <2>2. new.pc = "draining" /\ new.left = d.left /\ new.saved = d.saved
      BY <1>1, <1>2, <2>1 DEF CallRecords
    <2>3. pool' = Halted(pool)
      BY <2>1 DEF HaltIf
    <2>. QED  BY <2>1, <2>2, <2>3 DEF CallCounts, books
  <1>13. CASE Answer(c)
    <2>1. new.pc = "draining" /\ new.left = d.left /\ new.saved = d.saved
      BY <1>1, <1>2, <1>13 DEF Answer, CallRecords
    <2>. QED  BY <1>13, <2>1 DEF Answer, CallCounts, books, poolVars
  <1>14. CASE Drain(c)
    <2>1. new.pc = "over" /\ new.saved = d.saved
      BY <1>1, <1>2, <1>14 DEF Drain, CallRecords
    <2>. QED  BY <1>14, <2>1 DEF CallCounts
  <1>. QED
    BY <1>5, <1>6, <1>7, <1>8, <1>9, <1>10, <1>11, <1>12, <1>13, <1>14 DEF CallChange, CallStep

\* What a step of a call changes in general.
CallFrame(c, new) ==
  /\ call'[c] = new /\ \A d \in Calls \ {c} : call'[d] = call[d]
  /\ host = "up" /\ host' = "up" /\ settled' = settled /\ fate' = fate /\ lease' = lease
  /\ call[c].pc # "none" => new.target = call[c].target
  /\ \A k \in Children : /\ child'[k].receipt.ws = child[k].receipt.ws
                         /\ \/ child'[k] = child[k]
                            \/ Intend(c) /\ CallOf(k) = c /\ child[k].pc = "none" /\ child'[k].pc = "queued"
                         /\ SafelySettled(k) => kept'[k] = kept[k]
LEMMA CallFrameIs ==
  ASSUME Typed, ReceiptInv, NEW c \in Calls, CallChange(c), NEW new, OneCall(c, new)
  PROVE  CallFrame(c, new)
  <1>1. CallGoes(c, new)
    BY CallGoesOn
  <1>2. /\ call'[c] = new /\ \A d \in Calls \ {c} : call'[d] = call[d]
        /\ host = "up" /\ host' = "up" /\ settled' = settled /\ fate' = fate /\ lease' = lease
        /\ call[c].pc # "none" => new.target = call[c].target
    BY DEF Typed, OneCall, workers
  <1>3. \A k \in Children : Stage(k)
    BY <1>2 DEF ReceiptInv
  <1>4. ASSUME NEW k \in Children
        PROVE  /\ child'[k].receipt.ws = child[k].receipt.ws
               /\ \/ child'[k] = child[k]
                  \/ Intend(c) /\ CallOf(k) = c /\ child[k].pc = "none" /\ child'[k].pc = "queued"
    <2>1. CASE Intend(c)
      <3>1. call[c].pc = "verifying" /\ child'[k] = IF CallOf(k) = c THEN DrawnUp(child[k], c) ELSE child[k]
        BY <2>1 DEF Intend
      <3>2. CallOf(k) = c => child[k].pc = "none"
        BY <1>3, <3>1 DEF Stage, Paced
      <3>3. LET n == DrawnUp(child[k], c) IN n.pc = "queued" /\ n.receipt.ws = child[k].receipt.ws
        BY ChildTypes, DrawnUpIs
      <3>. QED  BY <2>1, <3>1, <3>2, <3>3
    <2>2. CASE ~Intend(c)
      <3>1. child' = child
        BY <2>2 DEF CallChange, CallStep, Prepare, Refuse, Execute, Check, Abandon, SaveIntent,
                    IntentLost, Answer, Drain, records
      <3>. QED  BY <3>1
    <2>. QED  BY <2>1, <2>2
  <1>5. ASSUME NEW k \in Children, SafelySettled(k) PROVE kept'[k] = kept[k]
    <2>1. child[k].pc \in {"releasing", "over"} /\ kept \in [Children -> Receipts]
      BY <1>2, <1>5, RecoveredRest DEF Typed
    <2>2. call[c].pc = "intent" => k \notin TasksOf(c)
      BY <1>3, <2>1 DEF Stage, Paced, TasksOf
    <2>. QED  BY <1>1, <2>1, <2>2 DEF CallGoes, records
  <1>. QED  BY <1>2, <1>4, <1>5 DEF CallFrame

LEMMA CallRecovery ==
  ASSUME Typed, ReceiptInv, PlaceInv, NEW c \in Calls, CallChange(c)
  PROVE  RecoveredOnce'
  <1>1. PICK new : OneCall(c, new)
    BY CallStepsAreApart
  <1>2. CallFrame(c, new) /\ CallCounts(c, new)
    BY <1>1, CallFrameIs, CallCountsOn
  <1>3. RecoveredOnce /\ recovered \subseteq Children
    BY <1>2 DEF PlaceInv, CallFrame, Typed
  <1> DEFINE t == call[c].target
  <1>4. /\ \A d \in Calls \ {c} : call'[d] = call[d] /\ (PastIntend(d)' <=> PastIntend(d))
        /\ call'[c] = new /\ (call[c].pc # "none" => new.target = t)
        /\ PastIntend(c)' <=> PastIntend(c) \/ Intend(c)
    <2>1. ASSUME NEW d \in Calls
          PROVE  child'[<<d, 1>>].pc = "none" <=> child[<<d, 1>>].pc = "none" /\ ~(d = c /\ Intend(c))
      <3>1. <<d, 1>> \in Children /\ CallOf(<<d, 1>>) = d
        BY FirstTask
      <3>2. Intend(c) /\ d = c => child'[<<d, 1>>].pc = "queued"
        <4>1. ASSUME Intend(c), d = c PROVE child'[<<d, 1>>].pc = "queued"
          <5>1. child'[<<d, 1>>] = DrawnUp(child[<<d, 1>>], c)
            BY <3>1, <4>1 DEF Intend
          <5>. QED  BY <3>1, <5>1, ChildTypes, DrawnUpIs
        <4>. QED  BY <4>1
      <3>. QED  BY <1>2, <3>1, <3>2 DEF CallFrame
    <2>. QED  BY <1>2, <2>1 DEF CallFrame, PastIntend
  \* everyone who is recovered stays as it is; a new one is as the call was told
  <1>5. ASSUME NEW k \in Children, SafelySettled(k) PROVE SafelySettled(k)'
    BY <1>2, <1>5 DEF CallFrame, SafelySettled
  <1>6. call[c].pc = "none" => ~PastIntend(c)
    <2>1. <<c, 1>> \in Children /\ CallOf(<<c, 1>>) = c
      BY FirstTask
    <2>2. Paced(<<c, 1>>)
      BY <1>2, <2>1 DEF ReceiptInv, Stage, CallFrame
    <2>3. child[<<c, 1>>].pc \in Early \cup {"running"} \cup Late
      BY <2>1, ChildTypes
    <2>. QED  BY <2>1, <2>2, <2>3 DEF Paced, PastIntend, Early, Late
  <1>7. call[c].pc = "intent" => PastIntend(c)
    <2>1. <<c, 1>> \in Children /\ CallOf(<<c, 1>>) = c
      BY FirstTask
    <2>2. Paced(<<c, 1>>)
      BY <1>2, <2>1 DEF ReceiptInv, Stage, CallFrame
    <2>. QED  BY <2>1, <2>2 DEF Paced, PastIntend
  <1>8. ~Recovery(c) => new.target = NoChild
    <2>1. CASE call[c].pc = "none"
      BY <1>2, <2>1 DEF CallCounts, Execute, Drain, Intend, SaveIntent
    <2>2. CASE call[c].pc # "none"
      BY <1>3, <1>4, <2>2 DEF RecoveredOnce
    <2>. QED  BY <2>1, <2>2
  <1>9. CASE Execute(c)
    <2>1. /\ call[c].pc = "prepared" /\ ~Repeated(c) /\ new.pc = "admitted" /\ new.saved = call[c].saved
          /\ recovering' = (IF Recovery(c) THEN recovering \cup {t} ELSE recovering) /\ recovered' = recovered
      <3>1. /\ call[c].pc = "prepared" /\ ~Repeated(c)
            /\ recovering' = (IF Recovery(c) THEN recovering \cup {t} ELSE recovering) /\ recovered' = recovered
        BY <1>9 DEF Execute
      <3>2. /\ call \in [Calls -> CallRecords] /\ call'[c] = new
            /\ call' = [call EXCEPT ![c].pc = "admitted", ![c].left = Tasks[c]]
        BY <1>1, <1>9 DEF Execute, Typed, OneCall
      <3>3. new.pc = "admitted" /\ new.saved = call[c].saved
        BY <3>2 DEF CallRecords
      <3>. QED  BY <3>1, <3>3
    <2>2. ~Intend(c)
      BY <2>1 DEF Intend
    <2>3. Recovery(c) => t \notin recovering \cup recovered
      BY <2>1 DEF Repeated
    <2>4. ASSUME NEW d \in Calls, NEW e \in Calls, d # e, Recovery(d), Recovery(e), call'[d].target = call'[e].target
          PROVE  ~(Operating(d)' /\ Operating(e)') /\ ~(PastIntend(d)' /\ PastIntend(e)')
      BY <1>3, <1>4, <2>1, <2>2, <2>3, <2>4 DEF RecoveredOnce, Operating
    <2>5. /\ \A d \in Calls : ~Recovery(d) => call'[d].target = NoChild
          /\ \A d \in Calls : Operating(d)' /\ Recovery(d) => call'[d].target \in recovering'
          /\ \A d \in Calls : Recovery(d) /\ call'[d].pc \in {"admitted", "verifying"} => call'[d].target \notin recovered'
          /\ \A d \in Calls : Recovery(d) /\ PastIntend(d)' => call'[d].target \in recovered'
          /\ \A d \in Calls : call'[d].saved > 0 => PastIntend(d)'
      BY <1>3, <1>4, <1>8, <2>1, <2>2, <2>3 DEF RecoveredOnce, Operating
    <2>. QED  BY <1>3, <1>5, <2>1, <2>4, <2>5 DEF RecoveredOnce, Recovery
  <1>10. CASE Drain(c)
    <2>1. /\ call[c].pc = "draining" /\ new.pc = "over" /\ new.saved = call[c].saved
          /\ recovering' = recovering \ {t} /\ recovered' = recovered
      <3>1. /\ call[c].pc = "draining" /\ recovering' = recovering \ {t} /\ recovered' = recovered
        BY <1>10 DEF Drain
      <3>2. new.pc = "over" /\ new.saved = call[c].saved
        BY <1>2, <3>1 DEF CallCounts, Execute, Intend, SaveIntent
      <3>. QED  BY <3>1, <3>2
    <2>2. ~Intend(c)
      BY <2>1 DEF Intend
    <2>3. ASSUME NEW d \in Calls, d # c, Operating(d), Recovery(d) PROVE call[d].target # t
      <3>1. call[d].target \in Children /\ call[d].target # NoChild
        BY <2>3, ChildrenAreTasks DEF Typed, Operating, NoChild, Nowhere
      <3>2. Operating(c)
        BY <2>1 DEF Operating
      <3>. QED  BY <1>3, <2>3, <3>1, <3>2 DEF RecoveredOnce
    <2>4. ASSUME NEW d \in Calls, NEW e \in Calls, d # e, Recovery(d), Recovery(e), call'[d].target = call'[e].target
          PROVE  ~(Operating(d)' /\ Operating(e)') /\ ~(PastIntend(d)' /\ PastIntend(e)')
      BY <1>3, <1>4, <2>1, <2>2, <2>4 DEF RecoveredOnce, Operating
    <2>5. /\ \A d \in Calls : ~Recovery(d) => call'[d].target = NoChild
          /\ \A d \in Calls : Operating(d)' /\ Recovery(d) => call'[d].target \in recovering'
          /\ \A d \in Calls : Recovery(d) /\ call'[d].pc \in {"admitted", "verifying"} => call'[d].target \notin recovered'
          /\ \A d \in Calls : Recovery(d) /\ PastIntend(d)' => call'[d].target \in recovered'
          /\ \A d \in Calls : call'[d].saved > 0 => PastIntend(d)'
      BY <1>3, <1>4, <1>8, <2>1, <2>2, <2>3 DEF RecoveredOnce, Operating
    <2>. QED  BY <1>3, <1>5, <2>1, <2>4, <2>5 DEF RecoveredOnce, Recovery
  <1>11. CASE Intend(c)
    <2>1. /\ call[c].pc = "verifying" /\ new.pc = "intent" /\ new.saved = call[c].saved
          /\ recovered' = (IF Recovery(c) THEN recovered \cup {t} ELSE recovered) /\ recovering' = recovering
      <3>1. /\ call[c].pc = "verifying" /\ recovering' = recovering
            /\ recovered' = (IF Recovery(c) THEN recovered \cup {t} ELSE recovered)
        BY <1>11 DEF Intend
      <3>2. /\ call \in [Calls -> CallRecords] /\ call'[c] = new
            /\ call' = [call EXCEPT ![c].pc = "intent"]
        BY <1>1, <1>11 DEF Intend, Typed, OneCall
      <3>3. new.pc = "intent" /\ new.saved = call[c].saved
        BY <3>2 DEF CallRecords
      <3>. QED  BY <3>1, <3>3
    <2>2. Recovery(c) => t \notin recovered /\ SafelySettled(t) /\ t \in Children
      BY <1>2, <1>3, <2>1 DEF RecoveredOnce, ReceiptInv, Sound, CallFrame, Typed
    <2>3. Operating(c)
      BY <2>1 DEF Operating
    <2>4. ASSUME NEW d \in Calls, NEW e \in Calls, d # e, Recovery(d), Recovery(e), call'[d].target = call'[e].target
          PROVE  ~(Operating(d)' /\ Operating(e)') /\ ~(PastIntend(d)' /\ PastIntend(e)')
      BY <1>3, <1>4, <2>1, <2>2, <2>3, <2>4 DEF RecoveredOnce, Operating
    <2>5. /\ \A d \in Calls : ~Recovery(d) => call'[d].target = NoChild
          /\ \A d \in Calls : Operating(d)' /\ Recovery(d) => call'[d].target \in recovering'
          /\ \A d \in Calls : Recovery(d) /\ PastIntend(d)' => call'[d].target \in recovered'
          /\ \A d \in Calls : call'[d].saved > 0 => PastIntend(d)'
      BY <1>3, <1>4, <1>8, <1>11, <2>1, <2>2, <2>3 DEF RecoveredOnce, Operating
    <2>6. ASSUME NEW d \in Calls, Recovery(d), call'[d].pc \in {"admitted", "verifying"}
          PROVE  call'[d].target \notin recovered'
      <3>1. d # c /\ call'[d] = call[d] /\ Operating(d)
        BY <1>4, <2>1, <2>6 DEF Operating
      <3>2. call[d].target \notin recovered
        BY <1>3, <2>6, <3>1 DEF RecoveredOnce
      <3>3. Recovery(c) => call[d].target # t
        BY <1>3, <2>3, <2>6, <3>1 DEF RecoveredOnce
      <3>. QED  BY <2>1, <3>1, <3>2, <3>3
    <2>7. ASSUME NEW k \in recovered' PROVE SafelySettled(k)'
      <3>1. SafelySettled(k) /\ k \in Children
        BY <1>3, <2>1, <2>2, <2>7 DEF RecoveredOnce
      <3>. QED  BY <1>5, <3>1
    <2>. QED  BY <2>4, <2>5, <2>6, <2>7 DEF RecoveredOnce, Recovery
  <1>12. CASE ~Execute(c) /\ ~Drain(c) /\ ~Intend(c)
    <2>1. /\ recovering' = recovering /\ recovered' = recovered
          /\ Operating(c)' => Operating(c)
          /\ new.pc \in {"admitted", "verifying"} => call[c].pc \in {"admitted", "verifying"}
          /\ new.saved > 0 => call[c].saved > 0 \/ call[c].pc = "intent"
          /\ Operating(c)' \/ PastIntend(c) => call[c].pc # "none"
      BY <1>2, <1>4, <1>6, <1>12 DEF CallCounts, SaveIntent, Operating, books
    <2>2. PastIntend(c)' <=> PastIntend(c)
      BY <1>4, <1>12
    <2>4. ASSUME NEW d \in Calls, NEW e \in Calls, d # e, Recovery(d), Recovery(e), call'[d].target = call'[e].target
          PROVE  ~(Operating(d)' /\ Operating(e)') /\ ~(PastIntend(d)' /\ PastIntend(e)')
      BY <1>3, <1>4, <1>6, <2>1, <2>2, <2>4 DEF RecoveredOnce, Operating
    <2>5. /\ \A d \in Calls : ~Recovery(d) => call'[d].target = NoChild
          /\ \A d \in Calls : Operating(d)' /\ Recovery(d) => call'[d].target \in recovering'
          /\ \A d \in Calls : Recovery(d) /\ PastIntend(d)' => call'[d].target \in recovered'
          /\ \A d \in Calls : call'[d].saved > 0 => PastIntend(d)'
      BY <1>3, <1>4, <1>6, <1>7, <1>8, <2>1, <2>2 DEF RecoveredOnce, Operating
    <2>6. ASSUME NEW d \in Calls, Recovery(d), call'[d].pc \in {"admitted", "verifying"}
          PROVE  call'[d].target \notin recovered'
      BY <1>3, <1>4, <2>1, <2>6 DEF RecoveredOnce
    <2>. QED  BY <1>3, <1>5, <2>1, <2>4, <2>5, <2>6 DEF RecoveredOnce, Recovery
  <1>. QED  BY <1>9, <1>10, <1>11, <1>12

\* A call that recovers passes the worktree on to its only child; the worktrees of everyone
\* else stay as they are.
LEMMA CallPlaces ==
  ASSUME Typed, ReceiptInv, PlaceInv, NEW c \in Calls, CallChange(c)
  PROVE  PlacesApart'
  <1>1. PICK new : OneCall(c, new)
    BY CallStepsAreApart
  <1>2. CallFrame(c, new)
    BY <1>1, CallFrameIs
  <1>3. RecoveredOnce /\ PlacesApart /\ host = "up"
    BY <1>2 DEF PlaceInv, CallFrame
  <1> DEFINE t == call[c].target
             Heir(j) == /\ Intend(c) /\ Recovery(c) /\ CallOf(j) = c /\ t \in Children
                        /\ child[j].receipt.ws = Nowhere /\ Place(j)' = child[t].receipt.ws
  <1>4. \A j \in Children : /\ child'[j].receipt.ws = child[j].receipt.ws
                            /\ child[j].receipt.ws \in Children \cup {Nowhere}
                            /\ CallOf(j) \in Calls /\ Stage(j)
    BY <1>2, <1>3, ChildTypes, ChildrenAreTasks DEF CallFrame, ReceiptInv
  <1>5. \A d \in Calls : /\ call[d].pc # "none" => call'[d].target = call[d].target
                         /\ Recovery(d) /\ call[d].pc # "none" => call[d].target \in Children
    BY <1>2 DEF CallFrame, Typed
  <1>6. ASSUME NEW j \in Children PROVE Place(j)' = Place(j) \/ Heir(j)
    <2>1. CASE child'[j] = child[j]
      <3>1. child[j].pc # "none" => call[CallOf(j)].pc # "none"
        BY <1>4 DEF Stage, Paced
      <3>. QED  BY <1>4, <1>5, <2>1, <3>1 DEF Place, Target, Recovery, CallOf
    <2>2. CASE Intend(c) /\ CallOf(j) = c /\ child[j].pc = "none" /\ child'[j].pc = "queued"
      <3>1. call[c].pc = "verifying"
        BY <2>2 DEF Intend
      <3>2. child[j].receipt.ws = Nowhere
        BY <1>4, <2>2 DEF Stage, EarlyStage, Early
      <3>3. CASE Recovery(c)
        <4>1. t \in Children /\ call'[c].target = t
          BY <1>5, <3>1, <3>3
        <4>2. Place(j)' = child[t].receipt.ws
          BY <1>4, <2>2, <3>3, <4>1 DEF Place, Target, Recovery, CallOf
        <4>. QED  BY <2>2, <3>2, <3>3, <4>1, <4>2
      <3>4. CASE ~Recovery(c)
        BY <1>4, <2>2, <3>4 DEF Place, Recovery, CallOf
      <3>. QED  BY <3>3, <3>4
    <2>. QED  BY <1>2, <2>1, <2>2 DEF CallFrame
  <1>7. ASSUME NEW i \in Children, NEW j \in Children, Heir(i), Heir(j) PROVE i = j
    <2>1. Tasks[c] = 1
      BY <1>7, DelegationConstants DEF Recovery
    <2>. QED  BY <1>7, <2>1, ChildrenAreTasks
  <1>8. recovered \subseteq recovered' /\ (Intend(c) /\ Recovery(c) => t \in recovered' /\ t \notin recovered)
    <2>1. CASE Intend(c)
      <3>1. call[c].pc = "verifying" /\ recovered' = IF Recovery(c) THEN recovered \cup {t} ELSE recovered
        BY <2>1 DEF Intend
      <3>. QED  BY <1>3, <3>1 DEF RecoveredOnce
    <2>2. CASE ~Intend(c)
      BY <2>2 DEF CallChange, CallStep, Prepare, Refuse, Execute, Check, Abandon, SaveIntent, IntentLost,
                  Answer, Drain, books
    <2>. QED  BY <2>1, <2>2
  <1>9. ASSUME NEW j \in Children, Heir(j), Place(j)' # Nowhere
        PROVE  /\ Place(j)' = Place(t) /\ Place(t) \in Children /\ t \in Children
               /\ child[Place(t)].receipt.ws = Place(t) /\ Kind[CallOf(Place(t))] = "implement"
    BY <1>3, <1>4, <1>9 DEF PlacesApart
  <1>10. ASSUME NEW j \in Children, Place(j) # Nowhere PROVE Place(j) \in Children
    <2>1. child[j].pc # "none" => call[CallOf(j)].pc # "none"
      BY <1>4 DEF Stage, Paced
    <2>. QED  BY <1>4, <1>5, <1>10, <2>1 DEF Place, Target
  <1> HIDE DEF Heir
  <1>11. \A j \in Children : Heir(j) => child[j].receipt.ws = Nowhere /\ Intend(c) /\ Recovery(c)
    BY DEF Heir
  <1>12. ASSUME NEW j \in Children PROVE child'[j].receipt.ws \in {Nowhere, Place(j)'}
    BY <1>3, <1>4, <1>6, <1>11 DEF PlacesApart
  <1>13. ASSUME NEW j \in Children, Place(j)' # Nowhere
         PROVE  /\ child'[Place(j)'].receipt.ws = Place(j)' /\ Kind[CallOf(Place(j)')] = "implement"
    <2>1. CASE Place(j)' = Place(j)
      BY <1>3, <1>4, <1>10, <1>13, <2>1 DEF PlacesApart
    <2>2. CASE Heir(j)
      BY <1>4, <1>9, <1>13, <2>2
    <2>. QED  BY <1>6, <2>1, <2>2
  <1>14. ASSUME NEW i \in Children, NEW j \in Children, i # j, Place(i)' = Place(j)', Place(j)' # Nowhere,
                Place(i)' = Place(i)
         PROVE  i \in recovered' \/ j \in recovered'
    <2>1. CASE Place(j)' = Place(j)
      BY <1>3, <1>8, <1>14, <2>1 DEF PlacesApart
    <2>2. CASE Heir(j)
      <3>1. Place(i) = Place(t) /\ Place(t) # Nowhere /\ t \in Children /\ t \in recovered' /\ t \notin recovered
        BY <1>8, <1>9, <1>11, <1>14, <2>2
      <3>. QED  BY <1>3, <1>8, <3>1 DEF PlacesApart
    <2>. QED  BY <1>6, <2>1, <2>2
  <1>15. ASSUME NEW i \in Children, NEW j \in Children, i # j, Place(i)' = Place(j)', Place(j)' # Nowhere
         PROVE  i \in recovered' \/ j \in recovered'
    <2>1. Place(i)' = Place(i) \/ Place(j)' = Place(j)
      BY <1>6, <1>7, <1>15
    <2>. QED  BY <1>14, <1>15, <2>1
  <1>. QED  BY <1>12, <1>13, <1>15 DEF PlacesApart, CallOf

LEMMA PlaceStep == Typed /\ ReceiptInv /\ PlaceInv /\ [Next]_vars => PlaceInv'
  <1> SUFFICES ASSUME Typed, ReceiptInv, PlaceInv, [Next]_vars PROVE PlaceInv'
    OBVIOUS
  <1>1. CASE UNCHANGED <<host, call, child, kept, fate, recovering, recovered, settled, reserved>>
    <2>1. (RecoveredOnce' <=> RecoveredOnce) /\ (PlacesApart' <=> PlacesApart) /\ (Forgotten' <=> Forgotten)
      BY <1>1 DEF RecoveredOnce, PlacesApart, Forgotten, Place, Target, PastIntend, SafelySettled, Operating, Recovery
    <2>. QED  BY <1>1, <2>1 DEF PlaceInv
  <1>2. ASSUME NEW k \in Children, ChildStep(k) PROVE PlaceInv'
    <2>1. host' = "up"
      BY <1>2, ChildStepsAreApart DEF OneChild
    <2>. QED  BY <1>2, <2>1, ChildRecovery, ChildPlaces DEF PlaceInv
  <1>3. ASSUME NEW c \in Calls, CallChange(c) PROVE PlaceInv'
    <2>1. PICK new : OneCall(c, new)
      BY <1>3, CallStepsAreApart
    <2>2. host' = "up"
      BY <2>1 DEF OneCall
    <2>. QED  BY <1>3, <2>2, CallRecovery, CallPlaces DEF PlaceInv
  <1>4. CASE CloseAll \/ Closed
    BY <1>1, <1>4 DEF CloseAll, Closed, books, records, workers
  <1>5. CASE HostLost
    <2>1. /\ host' = "lost" /\ reserved' = 0
          /\ call' = [c \in Calls |-> NoCall] /\ child' = [k \in Children |-> NotBegun]
          /\ fate' = [k \in Children |-> CASE fate[k] = "alive" -> "doubt" [] fate[k] = "called" -> "none"
                                            [] OTHER -> fate[k]]
      BY <1>5 DEF HostLost
    <2>2. NoCall.pc = "none" /\ NoCall.saved = 0
      BY DEF NoCall
    <2>3. \A k \in Children : fate'[k] # "alive"
      BY <2>1
    <2>. QED  BY <2>1, <2>2, <2>3 DEF PlaceInv, Forgotten, NotBegun
  <1>6. CASE UNCHANGED vars
    BY <1>1, <1>6 DEF vars, books, records, workers
  <1>. QED
    BY <1>2, <1>3, <1>4, <1>5, <1>6 DEF Next, DelegationStep, Requests, CallChange

\* A child at work has its worktree to itself.
LEMMA PlacesAreApart ==
  ASSUME Typed, ReceiptInv, PlaceInv
  PROVE  OneAtWork
  <1>1. CASE host = "lost"
    <2>1. Forgotten
      BY <1>1 DEF PlaceInv
    <2>. QED  BY <2>1 DEF Forgotten, OneAtWork
  <1>2. CASE host = "up"
    <2>1. RecoveredOnce /\ PlacesApart /\ \A k \in Children : Stage(k)
      BY <1>2 DEF PlaceInv, ReceiptInv
    <2>2. ASSUME NEW k \in Children, fate[k] = "alive", Writes(k)
          PROVE  /\ lease[k] = "held" /\ child[k].receipt.ws # Nowhere /\ child[k].pc = "running"
      <3>1. child[k].pc \in Early \cup {"running"} \cup Late
        BY ChildTypes
      <3>2. child[k].pc = "running"
        BY <2>1, <2>2, <3>1 DEF Stage, EarlyStage, LateStage
      <3>3. RunningStage(k)
        BY <2>1 DEF Stage
      <3>. QED  BY <2>2, <3>2, <3>3 DEF RunningStage, Housed
    <2>3. ASSUME NEW k \in Children, NEW j \in Children \ {k}, fate[k] = "alive", Writes(k),
                 child[j].receipt.ws = child[k].receipt.ws
          PROVE  fate[j] \in {"none", "gone"} /\ lease[j] = "none" /\ child[j].pc \in {"releasing", "over"}
      <3>1. Place(j) = Place(k) /\ Place(k) # Nowhere
        BY <2>1, <2>2, <2>3 DEF PlacesApart
      <3>2. j \in recovered \/ k \in recovered
        BY <2>1, <2>3, <3>1 DEF PlacesApart
      <3>3. \A i \in recovered : SafelySettled(i) /\ i \in Children
        BY <2>1 DEF RecoveredOnce, Typed
      <3>4. k \notin recovered
        BY <1>2, <2>2, <2>3, <3>3, RecoveredRest
      <3>. QED  BY <1>2, <3>2, <3>3, <3>4, RecoveredRest
    <2>4. ASSUME NEW c \in Calls, NEW d \in Calls, c # d, Recovery(c), Recovery(d), call[c].saved > 0,
                 call[d].saved > 0
          PROVE  call[c].target # call[d].target
      BY <2>1, <2>4 DEF RecoveredOnce
    <2>. QED  BY <2>2, <2>3, <2>4 DEF OneAtWork
  <1>. QED  BY <1>1, <1>2 DEF Typed
-----------------------------------------------------------------------------
(* A place covers everything a child does.                                 *)

\* A child is at work from its first check until it is over, unless it never got anywhere.
NeedsPlace(b) ==
  \/ b.pc \in {"checking", "creating", "launching", "starting", "running"}
  \/ b.pc \in {"evidence", "recording", "releasing"} /\ (b.started \/ b.attempted)
Covered(k) == /\ NeedsPlace(child[k]) => pool.claim[k] = "granted"
              /\ pool.claim[k] \in {"waiting", "granted"} => Operating(CallOf(k))

\* The tasks that are reserved for, of a call and of them all.
DueOf(c) == {k \in TasksOf(c) : child[k].pc # "over"}
Due == {k \in Children : Operating(CallOf(k)) /\ child[k].pc # "over"}
Reserved ==
  /\ \A c \in Calls : Operating(c) => call[c].left = Cardinality(DueOf(c))
  /\ IsFiniteSet(Due) /\ reserved = Cardinality(Due) /\ reserved <= MaxQueued
CoverInv == host = "up" => (\A k \in Children : Covered(k)) /\ Reserved

LEMMA CoverInit == Init => CoverInv
  <1> SUFFICES ASSUME Init PROVE CoverInv
    OBVIOUS
  <1>1. PICK n \in Capacities : pool = EmptyPool(n)
    BY DEF Init
  <1>2. \A k \in Children : pool.claim[k] = "none"
    BY <1>1 DEF EmptyPool
  <1>3. /\ call = [c \in Calls |-> NoCall] /\ child = [k \in Children |-> NotBegun] /\ reserved = 0
        /\ NoCall.pc = "none" /\ NotBegun.pc = "none" /\ \A k \in Children : CallOf(k) \in Calls
    BY ChildrenAreTasks DEF Init, NoCall, NotBegun
  <1>4. \A c \in Calls : ~Operating(c)
    BY <1>3 DEF Operating
  <1>5. Due = {}
    BY <1>3, <1>4 DEF Due
  <1>6. Reserved
    BY <1>3, <1>4, <1>5, FS_EmptySet, DelegationConstants DEF Reserved
  <1>. QED  BY <1>2, <1>3, <1>6 DEF CoverInv, Covered, NeedsPlace

\* Until a child is over, its steps leave the places alone or close the pool, and a child
\* that comes to need a place has been given one.
LEMMA ChildWorks ==
  ASSUME Typed, ReceiptInv, NEW k \in Children, ChildStep(k), ~Leave(k)
  PROVE  /\ pool' \in {pool, Halted(pool)} /\ call' = call /\ reserved' = reserved
         /\ child[k].pc # "over" /\ child'[k].pc # "over"
         /\ NeedsPlace(child'[k]) => NeedsPlace(child[k]) \/ pool.claim[k] = "granted"
  <1> DEFINE b == child[k]
             n == child'[k]
  <1>1. Stage(k)
    BY OwnMode
  <1>2. \A e : FailedFrom(b, n, e) => n.pc = "evidence" /\ Flags(b, n)
    BY DEF FailedFrom
  <1>3. \A e, error : Fails(k, e, error) => pool' \in {pool, Halted(pool)}
    BY DEF Fails, HaltIf
  <1>4. \A e, next : Save(k, e, next) => pool' \in {pool, Halted(pool)}
    BY DEF Save, Fails, HaltIf, poolVars
  <1>5. CASE Admitted(k)
    <2>1. (\E e : Save(k, e, "checking")) /\ UNCHANGED <<books, call>>
      BY <1>5 DEF Admitted
    <2>2. pool' \in {pool, Halted(pool)} /\ call' = call /\ reserved' = reserved
      BY <1>4, <2>1 DEF books
    <2>. QED  BY <1>5, <2>2, AdmittedIs DEF At
  <1>6. CASE Checked(k)
    <2>1. pool' \in {pool, Halted(pool)} /\ call' = call /\ reserved' = reserved
      BY <1>4, <1>6 DEF Checked, books, poolVars
    <2>. QED  BY <1>6, <2>1, CheckedIs DEF At, NeedsPlace
  <1>7. CASE Created(k)
    <2>1. pool' \in {pool, Halted(pool)} /\ call' = call /\ reserved' = reserved
      <3>1. /\ (\E e : Save(k, e, "launching")) \/ (\E e : Fails(k, e, "worktree"))
            /\ UNCHANGED <<books, call>>
        BY <1>7 DEF Created
      <3>. QED  BY <1>3, <1>4, <3>1 DEF books
    <2>2. n.pc \in {"launching", "evidence"} /\ b.pc = "creating"
      <3>1. \A e, error : FailedFrom(e, n, error) => n.pc = "evidence"
        BY DEF FailedFrom
      <3>2. /\ b.pc = "creating"
            /\ n.pc \in {"launching", "evidence"} \/ FailedFrom([b EXCEPT !.attempted = TRUE], n, "worktree")
        BY <1>7, CreatedIs DEF At
      <3>. QED  BY <3>1, <3>2
    <2>. QED  BY <2>1, <2>2 DEF NeedsPlace
  <1>8. CASE Launched(k)
    <2>1. pool' \in {pool, Halted(pool)} /\ call' = call /\ reserved' = reserved
      BY <1>4, <1>8 DEF Launched, books
    <2>2. n.pc \in {"starting", "evidence"} /\ b.pc = "launching"
      BY <1>8, LaunchedIs DEF At
    <2>. QED  BY <2>1, <2>2 DEF NeedsPlace
  <1>9. CASE Throw(k)
    <2>1. pool' \in {pool, Halted(pool)} /\ call' = call /\ reserved' = reserved
      BY <1>9 DEF Throw, Fails, HaltIf, books
    <2>2. b.pc \in {"queued", "checking", "launching", "starting"}
      BY <1>9 DEF Throw, At
    <2>3. n.pc = "evidence" /\ Flags(b, n)
      BY <1>2, <1>9, ThrowIs
    <2>4. b.pc = "queued" => ~b.started /\ ~b.attempted
      BY <1>1 DEF Stage, EarlyStage, Early
    <2>. QED  BY <2>1, <2>2, <2>3, <2>4 DEF NeedsPlace, Flags
  <1>10. CASE Start(k)
    <2>1. pool' = pool /\ call' = call /\ reserved' = reserved
      BY <1>10 DEF Start, books, poolVars
    <2>. QED  BY <1>10, <2>1, StartIs DEF At, NeedsPlace
  <1>11. CASE StartUnsaved(k)
    <2>1. pool' \in {pool, Halted(pool)} /\ call' = call /\ reserved' = reserved
      BY <1>11 DEF StartUnsaved, HaltIf, books
    <2>. QED  BY <1>11, <2>1, StartUnsavedIs DEF At, NeedsPlace
  <1>12. CASE Works(k)
    <2>1. pool' = pool /\ call' = call /\ reserved' = reserved /\ child' = child /\ b.pc = "running"
      BY <1>12 DEF Works, books, poolVars, records, At
    <2>. QED  BY <2>1
  <1>13. CASE Returns(k)
    <2>1. pool' \in {pool, Halted(pool)} /\ call' = call /\ reserved' = reserved
      BY <1>13 DEF Returns, HaltIf, books
    <2>. QED  BY <1>13, <2>1, ReturnsIs DEF At, NeedsPlace
  <1>14. CASE LeaseStays(k) \/ Rejects(k) \/ StartRefused(k) \/ Unclean(k)
    <2>1. pool' \in {pool, Halted(pool)} /\ call' = call /\ reserved' = reserved
      BY <1>14 DEF LeaseStays, Rejects, StartRefused, Unclean, Fails, HaltIf, books
    <2>2. b.pc = "running"
      BY <1>14, CutOffIs DEF At
    <2>3. n.pc = "evidence"
      BY <1>2, <1>14, CutOffIs
    <2>. QED  BY <2>1, <2>2, <2>3 DEF NeedsPlace
  <1>15. CASE Evidence(k)
    <2>1. pool' \in {pool, Halted(pool)} /\ call' = call /\ reserved' = reserved
      BY <1>15 DEF Evidence, Lost, HaltIf, poolVars
    <2>. QED  BY <1>15, <2>1, EvidenceIs DEF At, NeedsPlace, Flags
  <1>16. CASE Record(k)
    <2>1. pool' \in {pool, Halted(pool)} /\ call' = call /\ reserved' = reserved
      BY <1>16 DEF Record, Lost, HaltIf, poolVars, books
    <2>. QED  BY <1>16, <2>1, RecordIs DEF At, NeedsPlace, Flags
  <1>. QED
    BY <1>5, <1>6, <1>7, <1>8, <1>9, <1>10, <1>11, <1>12, <1>13, <1>14, <1>15, <1>16 DEF ChildStep

\* Closing takes no place away (halt, close).
LEMMA HaltedIsCalm ==
  ASSUME Typed, pool' \in {pool, Halted(pool)}
  PROVE  \A k \in Children : /\ pool.claim[k] = "granted" => pool'.claim[k] = "granted"
                             /\ pool'.claim[k] \in {"waiting", "granted"} => pool.claim[k] \in {"waiting", "granted"}
  <1>1. Calm(pool, Halted(pool), {})
    BY ClosedGood DEF Halted, Typed
  <1>. QED  BY <1>1 DEF Calm

\* The tasks of a call that are not over can be counted.
LEMMA DueCounts ==
  ASSUME NEW c \in Calls
  PROVE  IsFiniteSet(DueOf(c)) /\ Cardinality(DueOf(c)) \in Nat /\ Cardinality(DueOf(c)) <= Tasks[c]
  <1>1. DueOf(c) \in SUBSET TasksOf(c) /\ IsFiniteSet(TasksOf(c)) /\ Cardinality(TasksOf(c)) = Tasks[c]
    BY RequestsOfACall DEF DueOf
  <1>. QED  BY <1>1, FS_Subset, FS_CardinalityType

LEMMA ChildCovers ==
  ASSUME Typed, ReceiptInv, CoverInv, NEW k \in Children, ChildStep(k)
  PROVE  CoverInv'
  <1>1. OneChild(k)
    BY ChildStepsAreApart
  <1>2. /\ host = "up" /\ host' = "up" /\ \A j \in Children : j # k => child'[j] = child[j]
        /\ \A c \in Calls : call'[c].pc = call[c].pc /\ (c # CallOf(k) => call'[c] = call[c])
        /\ \A j \in Children : CallOf(j) \in Calls
        /\ call[CallOf(k)].pc = "children" /\ Calm(pool, pool', {k})
        /\ reserved \in Int /\ call \in [Calls -> CallRecords]
    BY <1>1, ChildrenAreTasks DEF OneChild, Aside, PoolStep, Typed
  <1>3. \A c \in Calls : Operating(c)' <=> Operating(c)
    BY <1>2 DEF Operating
  <1>4. Reserved /\ \A j \in Children : Covered(j)
    BY <1>2 DEF CoverInv
  <1>5. Operating(CallOf(k))
    BY <1>2 DEF Operating
  <1>6. ASSUME NEW j \in Children, j # k PROVE Covered(j)'
    <2>1. (NeedsPlace(child[j]))' <=> NeedsPlace(child[j])
      BY <1>2, <1>6 DEF NeedsPlace
    <2>2. Operating(CallOf(j))' <=> Operating(CallOf(j))
      BY <1>2 DEF Operating, CallOf
    <2>. QED  BY <1>2, <1>4, <1>6, <2>1, <2>2 DEF Covered, Calm
  <1>7. Operating(CallOf(k))'
    BY <1>2 DEF Operating, CallOf
  <1>8. CASE ~Leave(k)
    <2>1. /\ pool' \in {pool, Halted(pool)} /\ call' = call /\ reserved' = reserved
          /\ child[k].pc # "over" /\ child'[k].pc # "over"
          /\ NeedsPlace(child'[k]) => NeedsPlace(child[k]) \/ pool.claim[k] = "granted"
      BY <1>8, ChildWorks
    <2>2. Covered(k)'
      <3>1. pool.claim[k] = "granted" => pool'.claim[k] = "granted"
        BY <2>1, HaltedIsCalm
      <3>. QED  BY <1>4, <1>7, <2>1, <3>1 DEF Covered, NeedsPlace
    <2>3. \A j \in Children : child'[j].pc = "over" <=> child[j].pc = "over"
      BY <1>2, <2>1
    <2>4. (\A c \in Calls : DueOf(c)' = DueOf(c)) /\ Due' = Due
      BY <1>2, <2>3 DEF DueOf, Due, TasksOf, CallOf, Operating
    <2>5. Reserved'
      BY <1>3, <1>4, <2>1, <2>4 DEF Reserved
    <2>. QED  BY <1>6, <2>2, <2>5 DEF CoverInv
  <1>9. CASE Leave(k)
    <2>1. /\ child[k].pc = "releasing" /\ child'[k].pc = "over" /\ reserved' = reserved - 1
          /\ call'[CallOf(k)].left = call[CallOf(k)].left - 1
      BY <1>9, LeaveIs DEF At
    <2>2. Covered(k)'
      BY <1>7, <2>1 DEF Covered, NeedsPlace
    <2>3. k \in Due /\ k \in DueOf(CallOf(k))
      BY <1>5, <2>1 DEF Due, DueOf, TasksOf
    <2>4. Due' = Due \ {k} /\ DueOf(CallOf(k))' = DueOf(CallOf(k)) \ {k}
      BY <1>2, <2>1 DEF DueOf, Due, TasksOf, CallOf, Operating
    <2>5. \A c \in Calls : c # CallOf(k) => DueOf(c)' = DueOf(c)
      BY <1>2, <2>1 DEF DueOf, TasksOf, CallOf
    <2>6. /\ IsFiniteSet(Due \ {k}) /\ Cardinality(Due \ {k}) = Cardinality(Due) - 1
          /\ Cardinality(DueOf(CallOf(k)) \ {k}) = Cardinality(DueOf(CallOf(k))) - 1
      BY <1>2, <1>4, <2>3, FS_RemoveElement, DueCounts DEF Reserved
    <2>7. ASSUME NEW c \in Calls, Operating(c)' PROVE call'[c].left = Cardinality(DueOf(c)')
      <3>1. CASE c = CallOf(k)
        BY <1>2, <1>4, <1>5, <2>1, <2>4, <2>6, <3>1 DEF Reserved
      <3>2. CASE c # CallOf(k)
        BY <1>2, <1>3, <1>4, <2>5, <2>7, <3>2 DEF Reserved
      <3>. QED  BY <3>1, <3>2
    <2>8. Cardinality(Due) \in Nat /\ MaxQueued \in Nat
      BY <1>4, FS_CardinalityType, DelegationConstants DEF Reserved
    <2>9. Reserved'
      BY <1>4, <2>1, <2>4, <2>6, <2>7, <2>8 DEF Reserved
    <2>. QED  BY <1>6, <2>2, <2>9 DEF CoverInv
  <1>. QED  BY <1>8, <1>9

\* A call reserves for its tasks and asks for their places together, and gives both back
\* when it is over (executeBatch).
LEMMA CallCovers ==
  ASSUME Typed, ReceiptInv, CoverInv, NEW c \in Calls, CallChange(c)
  PROVE  CoverInv'
  <1>1. PICK new : OneCall(c, new)
    BY CallStepsAreApart
  <1>2. CallFrame(c, new) /\ CallCounts(c, new)
    BY <1>1, CallFrameIs, CallCountsOn
  <1>3. /\ call'[c] = new /\ \A d \in Calls \ {c} : call'[d] = call[d]
        /\ host = "up" /\ host' = "up" /\ Calm(pool, pool', TasksOf(c))
        /\ \A k \in Children : CallOf(k) \in Calls /\ (k \in TasksOf(c) <=> CallOf(k) = c)
        /\ reserved \in Int /\ call[c].left \in Int /\ MaxQueued \in Nat /\ Tasks[c] \in Nat
    <2>1. call[c].left \in Int /\ reserved \in Int
      BY DEF Typed, CallRecords
    <2>2. MaxQueued \in Nat /\ Tasks[c] \in Nat
      BY DelegationConstants, PoolConstants
    <2>. QED  BY <1>1, <1>2, <2>1, <2>2, ChildrenAreTasks DEF CallFrame, OneCall, PoolStep, TasksOf
  <1>4. Reserved /\ \A k \in Children : Covered(k)
    BY <1>3 DEF CoverInv
  <1>5. \A k \in Children : /\ child'[k].pc = "over" <=> child[k].pc = "over"
                            /\ NeedsPlace(child'[k]) => NeedsPlace(child[k])
                            /\ Paced(k)
    BY <1>2, <1>3 DEF CallFrame, NeedsPlace, ReceiptInv, Stage
  <1>6. \A d \in Calls : DueOf(d)' = DueOf(d)
    BY <1>5 DEF DueOf, TasksOf, CallOf
  <1>7. \A d \in Calls \ {c} : Operating(d)' <=> Operating(d)
    BY <1>3 DEF Operating
  <1>8. Cardinality(Due) \in Nat /\ IsFiniteSet(Due)
    BY <1>4, FS_CardinalityType DEF Reserved
  <1>9. \A k \in Children \ TasksOf(c) : Covered(k)'
    <2> SUFFICES ASSUME NEW k \in Children, k \notin TasksOf(c) PROVE Covered(k)'
      OBVIOUS
    <2>1. (NeedsPlace(child[k]))' => NeedsPlace(child[k])
      BY <1>5 DEF NeedsPlace
    <2>2. Operating(CallOf(k))' <=> Operating(CallOf(k))
      BY <1>3, <1>7 DEF Operating, CallOf
    <2>. QED  BY <1>3, <1>4, <2>1, <2>2 DEF Covered, Calm
  <1>10. CASE Execute(c)
    <2>1. /\ call[c].pc = "prepared" /\ reserved' = reserved + Tasks[c] /\ ~Full(c)
      BY <1>10 DEF Execute
    <2>2. new.pc = "admitted" /\ new.left = Tasks[c]
      <3>1. /\ call \in [Calls -> CallRecords]
            /\ call' = [call EXCEPT ![c].pc = "admitted", ![c].left = Tasks[c]]
        BY <1>10 DEF Execute, Typed
      <3>2. call[c] \in CallRecords /\ call'[c] = new
        BY <1>3, <3>1
      <3>. QED  BY <3>1, <3>2 DEF CallRecords
    <2>3. ~Operating(c) /\ Operating(c)'
      BY <1>3, <2>1, <2>2 DEF Operating
    <2>4. \A k \in TasksOf(c) : child[k].pc = "none"
      <3>1. ASSUME NEW k \in TasksOf(c) PROVE child[k].pc = "none"
        <4>1. Paced(k) /\ CallOf(k) = c
          BY <1>5 DEF TasksOf
        <4>. QED  BY <2>1, <4>1 DEF Paced
      <3>. QED  BY <3>1
    <2>5. DueOf(c) = TasksOf(c)
      BY <2>4 DEF DueOf
    <2>6. Due' = Due \cup TasksOf(c) /\ Due \cap TasksOf(c) = {}
      <3>1. ASSUME NEW k \in Children PROVE k \in Due' <=> k \in Due \/ k \in TasksOf(c)
        BY <1>3, <1>5, <1>7, <2>3, <2>4 DEF Due, CallOf, Operating
      <3>2. Due' \subseteq Children /\ Due \subseteq Children /\ TasksOf(c) \subseteq Children
        BY DEF Due, TasksOf
      <3>. QED  BY <1>3, <2>3, <3>1, <3>2 DEF Due
    <2>7. /\ IsFiniteSet(Due \cup TasksOf(c))
          /\ Cardinality(Due \cup TasksOf(c)) = Cardinality(Due) + Tasks[c]
      <3>1. IsFiniteSet(TasksOf(c)) /\ Cardinality(TasksOf(c)) = Tasks[c]
        BY RequestsOfACall
      <3>2. /\ IsFiniteSet(Due \cup TasksOf(c))
            /\ Cardinality(Due \cup TasksOf(c))
                 = Cardinality(Due) + Cardinality(TasksOf(c)) - Cardinality(Due \cap TasksOf(c))
        BY <1>8, <3>1, FS_Union
      <3>3. Cardinality(Due \cap TasksOf(c)) = 0
        BY <2>6, FS_EmptySet
      <3>. QED  BY <1>3, <1>8, <3>1, <3>2, <3>3
    <2>8. \A d \in Calls : Operating(d)' => call'[d].left = Cardinality(DueOf(d)')
      BY <1>3, <1>4, <1>6, <1>7, <2>2, <2>5, RequestsOfACall DEF Reserved
    <2>9. Reserved'
      BY <1>3, <1>4, <1>8, <2>1, <2>6, <2>7, <2>8 DEF Reserved, Full
    <2>10. \A k \in TasksOf(c) : Covered(k)'
      <3>1. ASSUME NEW k \in TasksOf(c) PROVE Covered(k)'
        <4>1. ~NeedsPlace(child'[k])
          BY <1>5, <2>4 DEF NeedsPlace, TasksOf
        <4>2. Operating(CallOf(k))'
          BY <1>3, <2>2 DEF Operating, TasksOf, CallOf
        <4>. QED  BY <4>1, <4>2 DEF Covered, NeedsPlace
      <3>. QED  BY <3>1
    <2>. QED  BY <1>9, <2>9, <2>10 DEF CoverInv
  <1>11. CASE Drain(c)
    <2>1. call[c].pc = "draining" /\ reserved' = reserved - call[c].left /\ pool' = GivenBack(pool, c)
      BY <1>11 DEF Drain
    <2>2. new.pc = "over"
      <3>1. /\ call \in [Calls -> CallRecords]
            /\ call' = [call EXCEPT ![c].pc = "over", ![c].left = 0]
        BY <1>11 DEF Drain, Typed
      <3>2. call[c] \in CallRecords /\ call'[c] = new
        BY <1>3, <3>1
      <3>. QED  BY <3>1, <3>2 DEF CallRecords
    <2>3. Operating(c) /\ ~Operating(c)'
      BY <1>3, <2>1, <2>2 DEF Operating
    <2>4. Due' = Due \ DueOf(c) /\ DueOf(c) \subseteq Due
      <3>1. ASSUME NEW k \in Children PROVE k \in Due' <=> k \in Due /\ k \notin TasksOf(c)
        BY <1>3, <1>5, <1>7, <2>3 DEF Due, CallOf, Operating
      <3>2. Due' \subseteq Children /\ Due \subseteq Children
        BY DEF Due
      <3>3. \A k \in Due : k \in TasksOf(c) <=> k \in DueOf(c)
        BY <1>3 DEF Due, DueOf
      <3>4. DueOf(c) \subseteq Due
        BY <2>3 DEF Due, DueOf, TasksOf
      <3>. QED  BY <3>1, <3>2, <3>3, <3>4
    <2>5. /\ IsFiniteSet(Due \ DueOf(c)) /\ Due \cap DueOf(c) = DueOf(c)
          /\ Cardinality(Due \ DueOf(c)) = Cardinality(Due) - Cardinality(Due \cap DueOf(c))
      BY <1>8, <2>4, FS_Difference
    <2>6. Cardinality(DueOf(c)) \in Nat /\ call[c].left = Cardinality(DueOf(c))
      BY <1>4, <2>3, DueCounts DEF Reserved
    <2>7. \A d \in Calls : Operating(d)' => call'[d].left = Cardinality(DueOf(d)')
      BY <1>3, <1>4, <1>6, <1>7, <2>3 DEF Reserved
    <2>8. Reserved'
      <3>1. Cardinality(Due \ DueOf(c)) = Cardinality(Due) - call[c].left /\ call[c].left \in Nat
        BY <2>5, <2>6
      <3>2. reserved = Cardinality(Due) /\ reserved <= MaxQueued
        BY <1>4 DEF Reserved
      <3>3. reserved' = Cardinality(Due \ DueOf(c)) /\ reserved' <= MaxQueued
        BY <1>3, <1>8, <2>1, <3>1, <3>2
      <3>. QED  BY <2>4, <2>5, <2>7, <3>3 DEF Reserved
    <2>9. \A k \in TasksOf(c) : Covered(k)'
      <3>1. ASSUME NEW k \in TasksOf(c) PROVE Covered(k)'
        <4>1. pool'.claim[k] \notin {"waiting", "granted"}
          BY <2>1, <3>1, GivenBackGood DEF Typed
        <4>2. k \in Children /\ Paced(k) /\ CallOf(k) = c
          BY <1>5, <3>1 DEF TasksOf
        <4>3. ~NeedsPlace(child[k])
          BY <2>1, <4>2 DEF Paced, NeedsPlace
        <4>4. ~NeedsPlace(child'[k])
          BY <1>5, <4>2, <4>3
        <4>. QED  BY <4>1, <4>4 DEF Covered, NeedsPlace
      <3>. QED  BY <3>1
    <2>. QED  BY <1>9, <2>8, <2>9 DEF CoverInv
  <1>12. CASE ~Execute(c) /\ ~Drain(c)
    <2>1. /\ pool' \in {pool, Halted(pool)} /\ reserved' = reserved /\ new.left = call[c].left
          /\ Operating(c)' <=> Operating(c)
      <3>1. Intend(c) => /\ pool' = pool /\ reserved' = reserved /\ call[c].pc = "verifying"
        BY DEF Intend, poolVars
      <3>2. SaveIntent(c) => /\ pool' = pool /\ reserved' = reserved /\ call[c].pc = "intent"
        BY DEF SaveIntent, poolVars, books
      <3>. QED  BY <1>2, <1>3, <1>12, <3>1, <3>2 DEF CallCounts, Operating
    <2>2. Due' = Due
      BY <1>3, <1>5, <1>7, <2>1 DEF Due, CallOf, Operating
    <2>3. \A d \in Calls : Operating(d)' => call'[d].left = Cardinality(DueOf(d)')
      BY <1>3, <1>4, <1>6, <1>7, <2>1 DEF Reserved
    <2>4. Reserved'
      BY <1>4, <2>1, <2>2, <2>3 DEF Reserved
    <2>5. \A k \in TasksOf(c) : Covered(k)'
      <3>1. ASSUME NEW k \in TasksOf(c) PROVE Covered(k)'
        <4>1. k \in Children /\ CallOf(k) = c /\ (CallOf(k))' = c
          BY <3>1 DEF TasksOf, CallOf
        <4>2. /\ pool.claim[k] = "granted" => pool'.claim[k] = "granted"
              /\ pool'.claim[k] \in {"waiting", "granted"} => pool.claim[k] \in {"waiting", "granted"}
          BY <2>1, <4>1, HaltedIsCalm
        <4>3. NeedsPlace(child'[k]) => NeedsPlace(child[k])
          BY <1>5, <4>1
        <4>4. Operating(CallOf(k))' <=> Operating(CallOf(k))
          BY <2>1, <4>1 DEF Operating, CallOf
        <4>. QED  BY <1>4, <4>1, <4>2, <4>3, <4>4 DEF Covered, NeedsPlace
      <3>. QED  BY <3>1
    <2>. QED  BY <1>9, <2>4, <2>5 DEF CoverInv
  <1>. QED  BY <1>10, <1>11, <1>12

LEMMA CoverStep == Typed /\ ReceiptInv /\ CoverInv /\ [Next]_vars => CoverInv'
  <1> SUFFICES ASSUME Typed, ReceiptInv, CoverInv, [Next]_vars PROVE CoverInv'
    OBVIOUS
  <1>1. CASE UNCHANGED <<host, call, child, reserved>> /\ pool' \in {pool, Close(pool, "cancelled")}
    <2>1. Calm(pool, Close(pool, "cancelled"), {})
      BY ClosedGood DEF Typed
    <2>2. ASSUME NEW k \in Children, Covered(k) PROVE Covered(k)'
      <3>1. /\ pool.claim[k] = "granted" => pool'.claim[k] = "granted"
            /\ pool'.claim[k] \in {"waiting", "granted"} => pool.claim[k] \in {"waiting", "granted"}
        BY <1>1, <2>1 DEF Calm
      <3>2. Operating(CallOf(k))' <=> Operating(CallOf(k))
        BY <1>1 DEF Operating, CallOf
      <3>. QED  BY <1>1, <2>2, <3>1, <3>2 DEF Covered, NeedsPlace
    <2>3. Reserved' <=> Reserved
      BY <1>1 DEF Reserved, DueOf, Due, TasksOf, Operating, CallOf
    <2>. QED  BY <1>1, <2>2, <2>3 DEF CoverInv
  <1>2. ASSUME NEW k \in Children, ChildStep(k) PROVE CoverInv'
    BY <1>2, ChildCovers
  <1>3. ASSUME NEW c \in Calls, CallChange(c) PROVE CoverInv'
    BY <1>3, CallCovers
  <1>4. CASE CloseAll \/ Closed
    BY <1>1, <1>4 DEF CloseAll, Closed, books, records
  <1>5. CASE HostLost
    BY <1>5 DEF HostLost, CoverInv
  <1>6. CASE UNCHANGED vars
    BY <1>1, <1>6 DEF vars, books, records, poolVars
  <1>. QED
    BY <1>2, <1>3, <1>4, <1>5, <1>6 DEF Next, DelegationStep, Requests, CallChange

\* What uses its place holds it, and both counts are right.
LEMMA CountsAreRight ==
  ASSUME Typed, ReceiptInv, PlaceInv, CoverInv
  PROVE  PlacesCover
  <1> DEFINE held == {k \in Children : pool.claim[k] = "granted"}
             due == {k \in Children : Operating(CallOf(k)) /\ child[k].pc # "over"}
  <1>1. /\ pool.active = Cardinality(held) /\ pool.active <= pool.capacity
        /\ pool.queue # <<>> => pool.active = pool.capacity
    BY DEF Typed, PoolInv, Counted, Held, NoneIdle
  <1>2. CASE host = "up"
    <2>1. Reserved /\ \A k \in Children : Covered(k) /\ Stage(k)
      BY <1>2 DEF CoverInv, ReceiptInv
    <2>2. ASSUME NEW k \in Children, UsesItsPlace(k) PROVE k \in held
      <3>1. child[k].pc \in Early \cup {"running"} \cup Late /\ child[k].pc # "over"
        BY <2>2, ChildTypes DEF UsesItsPlace
      <3>2. EarlyStage(k) /\ LateStage(k)
        BY <2>1 DEF Stage
      <3>3. child[k].pc \in {"none", "queued"} => ~child[k].started /\ ~child[k].attempted /\ fate[k] # "alive"
        BY <3>2 DEF EarlyStage, Early
      <3>4. child[k].pc \in {"evidence", "recording", "releasing"} => fate[k] # "alive"
        BY <3>2 DEF LateStage, Late
      <3>5. NeedsPlace(child[k])
        BY <2>2, <3>1, <3>3, <3>4 DEF UsesItsPlace, NeedsPlace, Early, Late
      <3>. QED  BY <2>1, <3>5 DEF Covered
    <2>. QED  BY <1>1, <2>1, <2>2 DEF PlacesCover, Covered, Reserved, Due
  <1>3. CASE host = "lost"
    <2>1. Forgotten
      BY <1>3 DEF PlaceInv
    <2>2. ASSUME NEW k \in Children
          PROVE  ~UsesItsPlace(k) /\ pool.claim[k] = "none" /\ ~Operating(CallOf(k))
      <3>1. CallOf(k) \in Calls
        BY ChildrenAreTasks
      <3>. QED  BY <2>1, <3>1 DEF Forgotten, Typed, UsesItsPlace, NotBegun, Operating
    <2>3. due = {}
      BY <2>2
    <2>4. reserved = Cardinality(due) /\ reserved <= MaxQueued
      <3>1. Cardinality(due) = 0
        BY <2>3, FS_EmptySet
      <3>2. reserved = 0 /\ 0 <= MaxQueued
        BY <2>1, DelegationConstants DEF Forgotten
      <3>. QED  BY <3>1, <3>2
    <2>. QED  BY <1>1, <2>2, <2>4 DEF PlacesCover
  <1>. QED  BY <1>2, <1>3 DEF Typed

\* A child at work has its place and its worktree to itself, whatever fails, is repeated,
\* is recovered or is cut off (agent-task-pool.ts, executeBatch, runChild).
THEOREM WorkOfChildrenIsCovered == Spec => []WorkIsCovered
  <1>1. Typed /\ ReceiptInv /\ PlaceInv /\ CoverInv => WorkIsCovered
    BY PlacesAreApart, CountsAreRight DEF WorkIsCovered
  <1>. QED
    BY TypedInit, TypedStep, ReceiptInit, ReceiptStep, PlaceInit, PlaceStep, CoverInit, CoverStep, <1>1, PTL DEF Spec
=============================================================================
