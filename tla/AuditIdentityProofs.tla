------------------------- MODULE AuditIdentityProofs -------------------------
(****************************************************************************)
(* The identity cache keeps its map, its counter and its order in step,     *)
(* proved for any keys, identities and capacity: first for each operation   *)
(* on a cache, then for any sequence of calls; and it is the log of opens   *)
(* that AuditOpenLog describes.                                             *)
(****************************************************************************)
EXTENDS AuditIdentityCalls, SequenceFacts

(* A cache whose identities under each key are among those allowed there.   *)
CacheOf(allowed) ==
    {c \in [identities : [Keys -> Seq(Identities)], entryCount : Int,
            insertionOrder : Seq(Keys)] :
        /\ \A k \in Keys : c.identities[k] \in Seq(allowed[k])
        /\ \A k \in Keys : Len(c.identities[k]) = Count(c.insertionOrder, k)
        /\ c.entryCount = Len(c.insertionOrder)
        /\ c.entryCount <= Capacity
        /\ OneGeneration(c)}

Allowances == [Keys -> SUBSET Identities]

LEMMA CacheOfIs ==
    ASSUME NEW allowed, NEW c
    PROVE  c \in CacheOf(allowed) <=>
               /\ c \in [identities : [Keys -> Seq(Identities)], entryCount : Int,
                         insertionOrder : Seq(Keys)]
               /\ \A k \in Keys : c.identities[k] \in Seq(allowed[k])
               /\ Consistent(c) /\ OneGeneration(c)
BY DEF CacheOf, Consistent, Count

(* Queues whose elements are all among others' are of one generation too.   *)
LEMMA FewerOfOneGeneration ==
    ASSUME NEW c, NEW d, OneGeneration(c),
           \A k \in Keys : ToSet(d.identities[k]) \subseteq ToSet(c.identities[k])
    PROVE  OneGeneration(d)
BY DEF OneGeneration

-----------------------------------------------------------------------------
(* The order without a key has every other key as often as before.          *)
LEMMA WithoutCounts ==
    ASSUME NEW order \in Seq(Keys), NEW k
    PROVE  /\ Without(order, {k}) \in Seq(Keys)
           /\ Len(Without(order, {k})) = Len(order) - Count(order, k)
           /\ \A j : Count(Without(order, {k}), j) = IF j = k THEN 0 ELSE Count(order, j)
<1> DEFINE n == Len(order)
           First(m) == SubSeq(order, 1, m)
<1>1. PICK G \in [0..n -> Seq(Keys)] :
          /\ G[0] = <<>>
          /\ \A m \in 1..n : G[m] = IF order[m] = k THEN G[m - 1] ELSE Append(G[m - 1], order[m])
          /\ Without(order, {k}) = G[n]
  <2>1. PICK G : SieveSteps(G, Keys, order, {k}) BY WithoutSteps
  <2> QED BY <2>1 DEF SieveSteps
<1> DEFINE Counts(m) ==
               /\ Len(G[m]) = m - Count(First(m), k)
               /\ \A j : Count(G[m], j) = IF j = k THEN 0 ELSE Count(First(m), j)
           S == {m \in Nat : m <= n => Counts(m)}
<1>0. /\ First(0) = <<>> /\ First(n) = order
      /\ \A m \in 0..n : First(m) \in Seq(Keys)
      /\ \A m \in Nat : m + 1 <= n => First(m + 1) = Append(First(m), order[m + 1])
  BY PrefixSteps
<1>2. Counts(0)
  <2>1. G[0] = <<>> /\ First(0) = <<>> /\ Len(<<>>) = 0 BY <1>1, <1>0
  <2>2. \A j : Count(<<>>, j) = 0 BY CountEmpty
  <2> HIDE DEF First
  <2> QED BY <2>1, <2>2
<1>3. ASSUME NEW m \in Nat, m + 1 <= n, Counts(m) PROVE Counts(m + 1)
  <2>1. m + 1 \in 1..n /\ m \in 0..n /\ order[m + 1] \in Keys
    BY <1>3, Successor, ElementOfSeq, LenProperties
  <2>2. First(m) \in Seq(Keys) /\ First(m + 1) = Append(First(m), order[m + 1])
    BY <1>3, <1>0, <2>1
  <2>3. G[m] \in Seq(Keys) BY <2>1
  <2>4. G[m + 1] = IF order[m + 1] = k THEN G[m] ELSE Append(G[m], order[m + 1])
    BY <1>1, <1>3, <2>1, Successor
  <2> DEFINE e == order[m + 1]
             p == First(m)
             g == G[m]
  <2>5. \A j : Count(Append(p, e), j) = Count(p, j) + (IF e = j THEN 1 ELSE 0)
    <3> HIDE DEF p, e
    <3> QED BY <2>1, <2>2, CountAppend DEF p, e
  <2>6. \A j : Count(Append(g, e), j) = Count(g, j) + (IF e = j THEN 1 ELSE 0)
    <3> HIDE DEF g, e
    <3> QED BY <2>1, <2>3, CountAppend DEF g, e
  <2>7. Len(Append(g, e)) = Len(g) + 1 /\ Len(g) \in Nat
    BY <2>1, <2>3, AppendProperties, LenProperties
  <2>8. \A j : Count(p, j) \in Nat
    <3>1. Len(p) \in Nat /\ DOMAIN p = 1..Len(p) BY <2>2, LenProperties
    <3> HIDE DEF p
    <3> QED BY ONLY <3>1, CountIs
  <2>9. /\ Len(g) = m - Count(p, k)
        /\ \A j : Count(g, j) = IF j = k THEN 0 ELSE Count(p, j)
    BY <1>3
  <2>10. First(m + 1) = Append(p, e) /\ G[m + 1] = IF e = k THEN g ELSE Append(g, e)
    BY <2>2, <2>4
  <2> HIDE DEF p, e, g, First
  <2>11. CASE e = k
    <3>1. Len(g) = (m + 1) - Count(Append(p, e), k) BY <2>5, <2>8, <2>9, <2>11
    <3>2. \A j : Count(g, j) = IF j = k THEN 0 ELSE Count(Append(p, e), j)
      <4>1. \A j : j # k => Count(Append(p, e), j) = Count(p, j) BY <2>5, <2>8, <2>11
      <4> QED BY <2>9, <4>1
    <3> QED BY <2>10, <2>11, <3>1, <3>2
  <2>12. CASE e # k
    <3>1. Len(Append(g, e)) = (m + 1) - Count(Append(p, e), k)
      BY <2>5, <2>7, <2>8, <2>9, <2>12
    <3>2. \A j : Count(Append(g, e), j) = IF j = k THEN 0 ELSE Count(Append(p, e), j)
      <4>1. \A j : j = k => Count(Append(g, e), j) = 0
        BY <2>6, <2>9, <2>12
      <4>2. ASSUME NEW j, j # k PROVE Count(Append(g, e), j) = Count(Append(p, e), j)
        <5>1. Count(g, j) = Count(p, j) BY <2>9, <4>2
        <5> QED BY <2>5, <2>6, <5>1
      <4> QED BY <4>1, <4>2
    <3> QED BY <2>10, <2>12, <3>1, <3>2
  <2> QED BY <2>11, <2>12
<1>4. n \in Nat BY LenProperties
<1> HIDE DEF Counts
<1>5. 0 \in S /\ \A m \in Nat : m \in S => m + 1 \in S BY <1>2, <1>3, <1>4, Successor
<1>6. n \in S
  <2> HIDE DEF S, n
  <2> QED BY <1>4, <1>5, Induction
<1>7. Counts(n) /\ First(n) = order BY <1>4, <1>6, <1>0
<1>8. G[n] \in Seq(Keys) BY <1>4
<1> QED BY <1>1, <1>7, <1>8 DEF Counts

-----------------------------------------------------------------------------
(* The operations, one by one.                                              *)

LEMMA CacheFields ==
    ASSUME NEW allowed, NEW c \in CacheOf(allowed)
    PROVE  /\ c = [identities |-> c.identities, entryCount |-> c.entryCount,
                   insertionOrder |-> c.insertionOrder]
           /\ c.identities \in [Keys -> Seq(Identities)]
           /\ c.insertionOrder \in Seq(Keys) /\ Len(c.insertionOrder) \in Nat
           /\ c.entryCount = Len(c.insertionOrder) /\ c.entryCount <= Capacity
           /\ \A k \in Keys : /\ c.identities[k] \in Seq(allowed[k])
                              /\ Len(c.identities[k]) \in Nat
                              /\ Len(c.identities[k]) = Count(c.insertionOrder, k)
           /\ OneGeneration(c)
<1>1. /\ c = [identities |-> c.identities, entryCount |-> c.entryCount,
              insertionOrder |-> c.insertionOrder]
      /\ c.identities \in [Keys -> Seq(Identities)]
      /\ c.insertionOrder \in Seq(Keys)
      /\ c.entryCount = Len(c.insertionOrder) /\ c.entryCount <= Capacity
      /\ \A k \in Keys : /\ c.identities[k] \in Seq(allowed[k])
                         /\ Len(c.identities[k]) = Count(c.insertionOrder, k)
      /\ OneGeneration(c)
  BY DEF CacheOf
<1> QED BY <1>1, LenProperties

(* What a cache needs to be one, when only the queue of k has changed.      *)
LEMMA QueueChanges ==
    ASSUME NEW allowed, NEW c \in CacheOf(allowed), NEW k \in Keys,
           NEW queue \in Seq(allowed[k]), queue \in Seq(Identities),
           ToSet(queue) \subseteq ToSet(c.identities[k]),
           NEW order \in Seq(Keys), Len(order) <= Capacity,
           \A j \in Keys : Count(order, j) =
               IF j = k THEN Len(queue) ELSE Count(c.insertionOrder, j)
    PROVE  [identities |-> [c.identities EXCEPT ![k] = queue],
            entryCount |-> Len(order), insertionOrder |-> order] \in CacheOf(allowed)
<1> DEFINE ids == [c.identities EXCEPT ![k] = queue]
           d == [identities |-> ids, entryCount |-> Len(order), insertionOrder |-> order]
<1>1. \A j \in Keys : ids[j] = IF j = k THEN queue ELSE c.identities[j]
  BY CacheFields
<1>2. ids \in [Keys -> Seq(Identities)] BY CacheFields
<1>3. \A j \in Keys : ids[j] \in Seq(allowed[j]) /\ Len(ids[j]) = Count(order, j)
  BY <1>1, CacheFields
<1>4. \A j \in Keys : ToSet(ids[j]) \subseteq ToSet(c.identities[j]) BY <1>1
<1>5. d.identities = ids /\ d.entryCount = Len(order) /\ d.insertionOrder = order OBVIOUS
<1>6. Len(order) \in Int BY LenProperties
<1>7. d \in [identities : [Keys -> Seq(Identities)], entryCount : Int,
             insertionOrder : Seq(Keys)]
  BY <1>2, <1>6
<1> HIDE DEF d, ids
<1>8. OneGeneration(d) BY <1>4, <1>5, CacheFields, FewerOfOneGeneration
<1>9. d \in CacheOf(allowed) BY <1>3, <1>5, <1>7, <1>8 DEF CacheOf
<1> QED BY <1>9 DEF d, ids

LEMMA InvalidateKeeps ==
    ASSUME NEW allowed, NEW c \in CacheOf(allowed), NEW k \in Keys
    PROVE  /\ InvalidateKey(c, k) \in CacheOf(allowed)
           /\ InvalidateKey(c, k).identities = [c.identities EXCEPT ![k] = <<>>]
<1> DEFINE order == Without(c.insertionOrder, {k})
<1>1. /\ order \in Seq(Keys)
      /\ Len(order) = Len(c.insertionOrder) - Count(c.insertionOrder, k)
      /\ \A j : Count(order, j) = IF j = k THEN 0 ELSE Count(c.insertionOrder, j)
  BY CacheFields, WithoutCounts
<1> HIDE DEF order
<1>2. /\ c.entryCount - Len(c.identities[k]) = Len(order)
      /\ Len(order) <= Capacity
  BY <1>1, CacheFields, CacheAssumption
<1>3. /\ <<>> \in Seq(allowed[k]) /\ <<>> \in Seq(Identities) /\ Len(<<>>) = 0
      /\ ToSet(<<>>) \subseteq ToSet(c.identities[k])
  BY EmptySeq DEF ToSet
<1>4. InvalidateKey(c, k) = [identities |-> [c.identities EXCEPT ![k] = <<>>],
                             entryCount |-> Len(order), insertionOrder |-> order]
  BY <1>2 DEF InvalidateKey, order
<1>5. [identities |-> [c.identities EXCEPT ![k] = <<>>],
       entryCount |-> Len(order), insertionOrder |-> order] \in CacheOf(allowed)
  BY <1>1, <1>2, <1>3, QueueChanges
<1> QED BY <1>4, <1>5

(* An identity leaves at the head of its queue, and with it one entry of    *)
(* its key in the order.                                                    *)
LEMMA OneLeaves ==
    ASSUME NEW allowed, NEW c \in CacheOf(allowed),
           NEW n \in 1..Len(c.insertionOrder), NEW k \in Keys, c.insertionOrder[n] = k
    PROVE  /\ c.identities[k] # <<>>
           /\ [identities |-> [c.identities EXCEPT ![k] = Tail(c.identities[k])],
               entryCount |-> c.entryCount - 1,
               insertionOrder |-> RemoveAt(c.insertionOrder, n)] \in CacheOf(allowed)
<1> DEFINE order == RemoveAt(c.insertionOrder, n)
           queue == c.identities[k]
<1>1. /\ order \in Seq(Keys) /\ Len(order) = Len(c.insertionOrder) - 1
      /\ \A j : Count(c.insertionOrder, j) = Count(order, j) + (IF k = j THEN 1 ELSE 0)
  BY CacheFields, CountRemoveAt
<1>2. Len(order) \in Nat /\ \A j : Count(order, j) \in Nat
  <2>1. Len(order) \in Nat /\ DOMAIN order = 1..Len(order) BY <1>1, LenProperties
  <2> HIDE DEF order
  <2> QED BY <2>1, CountIs
<1> HIDE DEF order
<1>3. queue \in Seq(allowed[k]) /\ queue \in Seq(Identities)
      /\ Len(queue) = Count(c.insertionOrder, k)
  BY CacheFields
<1>4. Len(queue) = Count(order, k) + 1 /\ queue # <<>> BY <1>1, <1>2, <1>3, EmptySeq
<1>5. /\ Tail(queue) \in Seq(allowed[k]) /\ Tail(queue) \in Seq(Identities)
      /\ Len(Tail(queue)) = Len(queue) - 1
      /\ ToSet(Tail(queue)) \subseteq ToSet(queue)
  BY <1>3, <1>4, HeadTailProperties, ToSetTail
<1>6. /\ Len(order) <= Capacity /\ c.entryCount - 1 = Len(order)
  BY <1>1, <1>2, CacheFields, CacheAssumption
<1>7. \A j \in Keys : Count(order, j) =
          IF j = k THEN Len(Tail(queue)) ELSE Count(c.insertionOrder, j)
  BY <1>1, <1>2, <1>4, <1>5
<1>8. [identities |-> [c.identities EXCEPT ![k] = Tail(queue)],
       entryCount |-> Len(order), insertionOrder |-> order] \in CacheOf(allowed)
  BY <1>1, <1>5, <1>6, <1>7, QueueChanges
<1> QED BY <1>4, <1>6, <1>8 DEF order

LEMMA TakeKeeps ==
    ASSUME NEW allowed, NEW c \in CacheOf(allowed), NEW k \in Keys
    PROVE  /\ TakeFrom(c, k) \in CacheOf(allowed)
           /\ Found(c, k) \in allowed[k] \cup {Nobody}
<1> DEFINE order == c.insertionOrder
           queue == c.identities[k]
<1>1. CASE queue = <<>> BY <1>1 DEF TakeFrom, Found
<1>2. CASE queue # <<>>
  <2>1. queue \in Seq(allowed[k]) /\ Len(queue) \in Nat /\ Len(queue) = Count(order, k)
        /\ Len(queue) # 0
    BY <1>2, CacheFields, EmptySeq
  <2>2. Found(c, k) \in allowed[k] BY <1>2, <2>1, HeadTailProperties DEF Found
  <2> DEFINE places == {n \in 1..Len(order) : order[n] = k}
  <2>3. Len(order) \in Nat /\ DOMAIN order = 1..Len(order)
    BY CacheFields, LenProperties
  <2>4. places # {}
    <3> HIDE DEF order
    <3> QED BY <2>1, <2>3, CountZero
  <2>5. places \in SUBSET Nat BY <2>3
  <2>6. Min(places) \in places
    <3> HIDE DEF places
    <3> QED BY <2>4, <2>5, MinIn
  <2>7. RemoveFirst(order, k) = RemoveAt(order, Min(places))
    BY <2>4 DEF RemoveFirst, SelectInSeq
  <2>8. TakeFrom(c, k) =
            [identities |-> [c.identities EXCEPT ![k] = Tail(queue)],
             entryCount |-> c.entryCount - 1,
             insertionOrder |-> RemoveAt(order, Min(places))]
    BY <1>2, <2>7 DEF TakeFrom
  <2>9. Min(places) \in 1..Len(order) /\ order[Min(places)] = k BY <2>6
  <2> HIDE DEF places
  <2> QED BY <2>2, <2>8, <2>9, OneLeaves
<1> QED BY <1>1, <1>2

LEMMA EvictKeeps ==
    ASSUME NEW allowed, NEW c \in CacheOf(allowed), c.entryCount # 0
    PROVE  /\ EvictOldest(c) \in CacheOf(allowed)
           /\ EvictOldest(c).entryCount = c.entryCount - 1
<1> DEFINE order == c.insertionOrder
           k == Head(order)
<1>1. order \in Seq(Keys) /\ Len(order) \in Nat /\ Len(order) # 0 /\ order # <<>>
  BY CacheFields, EmptySeq
<1>2. 1 \in 1..Len(order) /\ k \in Keys /\ order[1] = k BY <1>1, HeadTailProperties
<1>3. Tail(order) = RemoveAt(order, 1)
  <2> HIDE DEF order
  <2> QED BY <1>1, TailIsRemoveAt
<1>4. /\ c.identities[k] # <<>>
      /\ [identities |-> [c.identities EXCEPT ![k] = Tail(c.identities[k])],
          entryCount |-> c.entryCount - 1,
          insertionOrder |-> RemoveAt(order, 1)] \in CacheOf(allowed)
  BY <1>2, OneLeaves
<1>5. EvictOldest(c) =
         [identities |-> [c.identities EXCEPT ![k] = Tail(c.identities[k])],
          entryCount |-> c.entryCount - 1,
          insertionOrder |-> RemoveAt(order, 1)]
  BY <1>3, <1>4 DEF EvictOldest
<1> QED BY <1>4, <1>5

(* The turns of the eviction loop. *)
EvictSteps(G, allowed, c) ==
    LET n == Len(c.insertionOrder)
    IN /\ G \in [0..n -> CacheOf(allowed)]
       /\ G[0] = c
       /\ \A m \in 1..n : G[m] = IF G[m - 1].entryCount >= Capacity
                                THEN EvictOldest(G[m - 1]) ELSE G[m - 1]
       /\ EvictOldestIfFull(c) = G[n]

LEMMA EvictsInSteps ==
    ASSUME NEW allowed, NEW c \in CacheOf(allowed), Capacity # 0
    PROVE  \E G : EvictSteps(G, allowed, c)
<1> DEFINE order == c.insertionOrder
           n == Len(order)
           V == CacheOf(allowed)
           f == [p \in V \X Keys |-> IF p[1].entryCount >= Capacity
                                     THEN EvictOldest(p[1]) ELSE p[1]]
           rec(h) == [t \in SUBSET (1..n) |-> IF t = {} THEN c ELSE
                        IF h[t \ {Max(t)}].entryCount >= Capacity
                        THEN EvictOldest(h[t \ {Max(t)}]) ELSE h[t \ {Max(t)}]]
           iter == CHOOSE h : h = rec(h)
<1>0. Capacity \in Nat BY CacheAssumption
<1>1. n \in Nat /\ DOMAIN order = 1..n /\ \A m \in 1..n : order[m] \in Keys
  BY CacheFields, LenProperties, ElementOfSeq
<1>2. \A d \in V : /\ d.entryCount \in Nat /\ d.entryCount <= Capacity
                   /\ d.entryCount >= Capacity =>
                        /\ EvictOldest(d) \in V
                        /\ EvictOldest(d).entryCount = d.entryCount - 1
  BY <1>0, CacheFields, EvictKeeps
<1>3. \A d \in V, e \in Keys : f[d, e] = IF d.entryCount >= Capacity
                                         THEN EvictOldest(d) ELSE d
  OBVIOUS
<1>4. f \in [V \X Keys -> V] BY <1>2
<1>5. c \in V OBVIOUS
<1> HIDE DEF f, n, V
<1>6. \A t \in SUBSET (1..n) : t # {} => order[Max(t)] \in Keys /\ t \ {Max(t)} \in SUBSET (1..n)
  BY <1>1, MaxIn
<1>7. PICK g \in [SUBSET (1..n) -> V] : FoldsThrough(g, SUBSET (1..n), c, f, order)
  BY <1>1, <1>4, <1>5, FoldDefined
<1>8. g = rec(g)
  <2>1. ASSUME NEW t \in SUBSET (1..n) PROVE g[t] = rec(g)[t]
    <3>1. t # {} => g[t \ {Max(t)}] \in V BY <1>6
    <3> QED BY <1>3, <1>6, <1>7, <3>1 DEF FoldsThrough
  <2> QED BY <2>1
<1>9. iter = rec(iter)
  <2> HIDE DEF rec
  <2> QED BY <1>8
<1>10. iter[{}] = c /\ FoldsWhere(iter, SUBSET (1..n), V, f, order)
  <2> HIDE DEF iter
  <2>1. iter[{}] = c BY <1>9
  <2>2. ASSUME NEW t \in SUBSET (1..n), t # {}, iter[t \ {Max(t)}] \in V
        PROVE  iter[t] = f[iter[t \ {Max(t)}], order[Max(t)]]
    <3>1. iter[t] = IF iter[t \ {Max(t)}].entryCount >= Capacity
                    THEN EvictOldest(iter[t \ {Max(t)}]) ELSE iter[t \ {Max(t)}]
      BY <1>9, <2>2
    <3> HIDE DEF rec
    <3>2. order[Max(t)] \in Keys BY <1>6, <2>2
    <3> QED BY <1>3, <2>2, <3>1, <3>2
  <2> QED BY <2>1, <2>2 DEF FoldsWhere
<1>11. EvictOldestIfFull(c) = iter[1..n]
  BY <1>1 DEF EvictOldestIfFull, FoldLeft, MapThenFoldSet
<1> HIDE DEF iter, rec
<1>12. FoldsAlong(iter, n, V, c, f, order) BY <1>1, <1>4, <1>5, <1>10, FoldSteps
<1>13. PICK G \in [0..n -> V] :
         /\ G[0] = c
         /\ \A m \in 1..n : G[m] = f[G[m - 1], order[m]]
         /\ iter[1..n] = G[n]
  BY <1>12 DEF FoldsAlong
<1>14. \A m \in 1..n : G[m] = IF G[m - 1].entryCount >= Capacity
                            THEN EvictOldest(G[m - 1]) ELSE G[m - 1]
  <2> SUFFICES ASSUME NEW m \in 1..n
               PROVE  G[m] = IF G[m - 1].entryCount >= Capacity
                             THEN EvictOldest(G[m - 1]) ELSE G[m - 1]
    OBVIOUS
  <2>1. G[m - 1] \in V /\ order[m] \in Keys BY <1>1, Upto
  <2> QED BY <1>3, <1>13, <2>1
<1> QED BY <1>11, <1>13, <1>14 DEF EvictSteps, n, V

(* The first turn leaves room, and no other does anything.                  *)
LEMMA EvictIs ==
    ASSUME NEW allowed, NEW c \in CacheOf(allowed), Capacity # 0
    PROVE  /\ EvictOldestIfFull(c) =
                 IF c.entryCount >= Capacity THEN EvictOldest(c) ELSE c
           /\ EvictOldestIfFull(c) \in CacheOf(allowed)
           /\ EvictOldestIfFull(c).entryCount < Capacity
<1> DEFINE n == Len(c.insertionOrder)
           e == IF c.entryCount >= Capacity THEN EvictOldest(c) ELSE c
<1>1. /\ Capacity \in Nat /\ n \in Nat /\ c.entryCount = n /\ n <= Capacity
  BY CacheAssumption, CacheFields
<1>2. e \in CacheOf(allowed) /\ e.entryCount < Capacity
  BY <1>1, EvictKeeps
<1>3. PICK G : EvictSteps(G, allowed, c) BY EvictsInSteps
<1>4. /\ G[0] = c /\ EvictOldestIfFull(c) = G[n]
      /\ \A m \in 1..n : G[m] = IF G[m - 1].entryCount >= Capacity
                               THEN EvictOldest(G[m - 1]) ELSE G[m - 1]
  BY <1>3 DEF EvictSteps
<1> DEFINE T == {m \in Nat : m <= n => G[m] = IF m = 0 THEN c ELSE e}
<1> HIDE DEF n
<1>5. ASSUME NEW m \in Nat, m \in T PROVE m + 1 \in T
  <2> SUFFICES ASSUME m + 1 <= n PROVE G[m + 1] = e BY <1>1
  <2>1. m <= n /\ m + 1 \in 1..n /\ (m + 1) - 1 = m BY <1>1, Successor
  <2>2. G[m + 1] = IF G[m].entryCount >= Capacity THEN EvictOldest(G[m]) ELSE G[m]
    BY <1>4, <2>1
  <2>3. G[m] = IF m = 0 THEN c ELSE e BY <1>5, <2>1
  <2>4. CASE m = 0 BY <2>2, <2>3, <2>4
  <2>5. CASE m # 0
    <3>1. G[m] = e BY <2>3, <2>5
    <3>2. ~(e.entryCount >= Capacity)
      <4>1. e.entryCount \in Int /\ Capacity \in Int BY <1>1, <1>2, CacheFields
      <4> HIDE DEF e
      <4> QED BY <1>2, <4>1
    <3> HIDE DEF e
    <3> QED BY <2>2, <3>1, <3>2
  <2> QED BY <2>4, <2>5
<1>6. 0 \in T BY <1>4
<1>7. n \in T
  <2> HIDE DEF T
  <2> QED BY <1>1, <1>5, <1>6, Induction
<1>8. n = 0 => c = e BY <1>1
<1>9. G[n] = e BY <1>1, <1>7, <1>8
<1> QED BY <1>2, <1>4, <1>9

LEMMA InsertKeeps ==
    ASSUME NEW allowed \in Allowances, NEW c \in CacheOf(allowed),
           NEW k \in Keys, NEW i \in allowed[k]
    PROVE  InsertInto(c, k, i) \in CacheOf(allowed)
<1>1. CASE Capacity = 0 BY <1>1 DEF InsertInto
<1>2. CASE Capacity # 0
  <2> DEFINE e == IF GenerationChanged(c, k, i) THEN InvalidateKey(c, k) ELSE c
             same == {x \in allowed[k] : StartOf[x] = StartOf[i]}
             only == [allowed EXCEPT ![k] = same]
             d == EvictOldestIfFull(e)
  <2>1. e \in CacheOf(allowed) BY InvalidateKeeps
  <2>2. e.identities[k] \in Seq(same)
    <3>1. CASE GenerationChanged(c, k, i)
      <4>1. e.identities = [c.identities EXCEPT ![k] = <<>>] BY <3>1, InvalidateKeeps
      <4>2. e.identities[k] = <<>> BY <4>1, CacheFields
      <4> QED BY <4>2, EmptySeq
    <3>2. CASE ~GenerationChanged(c, k, i)
      <4> DEFINE queue == c.identities[k]
      <4>1. queue \in Seq(allowed[k]) /\ Len(queue) \in Nat /\ OneGeneration(c)
        BY CacheFields
      <4>2. ASSUME queue # <<>>, NEW m \in 1..Len(queue) PROVE queue[m] \in same
        <5>1. StartOf[queue[Len(queue)]] = StartOf[i]
          BY <3>2, <4>2 DEF GenerationChanged, Last
        <5>2. Len(queue) \in 1..Len(queue) BY <4>1
        <5>3. queue[m] \in ToSet(queue) /\ queue[Len(queue)] \in ToSet(queue)
          BY <4>1, <5>2, ToSetIs
        <5>4. StartOf[queue[m]] = StartOf[queue[Len(queue)]]
          BY <4>1, <5>3 DEF OneGeneration
        <5>5. queue[m] \in allowed[k] BY <4>1, ElementOfSeq
        <5> QED BY <5>1, <5>4, <5>5
      <4>3. queue \in Seq(same)
        <5>1. CASE queue = <<>> BY <5>1, EmptySeq
        <5>2. CASE queue # <<>>
          <6>1. queue \in [1..Len(queue) -> same] BY <4>1, <4>2, <5>2, LenProperties
          <6> QED BY <4>1, <6>1, SeqDef
        <5> QED BY <5>1, <5>2
      <4> QED BY <3>2, <4>3
    <3> QED BY <3>1, <3>2
  <2>3. e \in CacheOf(only)
    <3> HIDE DEF e, same
    <3>1. \A j \in Keys : e.identities[j] \in Seq(only[j])
      BY <2>1, <2>2, CacheFields DEF Allowances
    <3> HIDE DEF only
    <3> QED BY <2>1, <3>1 DEF CacheOf
  <2>4. d \in CacheOf(only) /\ d.entryCount < Capacity
    <3> HIDE DEF e, only
    <3> QED BY <1>2, <2>3, EvictIs
  <2> DEFINE ids == [d.identities EXCEPT ![k] = Append(@, i)]
             order == Append(d.insertionOrder, k)
             r == [identities |-> ids, entryCount |-> d.entryCount + 1, insertionOrder |-> order]
  <2>5. InsertInto(c, k, i) = r BY <1>2 DEF InsertInto
  <2> HIDE DEF e, d
  <2>6. /\ d.identities \in [Keys -> Seq(Identities)]
        /\ d.insertionOrder \in Seq(Keys) /\ Len(d.insertionOrder) \in Nat
        /\ d.entryCount = Len(d.insertionOrder)
        /\ \A j \in Keys : /\ d.identities[j] \in Seq(only[j])
                           /\ Len(d.identities[j]) \in Nat
                           /\ Len(d.identities[j]) = Count(d.insertionOrder, j)
        /\ OneGeneration(d)
    <3> HIDE DEF only
    <3> QED BY <2>4, CacheFields
  <2>7. only[k] = same /\ \A j \in Keys \ {k} : only[j] = allowed[j] BY DEF Allowances
  <2>8. i \in same /\ i \in Identities /\ same \subseteq allowed[k] BY DEF Allowances
  <2>9. /\ Append(d.identities[k], i) \in Seq(same)
        /\ Append(d.identities[k], i) \in Seq(allowed[k])
        /\ Append(d.identities[k], i) \in Seq(Identities)
        /\ Len(Append(d.identities[k], i)) = Len(d.identities[k]) + 1
    <3>1. d.identities[k] \in Seq(same) /\ d.identities[k] \in Seq(Identities)
      BY <2>6, <2>7
    <3> HIDE DEF same
    <3>2. /\ Append(d.identities[k], i) \in Seq(same)
          /\ Append(d.identities[k], i) \in Seq(Identities)
          /\ Len(Append(d.identities[k], i)) = Len(d.identities[k]) + 1
      BY <2>8, <3>1, AppendProperties
    <3> QED BY <2>8, <3>2, SeqMonotonic
  <2>10. \A j \in Keys : ids[j] = IF j = k THEN Append(d.identities[k], i) ELSE d.identities[j]
    BY <2>6
  <2>11. ids \in [Keys -> Seq(Identities)] BY <2>6, <2>9
  <2>12. /\ order \in Seq(Keys) /\ Len(order) = Len(d.insertionOrder) + 1
         /\ \A j : Count(order, j) = Count(d.insertionOrder, j) + (IF k = j THEN 1 ELSE 0)
    BY <2>6, AppendProperties, CountAppend
  <2> HIDE DEF ids, order, same, only
  <2>13. \A j \in Keys : ids[j] \in Seq(allowed[j]) BY <2>6, <2>7, <2>9, <2>10
  <2>14. \A j \in Keys : Len(ids[j]) = Count(order, j)
    <3>1. ASSUME NEW j \in Keys PROVE Len(ids[j]) = Count(order, j)
      <4>1. Count(order, j) = Len(d.identities[j]) + (IF k = j THEN 1 ELSE 0)
        BY <2>6, <2>12
      <4>2. CASE j = k BY <2>9, <2>10, <4>1, <4>2
      <4>3. CASE j # k
        <5>1. ids[j] = d.identities[j] BY <2>10, <4>3
        <5>2. Len(d.identities[j]) \in Nat BY <2>6
        <5>3. (IF k = j THEN 1 ELSE 0) = 0 BY <4>3
        <5>4. \A l \in Nat : l + 0 = l OBVIOUS
        <5>5. Count(order, j) = Len(d.identities[j]) BY <4>1, <5>2, <5>3, <5>4
        <5> QED BY <5>1, <5>5
      <4> QED BY <4>2, <4>3
    <3> QED BY <3>1
  <2>15. /\ d.entryCount + 1 = Len(order) /\ d.entryCount + 1 <= Capacity
         /\ d.entryCount + 1 \in Int
    BY <2>4, <2>6, <2>12, CacheAssumption
  <2>16. OneGeneration(r)
    <3>1. \A x, y \in ToSet(ids[k]) : StartOf[x] = StartOf[y]
      <4>1. ids[k] \in Seq(same) BY <2>9, <2>10
      <4>2. ToSet(ids[k]) \subseteq same BY <4>1, ToSetIs
      <4> QED BY <4>2 DEF same
    <3>2. \A j \in Keys \ {k} : \A x, y \in ToSet(ids[j]) : StartOf[x] = StartOf[y]
      BY <2>6, <2>10 DEF OneGeneration
    <3> QED BY <3>1, <3>2 DEF OneGeneration
  <2>17. /\ r \in [identities : [Keys -> Seq(Identities)], entryCount : Int,
                   insertionOrder : Seq(Keys)]
         /\ r.identities = ids /\ r.entryCount = d.entryCount + 1 /\ r.insertionOrder = order
    BY <2>11, <2>12, <2>15
  <2> HIDE DEF r
  <2>18. r \in CacheOf(allowed) BY <2>13, <2>14, <2>15, <2>16, <2>17 DEF CacheOf
  <2> QED BY <2>5, <2>18
<1> QED BY <1>1, <1>2

LEMMA EmptyKeeps ==
    ASSUME NEW allowed
    PROVE  EmptyCache \in CacheOf(allowed)
<1>1. EmptyCache \in [identities : [Keys -> Seq(Identities)], entryCount : Int,
                      insertionOrder : Seq(Keys)]
  BY DEF EmptyCache
<1>2. /\ \A k \in Keys : EmptyCache.identities[k] = <<>>
      /\ EmptyCache.entryCount = 0 /\ EmptyCache.insertionOrder = <<>>
  BY DEF EmptyCache
<1>3. ToSet(<<>>) = {} BY DEF ToSet
<1>4. OneGeneration(EmptyCache) BY <1>2, <1>3 DEF OneGeneration
<1>5. \A k \in Keys : Len(EmptyCache.identities[k]) = Count(EmptyCache.insertionOrder, k)
  BY <1>2, CountEmpty, EmptySeq
<1>6. \A k \in Keys : EmptyCache.identities[k] \in Seq(allowed[k]) BY <1>2, EmptySeq
<1>7. EmptyCache.entryCount = Len(EmptyCache.insertionOrder)
      /\ EmptyCache.entryCount <= Capacity
  BY <1>2, CacheAssumption
<1> QED BY <1>1, <1>4, <1>5, <1>6, <1>7 DEF CacheOf

-----------------------------------------------------------------------------
(* The log of opens.                                                        *)

Entry == [key : Keys, identity : Identities]

(* The place of an order's entry among those of its key. *)
Nth(order, n) == Count(SubSeq(order, 1, n), order[n])

LEMMA NthIs ==
    ASSUME NEW order \in Seq(Keys), NEW n \in 1..Len(order)
    PROVE  /\ Quantify(1..n, LAMBDA m : order[m] = order[n]) = Nth(order, n)
           /\ Nth(order, n) \in 1..Count(order, order[n])
<1> DEFINE k == order[n]
           first == SubSeq(order, 1, n)
           N == Len(order)
<1>1. N \in Nat /\ DOMAIN order = 1..N /\ n \in Nat /\ n <= N BY LenProperties
<1>2. first \in Seq(Keys) /\ Len(first) = n BY <1>1, PrefixSteps
<1>3. DOMAIN first = 1..n /\ \A m \in 1..n : first[m] = order[m]
  BY <1>1, <1>2, SubSeqProperties, LenProperties
<1> DEFINE A == {m \in 1..n : order[m] = k}
           B == {m \in 1..N : order[m] = k}
<1>4. Places(first, n, k) = A BY <1>3 DEF Places
<1>5. Count(first, k) = Cardinality(A) /\ IsFiniteSet(A)
  <2> HIDE DEF first, A, k
  <2>1. IsFiniteSet(Places(first, n, k)) /\ Count(first, k) = Cardinality(Places(first, n, k))
    BY ONLY <1>1, <1>3, CountPlaces
  <2> QED BY <1>4, <2>1
<1>6. Places(order, N, k) = B BY DEF Places
<1>7. Count(order, k) = Cardinality(B) /\ IsFiniteSet(B)
  <2> HIDE DEF N, B, k
  <2>1. IsFiniteSet(Places(order, N, k)) /\ Count(order, k) = Cardinality(Places(order, N, k))
    BY ONLY <1>1, CountPlaces
  <2> QED BY <1>6, <2>1
<1>8. A \subseteq B /\ n \in A BY <1>1
<1>9. Cardinality(A) <= Cardinality(B) /\ Cardinality(A) \in Nat /\ Cardinality(B) \in Nat
  <2> HIDE DEF A, B
  <2> QED BY <1>5, <1>7, <1>8, FS_Subset, FS_CardinalityType
<1>10. Cardinality(A) # 0
  <2> HIDE DEF A
  <2> QED BY <1>5, <1>8, FS_EmptySet
<1>11. Quantify(1..n, LAMBDA m : order[m] = k) = Cardinality(A)
  BY DEF Quantify
<1> QED BY <1>5, <1>7, <1>9, <1>10, <1>11 DEF Nth

(* Each entry of the order is an open whose identity is in its key's queue. *)
LogEntry(ids, order, log, n) ==
    /\ log[n] = [key |-> order[n], identity |-> ids[order[n]][Nth(order, n)]]
    /\ log[n] \in Entry
    /\ Nth(order, n) \in 1..Len(ids[order[n]])

IsLog(ids, order, log) ==
    /\ log \in Seq(Entry) /\ Len(log) = Len(order)
    /\ \A n \in 1..Len(log) : LogEntry(ids, order, log, n)

LEMMA LogIs ==
    ASSUME NEW allowed, NEW c \in CacheOf(allowed)
    PROVE  IsLog(c.identities, c.insertionOrder, LogOf(c))
<1> DEFINE order == c.insertionOrder
           N == Len(order)
           log == LogOf(c)
<1>1. N \in Nat /\ DOMAIN order = 1..N /\ order \in Seq(Keys)
  BY CacheFields, LenProperties
<1>2. ASSUME NEW n \in 1..N PROVE LogEntry(c.identities, c.insertionOrder, log, n)
  <2> DEFINE k == order[n]
             nth == Quantify(1..n, LAMBDA m : order[m] = k)
             queue == c.identities[k]
  <2>1. k \in Keys BY <1>1, ElementOfSeq
  <2>2. Count(order, k) = Len(queue) /\ queue \in Seq(Identities)
    BY <2>1, CacheFields
  <2>3. nth = Nth(order, n) /\ nth \in 1..Len(queue) BY <1>1, <2>2, NthIs
  <2>4. log[n] = [key |-> k, identity |-> IF nth <= Len(queue) THEN queue[nth] ELSE Nobody]
    BY <1>1 DEF LogOf
  <2>5. queue[nth] \in Identities BY <2>2, <2>3, ElementOfSeq
  <2>6. log[n] = [key |-> k, identity |-> queue[nth]]
    <3> HIDE DEF nth, queue
    <3>1. nth <= Len(queue) BY <2>2, <2>3, LenProperties
    <3> QED BY <2>4, <3>1
  <2> HIDE DEF nth, queue, log
  <2> QED BY <2>1, <2>3, <2>5, <2>6 DEF LogEntry, Entry, queue
<1>3. log = [n \in 1..N |-> log[n]] BY <1>1 DEF LogOf
<1>4. \A n \in 1..N : log[n] \in Entry BY <1>2 DEF LogEntry
<1>5. log \in Seq(Entry) /\ Len(log) = N
  <2> HIDE DEF log
  <2>1. log \in [1..N -> Entry] BY <1>3, <1>4
  <2> QED BY <1>1, <2>1, SeqDef, LenProperties
<1> QED BY <1>2, <1>5 DEF IsLog

(* and there is no other such log. *)
LEMMA OneLog ==
    ASSUME NEW ids, NEW order, NEW log, NEW other,
           IsLog(ids, order, log), IsLog(ids, order, other)
    PROVE  log = other
<1>1. /\ log \in Seq(Entry) /\ other \in Seq(Entry) /\ Len(log) = Len(other)
      /\ \A n \in 1..Len(log) : log[n] = other[n]
  BY DEF IsLog, LogEntry
<1> QED BY <1>1, SeqEqual

(* The beginnings of a sequence that has lost its n-th element. *)
LEMMA BeginningsWithout ==
    ASSUME NEW S, NEW s \in Seq(S), NEW n \in 1..Len(s), NEW m \in 1..(Len(s) - 1)
    PROVE  /\ m < n => SubSeq(RemoveAt(s, n), 1, m) = SubSeq(s, 1, m)
           /\ n <= m => SubSeq(RemoveAt(s, n), 1, m) = RemoveAt(SubSeq(s, 1, m + 1), n)
<1> DEFINE N == Len(s)
           r == RemoveAt(s, n)
           a == SubSeq(r, 1, m)
           b == SubSeq(s, 1, m)
           c == SubSeq(s, 1, m + 1)
           d == RemoveAt(c, n)
<1>1. /\ r \in Seq(S) /\ Len(r) = N - 1
      /\ \A i \in 1..(N - 1) : r[i] = IF i < n THEN s[i] ELSE s[i + 1]
  BY CountRemoveAt
<1>2. N \in Nat /\ n \in Nat /\ m \in Nat /\ m <= N - 1 BY LenProperties
<1> HIDE DEF r, N
<1>3. a \in Seq(S) /\ Len(a) = m /\ \A i \in 1..m : a[i] = r[i]
  <2>1. m \in 0..Len(r) BY <1>1, <1>2
  <2>2. \A i \in 1..m : r[i] \in S BY <1>1, <1>2, ElementOfSeq
  <2> QED BY <1>1, <1>2, <2>1, <2>2, PrefixSteps, SubSeqProperties
<1>4. /\ b \in Seq(S) /\ Len(b) = m /\ \A i \in 1..m : b[i] = s[i]
      /\ c \in Seq(S) /\ Len(c) = m + 1 /\ \A i \in 1..(m + 1) : c[i] = s[i]
  <2>1. m \in 0..N /\ m + 1 \in 0..N BY <1>2
  <2>2. \A i \in 1..N : s[i] \in S BY ElementOfSeq DEF N
  <2> QED BY <1>2, <2>1, <2>2, PrefixSteps, SubSeqProperties DEF N
<1> HIDE DEF a, b, c, d
<1>5. CASE m < n
  <2>1. \A i \in 1..m : a[i] = b[i] BY <1>1, <1>2, <1>3, <1>4, <1>5
  <2>2. a = b BY <1>3, <1>4, <2>1, SeqEqual
  <2> QED BY <1>2, <1>5, <2>2 DEF a, b, r
<1>6. CASE n <= m
  <2>1. n \in 1..Len(c) BY <1>2, <1>4, <1>6
  <2>2. /\ d \in Seq(S) /\ Len(d) = Len(c) - 1
        /\ \A i \in 1..(Len(c) - 1) : d[i] = IF i < n THEN c[i] ELSE c[i + 1]
    BY <1>4, <2>1, CountRemoveAt DEF d
  <2>3. Len(c) - 1 = m BY <1>2, <1>4
  <2>4. ASSUME NEW i \in 1..m PROVE a[i] = d[i]
    <3>1. i \in 1..(N - 1) /\ i \in 1..(m + 1) /\ i + 1 \in 1..(m + 1) BY <1>2
    <3> QED BY <1>1, <1>3, <1>4, <2>2, <2>3, <3>1
  <2>5. a = d BY <1>3, <2>2, <2>3, <2>4, SeqEqual
  <2> QED BY <1>2, <1>6, <2>5 DEF a, c, d, r
<1> QED BY <1>2, <1>5, <1>6

(* The oldest identity of a key leaves with the oldest entry of the key. *)
LEMMA LeavesLog ==
    ASSUME NEW allowed, NEW c \in CacheOf(allowed),
           NEW n \in 1..Len(c.insertionOrder), NEW k \in Keys, c.insertionOrder[n] = k,
           \A m \in 1..(n - 1) : c.insertionOrder[m] # k,
           NEW count,
           NEW d, d = [identities |-> [c.identities EXCEPT ![k] = Tail(c.identities[k])],
                       entryCount |-> count,
                       insertionOrder |-> RemoveAt(c.insertionOrder, n)]
    PROVE  /\ IsLog(d.identities, d.insertionOrder, RemoveAt(LogOf(c), n))
           /\ LogOf(c)[n].identity = Head(c.identities[k])
<1> DEFINE order == c.insertionOrder
           N == Len(order)
           log == LogOf(c)
           r == RemoveAt(order, n)
           R == RemoveAt(log, n)
<1>0. order \in Seq(Keys) /\ N \in Nat /\ n \in Nat /\ n <= N BY CacheFields, LenProperties
<1>1. log \in Seq(Entry) /\ Len(log) = N /\ \A m \in 1..N : LogEntry(c.identities, c.insertionOrder, log, m)
  BY LogIs DEF IsLog
<1>2. /\ r \in Seq(Keys) /\ Len(r) = N - 1
      /\ \A m \in 1..(N - 1) : r[m] = IF m < n THEN order[m] ELSE order[m + 1]
  BY <1>0, CountRemoveAt
<1>3. /\ R \in Seq(Entry) /\ Len(R) = N - 1
      /\ \A m \in 1..(N - 1) : R[m] = IF m < n THEN log[m] ELSE log[m + 1]
  <2>1. log \in Seq(Entry) /\ n \in 1..Len(log) /\ Len(log) = N BY <1>0, <1>1
  <2> HIDE DEF log, N
  <2> QED BY ONLY <2>1, CountRemoveAt
<1>4. /\ d.insertionOrder = r
      /\ d.identities[k] = Tail(c.identities[k])
      /\ \A j \in Keys \ {k} : d.identities[j] = c.identities[j]
  BY CacheFields
<1>5. c.identities \in [Keys -> Seq(Identities)] /\ \A m \in 1..N : order[m] \in Keys
  BY <1>0, CacheFields, ElementOfSeq
<1> HIDE DEF R, r, log
<1>6. ASSUME NEW m \in 1..(N - 1) PROVE LogEntry(d.identities, d.insertionOrder, R, m)
  <2>1. m \in 1..N /\ m + 1 \in 1..N /\ r[m] \in Keys /\ m \in 1..Len(r)
    <3>1. m \in 1..N /\ m + 1 \in 1..N BY <1>0
    <3> QED BY <1>2, <1>5, <3>1
  <2>2. CASE m < n
    <3>1. r[m] = order[m] /\ R[m] = log[m] /\ r[m] # k
      <4>1. m \in 1..(n - 1) BY <1>0, <2>2
      <4> QED BY <1>2, <1>3, <2>2, <4>1
    <3>2. SubSeq(r, 1, m) = SubSeq(order, 1, m)
      BY <1>0, <2>2, BeginningsWithout DEF r
    <3>3. Nth(r, m) = Nth(order, m) BY <3>1, <3>2 DEF Nth
    <3>4. d.identities[r[m]] = c.identities[r[m]] BY <1>4, <2>1, <3>1
    <3>5. LogEntry(c.identities, c.insertionOrder, log, m) BY <1>1, <2>1
    <3> QED BY <1>4, <3>1, <3>3, <3>4, <3>5 DEF LogEntry
  <2>3. CASE n <= m
    <3>1. r[m] = order[m + 1] /\ R[m] = log[m + 1]
      BY <1>0, <1>2, <1>3, <2>3
    <3> DEFINE j == r[m]
               first == SubSeq(order, 1, m + 1)
    <3>2. SubSeq(r, 1, m) = RemoveAt(first, n)
      BY <1>0, <2>3, BeginningsWithout DEF r
    <3>3. /\ first \in Seq(Keys) /\ n \in 1..Len(first) /\ first[n] = k
      <4>1. m + 1 \in 0..N /\ n \in 1..(m + 1) BY <1>0, <2>1, <2>3
      <4>2. \A i \in 1..(m + 1) : first[i] = order[i]
        BY <1>0, <1>5, <2>1, SubSeqProperties
      <4> QED BY <1>0, <4>1, <4>2, PrefixSteps
    <3>4. Count(first, j) = Count(RemoveAt(first, n), j) + (IF k = j THEN 1 ELSE 0)
      <4> HIDE DEF first
      <4> QED BY <3>3, CountRemoveAt
    <3>5. Nth(order, m + 1) = Nth(r, m) + (IF k = j THEN 1 ELSE 0)
      BY <3>1, <3>2, <3>4 DEF Nth
    <3>6. Nth(r, m) \in Nat /\ Nth(r, m) >= 1
      <4>1. Nth(r, m) \in 1..Count(r, r[m]) BY <1>2, <2>1, NthIs
      <4> QED BY <4>1
    <3>7. LogEntry(c.identities, c.insertionOrder, log, m + 1) BY <1>1, <2>1
    <3>8. /\ R[m] = [key |-> j, identity |-> c.identities[j][Nth(order, m + 1)]]
          /\ R[m] \in Entry /\ Nth(order, m + 1) \in 1..Len(c.identities[j])
      BY <3>1, <3>7 DEF LogEntry
    <3> HIDE DEF j
    <3>9. CASE j = k
      <4> DEFINE queue == c.identities[k]
      <4>1. queue \in Seq(Identities) /\ Len(queue) \in Nat BY <1>5, LenProperties
      <4>2. Nth(order, m + 1) = Nth(r, m) + 1 BY <3>5, <3>6, <3>9
      <4>3. Nth(r, m) + 1 \in 1..Len(queue) BY <3>8, <3>9, <4>2
      <4>4. queue # <<>> BY <3>6, <4>1, <4>3, EmptySeq
      <4>5. /\ Len(Tail(queue)) = Len(queue) - 1
            /\ \A i \in 1..Len(Tail(queue)) : Tail(queue)[i] = queue[i + 1]
        BY <4>1, <4>4, HeadTailProperties
      <4>6. Nth(r, m) \in 1..Len(Tail(queue)) BY <3>6, <4>1, <4>3, <4>5
      <4>7. Tail(queue)[Nth(r, m)] = queue[Nth(order, m + 1)] BY <4>2, <4>5, <4>6
      <4> QED BY <1>4, <3>8, <3>9, <4>6, <4>7 DEF LogEntry, j
    <3>10. CASE j # k
      <4>1. Nth(order, m + 1) = Nth(r, m) BY <3>5, <3>6, <3>10
      <4>2. d.identities[j] = c.identities[j] BY <1>4, <2>1, <3>10 DEF j
      <4> QED BY <1>4, <3>8, <4>1, <4>2 DEF LogEntry, j
    <3> QED BY <3>9, <3>10
  <2> QED BY <1>0, <2>2, <2>3
<1>7. IsLog(d.identities, d.insertionOrder, R) BY <1>2, <1>3, <1>4, <1>6 DEF IsLog
<1>8. Nth(order, n) = 1
  <2>1. n - 1 \in Nat /\ (n - 1) + 1 = n /\ n - 1 \in 0..N BY <1>0
  <2> DEFINE before == SubSeq(order, 1, n - 1)
  <2>2. before \in Seq(Keys) /\ Len(before) = n - 1 /\ order[n] \in Keys
    BY <1>0, <1>5, <2>1, PrefixSteps
  <2>3. \A m \in 1..(n - 1) : before[m] = order[m] BY <1>0, <1>5, SubSeqProperties
  <2>4. SubSeq(order, 1, n) = Append(before, order[n])
    <3>1. SubSeq(order, 1, (n - 1) + 1) = Append(SubSeq(order, 1, n - 1), order[(n - 1) + 1])
      BY <1>0, <2>1, PrefixSteps
    <3> QED BY <2>1, <3>1
  <2>5. DOMAIN before = 1..(n - 1) BY <2>2, LenProperties
  <2> HIDE DEF before
  <2>6. Count(before, k) = 0
    <3>1. PICK l \in Nat : l = n - 1 BY <2>1
    <3>2. DOMAIN before = 1..l /\ \A m \in 1..l : before[m] # k BY <2>3, <2>5, <3>1
    <3> QED BY <3>2, CountZero
  <2>7. Count(Append(before, k), k) = Count(before, k) + 1
    BY <2>2, CountAppend
  <2>8. Nth(order, n) = Count(Append(before, k), k) BY <2>4 DEF Nth
  <2> QED BY <2>6, <2>7, <2>8
<1>9. log[n].identity = Head(c.identities[k])
  <2>1. LogEntry(c.identities, c.insertionOrder, log, n) BY <1>1
  <2>2. log[n].identity = c.identities[k][1] /\ 1 \in 1..Len(c.identities[k])
    BY <1>8, <2>1 DEF LogEntry
  <2>3. c.identities[k] \in Seq(Identities) BY <1>5
  <2>4. c.identities[k] # <<>> BY <2>2, <2>3, EmptySeq
  <2> QED BY <2>2, <2>3, <2>4, HeadTailProperties
<1> QED BY <1>7, <1>9 DEF R, log

(* One more open, *)
LEMMA ExtendsLog ==
    ASSUME NEW ids, NEW order \in Seq(Keys), NEW log, IsLog(ids, order, log),
           NEW k \in Keys, NEW open \in Entry, NEW nth, nth = Count(Append(order, k), k),
           nth \in 1..Len(ids[k]), open = [key |-> k, identity |-> ids[k][nth]]
    PROVE  IsLog(ids, Append(order, k), Append(log, open))
<1> DEFINE N == Len(order)
           r == Append(order, k)
           R == Append(log, open)
<1>1. N \in Nat /\ log \in Seq(Entry) /\ Len(log) = N BY LenProperties DEF IsLog
<1>2. /\ r \in Seq(Keys) /\ Len(r) = N + 1 /\ r[N + 1] = k
      /\ \A n \in 1..N : r[n] = order[n]
  BY AppendProperties
<1>3. /\ R \in Seq(Entry) /\ Len(R) = N + 1 /\ R[N + 1] = open
      /\ \A n \in 1..N : R[n] = log[n]
  BY <1>1, AppendProperties
<1>4. SubSeq(r, 1, N + 1) = r
  <2> HIDE DEF r, N
  <2> QED BY <1>2, PrefixSteps
<1>5. ASSUME NEW n \in 1..N PROVE SubSeq(r, 1, n) = SubSeq(order, 1, n)
  <2> DEFINE a == SubSeq(r, 1, n)
             b == SubSeq(order, 1, n)
  <2>1. \A i \in 1..(N + 1) : r[i] \in Keys
    <3> HIDE DEF r
    <3> QED BY <1>2, ElementOfSeq
  <2>2. \A i \in 1..N : order[i] \in Keys BY ElementOfSeq
  <2>3. n \in 0..N /\ n \in 0..Len(r) BY <1>1, <1>2
  <2>4. a \in Seq(Keys) /\ Len(a) = n /\ \A i \in 1..n : a[i] = r[i]
    <3> HIDE DEF r
    <3> QED BY <1>1, <1>2, <2>1, <2>3, PrefixSteps, SubSeqProperties
  <2>5. b \in Seq(Keys) /\ Len(b) = n /\ \A i \in 1..n : b[i] = order[i]
    BY <1>1, <2>2, <2>3, PrefixSteps, SubSeqProperties
  <2>6. \A i \in 1..n : a[i] = b[i] BY <1>1, <1>2, <2>4, <2>5
  <2> HIDE DEF a, b
  <2>7. a = b BY <2>4, <2>5, <2>6, SeqEqual
  <2> QED BY <2>7 DEF a, b
<1> HIDE DEF r, R
<1>6. ASSUME NEW n \in 1..(N + 1) PROVE LogEntry(ids, r, R, n)
  <2>1. CASE n \in 1..N
    <3>1. LogEntry(ids, order, log, n) BY <1>1, <2>1 DEF IsLog
    <3>2. Nth(r, n) = Nth(order, n) BY <1>2, <1>5, <2>1 DEF Nth
    <3> QED BY <1>2, <1>3, <2>1, <3>1, <3>2 DEF LogEntry
  <2>2. CASE n = N + 1
    <3>1. Nth(r, n) = nth BY <1>2, <1>4, <2>2 DEF Nth, r
    <3> QED BY <1>2, <1>3, <2>2, <3>1 DEF LogEntry
  <2> QED BY <1>1, <2>1, <2>2
<1>7. IsLog(ids, r, R) BY <1>2, <1>3, <1>6 DEF IsLog
<1> QED BY <1>7 DEF r, R

(* in a cache, *)
LEMMA AppendedLog ==
    ASSUME NEW allowed, NEW c \in CacheOf(allowed), NEW k \in Keys, NEW i \in Identities
    PROVE  IsLog([c.identities EXCEPT ![k] = Append(@, i)], Append(c.insertionOrder, k),
                 Append(LogOf(c), [key |-> k, identity |-> i]))
<1> DEFINE order == c.insertionOrder
           log == LogOf(c)
           queue == c.identities[k]
           ids == [c.identities EXCEPT ![k] = Append(@, i)]
           open == [key |-> k, identity |-> i]
           nth == Count(Append(order, k), k)
<1>1. /\ order \in Seq(Keys) /\ queue \in Seq(Identities) /\ Len(queue) \in Nat
      /\ Len(queue) = Count(order, k) /\ c.identities \in [Keys -> Seq(Identities)]
  BY CacheFields
<1>2. IsLog(c.identities, order, log) BY LogIs
<1>3. /\ Append(queue, i) \in Seq(Identities) /\ Len(Append(queue, i)) = Len(queue) + 1
      /\ Append(queue, i)[Len(queue) + 1] = i
      /\ \A n \in 1..Len(queue) : Append(queue, i)[n] = queue[n]
  BY <1>1, AppendProperties
<1>4. \A j \in Keys : ids[j] = IF j = k THEN Append(queue, i) ELSE c.identities[j]
  BY <1>1
<1>5. nth = Len(queue) + 1
  BY <1>1, CountAppend
<1>6. \A n \in 1..Len(order) : order[n] \in Keys BY <1>1, ElementOfSeq
<1> HIDE DEF ids, nth, log
<1>7. ASSUME NEW n \in 1..Len(order) PROVE LogEntry(ids, order, log, n)
  <2>1. LogEntry(c.identities, order, log, n) BY <1>2 DEF IsLog
  <2>2. order[n] \in Keys BY <1>6
  <2>3. CASE order[n] = k
    <3>1. Nth(order, n) \in 1..Len(queue) BY <2>1, <2>3 DEF LogEntry
    <3>2. Nth(order, n) \in 1..(Len(queue) + 1) BY <1>1, <3>1
    <3>3. ids[k] = Append(queue, i) BY <1>4
    <3>4. ids[k][Nth(order, n)] = queue[Nth(order, n)] BY <1>3, <3>1, <3>3
    <3>5. Len(ids[k]) = Len(queue) + 1 BY <1>3, <3>3
    <3> QED BY <2>1, <2>3, <3>2, <3>4, <3>5 DEF LogEntry
  <2>4. CASE order[n] # k
    <3>1. ids[order[n]] = c.identities[order[n]] BY <1>4, <2>2, <2>4
    <3> QED BY <2>1, <3>1 DEF LogEntry
  <2> QED BY <2>3, <2>4
<1>8. IsLog(ids, order, log) BY <1>2, <1>7 DEF IsLog
<1>9. open \in Entry BY DEF Entry
<1>10. nth \in 1..Len(ids[k]) /\ open = [key |-> k, identity |-> ids[k][nth]]
  <2>1. ids[k] = Append(queue, i) BY <1>4
  <2>2. nth \in 1..(Len(queue) + 1) BY <1>1, <1>5
  <2>3. ids[k][nth] = i BY <1>3, <1>5, <2>1
  <2> QED BY <1>3, <2>1, <2>2, <2>3
<1>11. IsLog(ids, Append(order, k), Append(log, open))
  <2> HIDE DEF open
  <2> QED BY <1>1, <1>8, <1>9, <1>10, ExtendsLog DEF nth
<1> QED BY <1>11 DEF ids, log

(* What keeps nothing out keeps all. *)
LEMMA WithoutNone ==
    ASSUME NEW S, NEW s \in Seq(S), NEW gone, \A n \in 1..Len(s) : s[n] \notin gone
    PROVE  Without(s, gone) = s
<1> DEFINE N == Len(s)
<1>1. PICK G : SieveSteps(G, S, s, gone) BY WithoutSteps
<1>2. /\ G[0] = <<>> /\ Without(s, gone) = G[N]
      /\ \A m \in 1..N : G[m] = Append(G[m - 1], s[m])
  BY <1>1 DEF SieveSteps
<1>3. N \in Nat BY LenProperties
<1> DEFINE Kept == {m \in Nat : m <= N => G[m] = SubSeq(s, 1, m)}
<1>4. 0 \in Kept BY <1>2, PrefixSteps
<1>5. ASSUME NEW m \in Nat, m \in Kept PROVE m + 1 \in Kept
  <2> SUFFICES ASSUME m + 1 <= N PROVE G[m + 1] = SubSeq(s, 1, m + 1) OBVIOUS
  <2>1. m <= N /\ m + 1 \in 1..N /\ (m + 1) - 1 = m BY <1>3, Successor
  <2>2. G[m + 1] = Append(G[m], s[m + 1]) BY <1>2, <2>1
  <2>3. G[m] = SubSeq(s, 1, m) BY <1>5, <2>1
  <2>4. SubSeq(s, 1, m + 1) = Append(SubSeq(s, 1, m), s[m + 1]) BY PrefixSteps
  <2> QED BY <2>2, <2>3, <2>4
<1>6. N \in Kept
  <2> HIDE DEF Kept
  <2> QED BY <1>3, <1>4, <1>5, Induction
<1>7. SubSeq(s, 1, N) = s BY PrefixSteps
<1> QED BY <1>2, <1>3, <1>6, <1>7

(* The opens of a key. *)
OfKey(log, k) == {o \in ToSet(log) : o.key = k}

(* Without a key the order and the log still say the same. *)
LEMMA SievedLog ==
    ASSUME NEW ids, NEW order \in Seq(Keys), NEW log, IsLog(ids, order, log), NEW k \in Keys
    PROVE  /\ IsLog(ids, Without(order, {k}), Without(log, OfKey(log, k)))
           /\ \A n \in 1..Len(Without(order, {k})) : Without(order, {k})[n] # k
<1> DEFINE N == Len(order)
           gone == OfKey(log, k)
           First(m) == SubSeq(order, 1, m)
<1>1. N \in Nat /\ log \in Seq(Entry) /\ Len(log) = N
      /\ \A n \in 1..N : LogEntry(ids, order, log, n)
  BY LenProperties DEF IsLog
<1>2. \A n \in 1..N : order[n] \in Keys /\ log[n] \in Entry BY <1>1, ElementOfSeq
<1>3. \A n \in 1..N : log[n] \in gone <=> order[n] = k
  <2> SUFFICES ASSUME NEW n \in 1..N PROVE log[n] \in gone <=> order[n] = k OBVIOUS
  <2>1. LogEntry(ids, order, log, n) BY <1>1
  <2>2. log[n].key = order[n] BY <2>1 DEF LogEntry
  <2>3. log[n] \in ToSet(log) BY <1>1, ToSetIs
  <2> QED BY <2>2, <2>3 DEF OfKey
<1>4. PICK G : SieveSteps(G, Keys, order, {k}) BY WithoutSteps
<1>5. PICK F : SieveSteps(F, Entry, log, gone) BY <1>1, WithoutSteps
<1>6. /\ G[0] = <<>> /\ Without(order, {k}) = G[N] /\ F[0] = <<>> /\ Without(log, gone) = F[N]
      /\ G \in [0..N -> Seq(Keys)] /\ F \in [0..N -> Seq(Entry)]
      /\ \A m \in 1..N :
           /\ G[m] = IF order[m] = k THEN G[m - 1] ELSE Append(G[m - 1], order[m])
           /\ F[m] = IF order[m] = k THEN F[m - 1] ELSE Append(F[m - 1], log[m])
  BY <1>1, <1>3, <1>4, <1>5 DEF SieveSteps
<1>7. /\ First(0) = <<>> /\ First(N) = order
      /\ \A m \in 0..N : First(m) \in Seq(Keys)
      /\ \A m \in Nat : m + 1 <= N => First(m + 1) = Append(First(m), order[m + 1])
  BY PrefixSteps
<1> DEFINE Same(m) ==
               /\ IsLog(ids, G[m], F[m])
               /\ \A j : j # k => Count(G[m], j) = Count(First(m), j)
               /\ \A n \in 1..Len(G[m]) : G[m][n] # k
           T == {m \in Nat : m <= N => Same(m)}
<1> HIDE DEF gone, First
<1>8. Same(0)
  <2>1. IsLog(ids, <<>>, <<>>) BY EmptySeq DEF IsLog
  <2> QED BY <1>6, <1>7, <2>1, EmptySeq
<1>9. ASSUME NEW m \in Nat, m + 1 <= N, Same(m) PROVE Same(m + 1)
  <2>1. m + 1 \in 1..N /\ m \in 0..N /\ (m + 1) - 1 = m BY <1>1, <1>9, Successor
  <2> DEFINE e == order[m + 1]
             p == First(m)
             g == G[m]
             h == F[m]
  <2>2. /\ e \in Keys /\ p \in Seq(Keys) /\ g \in Seq(Keys) /\ h \in Seq(Entry)
        /\ log[m + 1] \in Entry /\ LogEntry(ids, order, log, m + 1)
    BY <1>1, <1>2, <1>6, <1>7, <2>1
  <2>3. /\ First(m + 1) = Append(p, e)
        /\ G[m + 1] = IF e = k THEN g ELSE Append(g, e)
        /\ F[m + 1] = IF e = k THEN h ELSE Append(h, log[m + 1])
    BY <1>6, <1>7, <1>9, <2>1
  <2>4. IsLog(ids, g, h) /\ \A j : j # k => Count(g, j) = Count(p, j)
    BY <1>9
  <2>5. \A n \in 1..Len(g) : g[n] # k BY <1>9
  <2>6. \A j : /\ Count(Append(p, e), j) = Count(p, j) + (IF e = j THEN 1 ELSE 0)
               /\ Count(Append(g, e), j) = Count(g, j) + (IF e = j THEN 1 ELSE 0)
    <3> HIDE DEF p, g, e
    <3> QED BY <2>2, CountAppend
  <2>7. \A j : Count(p, j) \in Nat
    <3>1. Len(p) \in Nat /\ DOMAIN p = 1..Len(p) BY <2>2, LenProperties
    <3> HIDE DEF p
    <3> QED BY ONLY <3>1, CountPlaces, CountIs
  <2>8. Nth(order, m + 1) = Count(First(m + 1), e) BY DEF Nth, First
  <2>9. /\ log[m + 1] = [key |-> e, identity |-> ids[e][Nth(order, m + 1)]]
        /\ Nth(order, m + 1) \in 1..Len(ids[e])
    BY <2>2 DEF LogEntry
  <2> HIDE DEF p, g, h, e
  <2>10. CASE e = k
    <3>1. IsLog(ids, G[m + 1], F[m + 1]) /\ \A n \in 1..Len(G[m + 1]) : G[m + 1][n] # k
      BY <2>3, <2>4, <2>5, <2>10
    <3>2. ASSUME NEW j, j # k PROVE Count(G[m + 1], j) = Count(First(m + 1), j)
      <4>1. Count(Append(p, e), j) = Count(p, j) BY <2>6, <2>7, <2>10, <3>2
      <4> QED BY <2>3, <2>4, <2>10, <3>2, <4>1
    <3> QED BY <3>1, <3>2
  <2>11. CASE e # k
    <3>1. Count(Append(g, e), e) = Nth(order, m + 1)
      BY <2>3, <2>4, <2>6, <2>8, <2>11
    <3>2. IsLog(ids, Append(g, e), Append(h, log[m + 1]))
      BY <2>2, <2>4, <2>9, <3>1, ExtendsLog
    <3>3. \A j : j # k => Count(Append(g, e), j) = Count(Append(p, e), j)
      BY <2>4, <2>6
    <3>4. \A n \in 1..Len(Append(g, e)) : Append(g, e)[n] # k
      <4>1. /\ Len(g) \in Nat /\ Len(Append(g, e)) = Len(g) + 1
            /\ Append(g, e)[Len(g) + 1] = e
            /\ \A n \in 1..Len(g) : Append(g, e)[n] = g[n]
        BY <2>2, AppendProperties, LenProperties
      <4> QED BY <2>5, <2>11, <4>1
    <3> QED BY <2>3, <2>11, <3>2, <3>3, <3>4
  <2> QED BY <2>10, <2>11
<1> HIDE DEF Same
<1>10. 0 \in T /\ \A m \in Nat : m \in T => m + 1 \in T BY <1>1, <1>8, <1>9, Successor
<1>11. N \in T
  <2> HIDE DEF T, N
  <2> QED BY <1>1, <1>10, Induction
<1>12. Same(N) BY <1>1, <1>11
<1> QED BY <1>6, <1>12 DEF Same, gone

LEMMA InvalidatedLog ==
    ASSUME NEW allowed, NEW c \in CacheOf(allowed), NEW k \in Keys
    PROVE  LogOf(InvalidateKey(c, k)) = Without(LogOf(c), OfKey(LogOf(c), k))
<1> DEFINE order == Without(c.insertionOrder, {k})
           log == Without(LogOf(c), OfKey(LogOf(c), k))
           ids == [c.identities EXCEPT ![k] = <<>>]
           d == InvalidateKey(c, k)
<1>1. IsLog(c.identities, order, log) /\ \A n \in 1..Len(order) : order[n] # k
  BY CacheFields, LogIs, SievedLog
<1>2. d.insertionOrder = order /\ d.identities = ids BY DEF InvalidateKey
<1>3. order \in Seq(Keys) BY CacheFields, WithoutCounts
<1>4. \A n \in 1..Len(order) : ids[order[n]] = c.identities[order[n]]
  <2> HIDE DEF order
  <2>1. \A n \in 1..Len(order) : order[n] \in Keys BY <1>3, ElementOfSeq
  <2> QED BY <1>1, <2>1, CacheFields
<1> HIDE DEF order, log, ids, d
<1>5. \A n \in 1..Len(log) : LogEntry(ids, order, log, n)
  BY <1>1, <1>4 DEF IsLog, LogEntry
<1>6. IsLog(d.identities, d.insertionOrder, log) BY <1>1, <1>2, <1>5 DEF IsLog
<1>7. d \in CacheOf(allowed) BY InvalidateKeeps DEF d
<1>8. IsLog(d.identities, d.insertionOrder, LogOf(d)) BY <1>7, LogIs
<1> QED BY <1>6, <1>8, OneLog DEF d, log

LEMMA TakenLog ==
    ASSUME NEW allowed, NEW c \in CacheOf(allowed), NEW k \in Keys
    PROVE  LET n == SelectInSeq(LogOf(c), LAMBDA o : o.key = k)
           IN /\ LogOf(TakeFrom(c, k)) = IF n = 0 THEN LogOf(c) ELSE RemoveAt(LogOf(c), n)
              /\ Found(c, k) = IF n = 0 THEN Nobody ELSE LogOf(c)[n].identity
<1> DEFINE order == c.insertionOrder
           log == LogOf(c)
           queue == c.identities[k]
           N == Len(order)
           places == {n \in 1..Len(log) : log[n].key = k}
           n == SelectInSeq(log, LAMBDA o : o.key = k)
<1>1. /\ order \in Seq(Keys) /\ N \in Nat /\ DOMAIN order = 1..N
      /\ queue \in Seq(Identities) /\ Len(queue) = Count(order, k)
  BY CacheFields, LenProperties
<1>2. Len(log) = N /\ \A m \in 1..N : LogEntry(c.identities, order, log, m) BY LogIs DEF IsLog
<1>3. \A m \in 1..N : log[m].key = order[m]
  <2> SUFFICES ASSUME NEW m \in 1..N PROVE log[m].key = order[m] OBVIOUS
  <2>1. LogEntry(c.identities, order, log, m) BY <1>2
  <2> HIDE DEF log
  <2> QED BY <2>1 DEF LogEntry
<1>4. places = {m \in 1..N : order[m] = k} BY <1>2, <1>3
<1>5. Count(order, k) = 0 <=> places = {}
  <2>1. Count(order, k) = 0 <=> \A m \in 1..N : order[m] # k
    <3> HIDE DEF order, N
    <3> QED BY <1>1, CountZero
  <2> QED BY <1>4, <2>1
<1>6. n = IF places # {} THEN Min(places) ELSE 0 BY DEF SelectInSeq
<1>7. queue = <<>> <=> places = {} BY <1>1, <1>5, EmptySeq
<1> HIDE DEF places
<1>8. CASE queue = <<>>
  <2>1. n = 0 BY <1>6, <1>7, <1>8
  <2> QED BY <1>8, <2>1 DEF TakeFrom, Found
<1>9. CASE queue # <<>>
  <2>1. places # {} /\ places \in SUBSET Nat BY <1>1, <1>4, <1>7, <1>9
  <2>2. n = Min(places) /\ n \in places /\ \A m \in places : n <= m
    <3>1. Min(places) \in places /\ \A m \in places : Min(places) <= m BY <2>1, MinIn
    <3>2. n = Min(places) BY <1>6, <2>1
    <3> HIDE DEF n
    <3> QED BY <3>1, <3>2
  <2>3. n \in 1..N /\ n # 0 /\ order[n] = k BY <1>1, <1>4, <2>2
  <2>4. \A m \in 1..(n - 1) : order[m] # k
    <3> HIDE DEF n
    <3>1. \A m \in 1..(n - 1) : m \in 1..N /\ ~(n <= m) BY <1>1, <2>3
    <3> QED BY <1>4, <2>2, <3>1
  <2>5. SelectInSeq(order, LAMBDA q : q = k) = n BY <1>4, <2>1, <2>2 DEF SelectInSeq
  <2>6. RemoveFirst(order, k) = RemoveAt(order, n) BY <2>3, <2>5 DEF RemoveFirst
  <2> DEFINE d == TakeFrom(c, k)
  <2>7. d = [identities |-> [c.identities EXCEPT ![k] = Tail(c.identities[k])],
             entryCount |-> c.entryCount - 1,
             insertionOrder |-> RemoveAt(order, n)]
    BY <1>9, <2>6 DEF TakeFrom
  <2>8. d \in CacheOf(allowed) BY TakeKeeps
  <2> HIDE DEF d, n
  <2>9. /\ IsLog(d.identities, d.insertionOrder, RemoveAt(LogOf(c), n))
        /\ LogOf(c)[n].identity = Head(c.identities[k])
    BY <2>3, <2>4, <2>7, LeavesLog
  <2>10. IsLog(d.identities, d.insertionOrder, LogOf(d)) BY <2>8, LogIs
  <2>11. LogOf(d) = RemoveAt(LogOf(c), n) BY <2>9, <2>10, OneLog
  <2>12. Found(c, k) = LogOf(c)[n].identity BY <1>9, <2>9 DEF Found
  <2> QED BY <2>3, <2>11, <2>12 DEF d, n
<1> QED BY <1>8, <1>9

(* The oldest open makes room, when none is left. *)
LEMMA EvictedLog ==
    ASSUME NEW allowed, NEW c \in CacheOf(allowed), Capacity # 0
    PROVE  LogOf(EvictOldestIfFull(c)) = OpenLog!Youngest(Capacity - 1, LogOf(c))
<1> DEFINE order == c.insertionOrder
           log == LogOf(c)
           N == Len(log)
           d == EvictOldest(c)
<1>1. /\ order \in Seq(Keys) /\ Len(order) \in Nat /\ Capacity \in Nat \ {0}
      /\ c.entryCount = Len(order) /\ Len(order) <= Capacity
  BY CacheFields, CacheAssumption
<1>2. log \in Seq(Entry) /\ N = Len(order) BY LogIs DEF IsLog
<1>3. EvictOldestIfFull(c) = IF c.entryCount >= Capacity THEN d ELSE c BY EvictIs
<1> HIDE DEF log, d
<1>4. CASE c.entryCount >= Capacity
  <2>1. N = Capacity /\ N # 0 BY <1>1, <1>2, <1>4
  <2>2. order # <<>> /\ log # <<>> BY <1>1, <1>2, <2>1, EmptySeq
  <2>3. 1 \in 1..Len(order) /\ Head(order) \in Keys /\ order[1] = Head(order)
    BY <1>1, <1>2, <2>1, <2>2, HeadTailProperties
  <2>4. c.identities[Head(order)] # <<>> BY <2>3, OneLeaves
  <2>5. Tail(order) = RemoveAt(order, 1) BY <1>1, <2>2, TailIsRemoveAt
  <2>6. d = [identities |-> [c.identities EXCEPT ![Head(order)] = Tail(c.identities[Head(order)])],
             entryCount |-> c.entryCount - 1,
             insertionOrder |-> RemoveAt(order, 1)]
    BY <2>4, <2>5 DEF EvictOldest, d
  <2>7. IsLog(d.identities, d.insertionOrder, RemoveAt(LogOf(c), 1))
    <3>1. \A m \in 1..(1 - 1) : order[m] # Head(order) OBVIOUS
    <3> QED BY <2>3, <2>6, <3>1, LeavesLog
  <2>8. d \in CacheOf(allowed) BY <1>1, <1>2, <2>1, EvictKeeps DEF d
  <2>9. LogOf(d) = RemoveAt(log, 1) BY <2>7, <2>8, LogIs, OneLog DEF log
  <2>10. RemoveAt(log, 1) = Tail(log) BY <1>2, <2>2, TailIsRemoveAt
  <2>11. Tail(log) = SubSeq(log, 2, N) BY <1>2, <2>2, TailIsSubSeq
  <2>12. N > Capacity - 1 /\ N - (Capacity - 1) + 1 = 2 BY <1>1, <2>1
  <2>13. OpenLog!Youngest(Capacity - 1, log) = SubSeq(log, 2, N)
    BY <2>12 DEF OpenLog!Youngest
  <2> QED BY <1>3, <1>4, <2>9, <2>10, <2>11, <2>13 DEF log
<1>5. CASE ~(c.entryCount >= Capacity)
  <2>1. ~(N > Capacity - 1) BY <1>1, <1>2, <1>5
  <2>2. SubSeq(log, 1, N) = log BY <1>2, PrefixSteps
  <2>3. OpenLog!Youngest(Capacity - 1, log) = log BY <2>1, <2>2 DEF OpenLog!Youngest
  <2> QED BY <1>3, <1>5, <2>3 DEF log
<1> QED BY <1>4, <1>5

(* The opens of another generation under a key. *)
Over(log, k, i) == {o \in ToSet(log) : o.key = k /\ StartOf[o.identity] # StartOf[i]}

(* The identities of a key in the log are those of its queue. *)
LEMMA QueuedUnder ==
    ASSUME NEW allowed, NEW c \in CacheOf(allowed), NEW k \in Keys,
           NEW o \in OfKey(LogOf(c), k)
    PROVE  c.identities[k] # <<>> /\ o.identity \in ToSet(c.identities[k])
<1> DEFINE log == LogOf(c)
           queue == c.identities[k]
<1>1. log \in Seq(Entry) /\ \A n \in 1..Len(log) : LogEntry(c.identities, c.insertionOrder, log, n)
  BY LogIs DEF IsLog
<1>2. PICK n \in 1..Len(log) : o = log[n]
  <2> HIDE DEF log
  <2> QED BY <1>1, ToSetIs DEF OfKey, log
<1>3. o.key = k BY DEF OfKey
<1> HIDE DEF log
<1>4. LogEntry(c.identities, c.insertionOrder, log, n) BY <1>1
<1>5. PICK m : m \in 1..Len(queue) /\ o.identity = queue[m]
  BY <1>2, <1>3, <1>4 DEF LogEntry
<1>6. queue \in Seq(Identities) BY CacheFields
<1>7. queue # <<>>
  <2> SUFFICES ASSUME queue = <<>> PROVE FALSE OBVIOUS
  <2>1. Len(queue) = 0 BY EmptySeq
  <2> QED BY <1>5, <2>1
<1> QED BY <1>5, <1>6, <1>7, ToSetIs

(* A new generation ends the queue of the old one, and nothing else. *)
LEMMA NewGenerationLog ==
    ASSUME NEW allowed, NEW c \in CacheOf(allowed), NEW k \in Keys, NEW i \in Identities
    PROVE  LogOf(IF GenerationChanged(c, k, i) THEN InvalidateKey(c, k) ELSE c)
               = Without(LogOf(c), Over(LogOf(c), k, i))
<1> DEFINE log == LogOf(c)
           queue == c.identities[k]
<1>1. log \in Seq(Entry) BY LogIs DEF IsLog
<1>2. queue \in Seq(Identities) /\ Len(queue) \in Nat /\ OneGeneration(c) BY CacheFields
<1>3. ASSUME NEW o \in OfKey(log, k) PROVE StartOf[o.identity] = StartOf[Last(queue)]
  <2>1. queue # <<>> /\ o.identity \in ToSet(queue) BY <1>3, QueuedUnder
  <2>2. Len(queue) \in 1..Len(queue) BY <1>2, <2>1, EmptySeq
  <2>3. Last(queue) \in ToSet(queue) BY <1>2, <2>2, ToSetIs DEF Last
  <2> QED BY <1>2, <2>1, <2>3 DEF OneGeneration
<1>4. CASE GenerationChanged(c, k, i)
  <2>1. StartOf[Last(queue)] # StartOf[i] BY <1>4 DEF GenerationChanged
  <2>2. Over(log, k, i) = OfKey(log, k)
    <3> HIDE DEF log
    <3>1. \A o \in OfKey(log, k) : StartOf[o.identity] # StartOf[i] BY <1>3, <2>1
    <3> QED BY <3>1 DEF Over, OfKey
  <2>3. LogOf(InvalidateKey(c, k)) = Without(log, OfKey(log, k)) BY InvalidatedLog
  <2> HIDE DEF log
  <2> QED BY <1>4, <2>2, <2>3 DEF log
<1>5. CASE ~GenerationChanged(c, k, i)
  <2>1. queue # <<>> => StartOf[Last(queue)] = StartOf[i] BY <1>5 DEF GenerationChanged
  <2>2. \A o \in OfKey(log, k) : StartOf[o.identity] = StartOf[i]
    <3> SUFFICES ASSUME NEW o \in OfKey(log, k) PROVE StartOf[o.identity] = StartOf[i]
      OBVIOUS
    <3>1. queue # <<>> BY QueuedUnder
    <3> QED BY <1>3, <2>1, <3>1
  <2>3. Over(log, k, i) = {}
    <3> HIDE DEF log
    <3> QED BY <2>2 DEF Over, OfKey
  <2>4. Without(log, {}) = log
    <3> HIDE DEF log
    <3> QED BY <1>1, WithoutNone
  <2> HIDE DEF log
  <2> QED BY <1>5, <2>3, <2>4 DEF log
<1> QED BY <1>4, <1>5

LEMMA InsertedLog ==
    ASSUME NEW allowed \in Allowances, NEW c \in CacheOf(allowed), NEW k \in Keys,
           NEW i \in allowed[k], Capacity # 0
    PROVE  LogOf(InsertInto(c, k, i)) =
               Append(OpenLog!Youngest(Capacity - 1, Without(LogOf(c), Over(LogOf(c), k, i))),
                      [key |-> k, identity |-> i])
<1> DEFINE e == IF GenerationChanged(c, k, i) THEN InvalidateKey(c, k) ELSE c
           d == EvictOldestIfFull(e)
           r == InsertInto(c, k, i)
           open == [key |-> k, identity |-> i]
<1>1. e \in CacheOf(allowed) BY InvalidateKeeps
<1>2. i \in Identities BY DEF Allowances
<1>3. LogOf(e) = Without(LogOf(c), Over(LogOf(c), k, i)) BY <1>2, NewGenerationLog
<1> HIDE DEF e
<1>4. d \in CacheOf(allowed) BY <1>1, EvictIs
<1>5. LogOf(d) = OpenLog!Youngest(Capacity - 1, LogOf(e)) BY <1>1, EvictedLog
<1>6. r = [identities |-> [d.identities EXCEPT ![k] = Append(@, i)],
           entryCount |-> d.entryCount + 1,
           insertionOrder |-> Append(d.insertionOrder, k)]
  BY DEF InsertInto, e
<1>7. r \in CacheOf(allowed) BY InsertKeeps
<1> HIDE DEF d, r
<1>8. IsLog([d.identities EXCEPT ![k] = Append(@, i)], Append(d.insertionOrder, k),
            Append(LogOf(d), open))
  BY <1>2, <1>4, AppendedLog
<1>9. IsLog(r.identities, r.insertionOrder, Append(LogOf(d), open)) BY <1>6, <1>8
<1>10. IsLog(r.identities, r.insertionOrder, LogOf(r)) BY <1>7, LogIs
<1>11. LogOf(r) = Append(LogOf(d), open) BY <1>9, <1>10, OneLog
<1> QED BY <1>3, <1>5, <1>11 DEF r

-----------------------------------------------------------------------------
(* Any sequence of calls.                                                   *)

AllowAll == [k \in Keys |-> Identities]

LEMMA CallsKeep == Spec => [](cache \in CacheOf(AllowAll))
<1>1. Init => cache \in CacheOf(AllowAll) BY EmptyKeeps DEF Init
<1>2. cache \in CacheOf(AllowAll) /\ [Next]_<<cache, taken>> => (cache \in CacheOf(AllowAll))'
  <2> SUFFICES ASSUME cache \in CacheOf(AllowAll), [Next]_<<cache, taken>>
               PROVE  cache' \in CacheOf(AllowAll)
    BY DEF CacheOf, AllowAll, OneGeneration, Count, Quantify, ToSet
  <2>1. AllowAll \in Allowances /\ \A k \in Keys : AllowAll[k] = Identities
    BY DEF AllowAll, Allowances
  <2>2. ASSUME NEW k \in Keys, NEW i \in Identities, Insert(k, i)
        PROVE  cache' \in CacheOf(AllowAll)
    BY <2>1, <2>2, InsertKeeps DEF Insert
  <2>3. ASSUME NEW k \in Keys, Take(k) PROVE cache' \in CacheOf(AllowAll)
    BY <2>3, TakeKeeps DEF Take
  <2>4. ASSUME NEW k \in Keys, Invalidate(k) PROVE cache' \in CacheOf(AllowAll)
    BY <2>4, InvalidateKeeps DEF Invalidate
  <2> QED BY <2>2, <2>3, <2>4 DEF Next
<1> QED BY <1>1, <1>2, PTL DEF Spec

(* Whatever is inserted, taken, invalidated and evicted, the map, the       *)
(* counter and the order of audit_identity.rs say the same, and the cache   *)
(* keeps within its capacity.                                               *)
THEOREM Consistency == Spec => []CacheConsistent
<1>1. cache \in CacheOf(AllowAll) => CacheConsistent BY CacheOfIs DEF CacheConsistent
<1> QED BY <1>1, CallsKeep, PTL

(* No key ever has identities of two generations of its pid in its queue.   *)
THEOREM Generations == Spec => []CacheOneGeneration
<1>1. cache \in CacheOf(AllowAll) => CacheOneGeneration BY CacheOfIs DEF CacheOneGeneration
<1> QED BY <1>1, CallsKeep, PTL

-----------------------------------------------------------------------------
(* The log's operators of AuditOpenLog are those of the cache. *)
LEMMA SameWithout ==
    ASSUME NEW s, NEW gone
    PROVE  OpenLog!Without(s, gone) = Without(s, gone)
BY DEF OpenLog!Without, Without, FoldLeft, OpenLog!FoldLeft, MapThenFoldSet,
       OpenLog!MapThenFoldSet, Max, OpenLog!Max

LEMMA SameRemoveAt ==
    ASSUME NEW s, NEW n
    PROVE  OpenLog!RemoveAt(s, n) = RemoveAt(s, n)
BY DEF OpenLog!RemoveAt, RemoveAt

LEMMA SameToSet == ASSUME NEW s PROVE OpenLog!ToSet(s) = ToSet(s)
BY DEF OpenLog!ToSet, ToSet

(* Each call on the cache is the call on the log. *)
LEMMA CallsOnLog ==
    ASSUME cache \in CacheOf(AllowAll), [Next]_<<cache, taken>>
    PROVE  [OpenLog!Next]_<<LogOf(cache), taken>>
<1>1. AllowAll \in Allowances /\ \A k \in Keys : AllowAll[k] = Identities
  BY DEF AllowAll, Allowances
<1> DEFINE log == LogOf(cache)
<1>2. ASSUME NEW k \in Keys, NEW i \in Identities, Insert(k, i)
      PROVE  OpenLog!Insert(k, i)
  <2>1. cache' = InsertInto(cache, k, i) /\ taken' = Nobody BY <1>2 DEF Insert
  <2>2. CASE Capacity = 0
    <3>1. cache' = cache BY <2>1, <2>2 DEF InsertInto
    <3>2. LogOf(cache)' = LogOf(cache) BY <3>1 DEF LogOf, Quantify
    <3> QED BY <2>1, <2>2, <3>2 DEF OpenLog!Insert
  <2>3. CASE Capacity # 0
    <3>1. LogOf(InsertInto(cache, k, i)) =
              Append(OpenLog!Youngest(Capacity - 1, Without(log, Over(log, k, i))),
                     [key |-> k, identity |-> i])
      BY <1>1, <2>3, InsertedLog
    <3>2. LogOf(cache)' = LogOf(InsertInto(cache, k, i)) BY <2>1 DEF LogOf, Quantify
    <3>3. OpenLog!Without(log, {o \in OpenLog!ToSet(log) : o.key = k /\ StartOf[o.identity] # StartOf[i]})
              = Without(log, Over(log, k, i))
      <4> HIDE DEF log
      <4> QED BY SameWithout, SameToSet DEF Over
    <3> QED BY <2>1, <2>3, <3>1, <3>2, <3>3 DEF OpenLog!Insert
  <2> QED BY <2>2, <2>3
<1>3. ASSUME NEW k \in Keys, Take(k) PROVE OpenLog!Take(k)
  <2>1. cache' = TakeFrom(cache, k) /\ taken' = Found(cache, k) BY <1>3 DEF Take
  <2>2. LogOf(cache)' = LogOf(TakeFrom(cache, k)) BY <2>1 DEF LogOf, Quantify
  <2> DEFINE n == SelectInSeq(log, LAMBDA o : o.key = k)
  <2>3. /\ LogOf(TakeFrom(cache, k)) = IF n = 0 THEN log ELSE RemoveAt(log, n)
        /\ Found(cache, k) = IF n = 0 THEN Nobody ELSE log[n].identity
    BY TakenLog
  <2>4. OpenLog!SelectInSeq(log, LAMBDA o : o.key = k) = n
    <3> HIDE DEF log
    <3> QED BY DEF OpenLog!SelectInSeq, SelectInSeq, OpenLog!Min, Min
  <2>5. OpenLog!RemoveAt(log, n) = RemoveAt(log, n) BY SameRemoveAt
  <2> HIDE DEF n, log
  <2> QED BY <2>1, <2>2, <2>3, <2>4, <2>5 DEF OpenLog!Take, log
<1>4. ASSUME NEW k \in Keys, Invalidate(k) PROVE OpenLog!Invalidate(k)
  <2>1. cache' = InvalidateKey(cache, k) /\ taken' = Nobody BY <1>4 DEF Invalidate
  <2>2. LogOf(cache)' = LogOf(InvalidateKey(cache, k)) BY <2>1 DEF LogOf, Quantify
  <2>3. LogOf(InvalidateKey(cache, k)) = Without(log, OfKey(log, k)) BY InvalidatedLog
  <2>4. OpenLog!Without(log, {o \in OpenLog!ToSet(log) : o.key = k}) = Without(log, OfKey(log, k))
    <3> HIDE DEF log
    <3> QED BY SameWithout, SameToSet DEF OfKey
  <2> QED BY <2>1, <2>2, <2>3, <2>4 DEF OpenLog!Invalidate
<1>5. CASE UNCHANGED <<cache, taken>>
  <2>1. LogOf(cache)' = LogOf(cache) BY <1>5 DEF LogOf, Quantify
  <2> QED BY <1>5, <2>1
<1> QED BY <1>2, <1>3, <1>4, <1>5 DEF Next, OpenLog!Next

(* The identity cache pairs opens and closes as a log does: per key first   *)
(* in, first out, the oldest open of all making room, and a new generation  *)
(* of a pid ending the queues of the old one.                               *)
THEOREM PairsInOrder == Spec => IsOpenLog
<1>1. Init => OpenLog!Init
  <2> SUFFICES ASSUME Init PROVE OpenLog!Init OBVIOUS
  <2>1. cache = EmptyCache /\ taken = Nobody BY DEF Init
  <2>2. cache \in CacheOf(AllowAll) BY <2>1, EmptyKeeps
  <2>3. LogOf(cache) \in Seq(Entry) /\ Len(LogOf(cache)) = Len(cache.insertionOrder)
    BY <2>2, LogIs DEF IsLog
  <2>4. cache.insertionOrder = <<>> BY <2>1 DEF EmptyCache
  <2>5. LogOf(cache) = <<>> BY <2>3, <2>4, EmptySeq
  <2> QED BY <2>1, <2>5 DEF OpenLog!Init
<1>2. cache \in CacheOf(AllowAll) /\ [Next]_<<cache, taken>>
          => [OpenLog!Next]_<<LogOf(cache), taken>>
  BY CallsOnLog
<1> QED BY <1>1, <1>2, CallsKeep, PTL DEF Spec, IsOpenLog, OpenLog!Spec
=============================================================================
