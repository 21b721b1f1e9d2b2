------------------------ MODULE AuditAttributionProofs ------------------------
(****************************************************************************)
(* What audit mode charges and to whom, proved for any processes, files,    *)
(* capacities and times: no close is lost and the process cache consistent; *)
(* and, as long as no pid is used twice, an access is charged only to a     *)
(* program its own process has executed, and to the loader only if what was *)
(* known of the process was forgotten.                                      *)
(****************************************************************************)
EXTENDS AuditAttribution, SequenceFacts

IdFacts == INSTANCE AuditIdentityProofs WITH
               Keys <- IdentityKey, Identities <- Identity,
               StartOf <- [i \in Identity |-> i.start],
               cache <- identities, taken <- charge

Masks == {"open", "exec"} \cup CloseKinds
QueueEvent == [life : Lives, object : Objects, mask : SUBSET Masks]
BatchEvent == [life : Lives, object : Objects, mask : SUBSET Masks,
               generation : Lives \cup {None}]

WorldOK ==
    /\ phase \in [Lives -> {"unborn", "running", "gone"}]
    /\ image \in [Lives -> Programs \ {Loader}]
    /\ execing \in [Lives -> Commands \cup {None}]
    /\ asked \in [Lives -> SUBSET Programs]
    /\ now \in Nat

(* An exec event names a program its process has set out to execute.        *)
ExecsAsked(events, asks) ==
    \A n \in 1..Len(events) :
        "exec" \in events[n].mask => events[n].object \in asks[events[n].life]

OfItsLife(events) ==
    \A n \in 1..Len(events) : events[n].generation \in {None, events[n].life}

EventsOK ==
    /\ queue \in Seq(QueueEvent) /\ ExecsAsked(queue, asked)
    /\ batch \in Seq(BatchEvent) /\ ExecsAsked(batch, asked) /\ OfItsLife(batch)

AuditorOK ==
    /\ pc \in {"read", "exec", "open", "judge", "exited"}
    /\ pc \in {"exec", "open", "judge"} => batch # <<>>
    /\ pc = "read" => batch = <<>>
    /\ owed \subseteq Lives \X Watched \X CloseKinds

(* A process cache whose identity of each generation is one it may have.    *)
ProcessCacheOf(may) ==
    {c \in [entries : [Lives -> {Procs!Absent} \cup [identity : Identity, recordedAt : Nat]],
            insertionOrder : Seq(Lives)] :
        /\ \A l \in Lives : l \in Procs!Cached(c) => c.entries[l].identity \in may[l]
        /\ ToSet(c.insertionOrder) = Procs!Cached(c)
        /\ IsInjective(c.insertionOrder)
        /\ Len(c.insertionOrder) <= ProcessCapacity}

-----------------------------------------------------------------------------
(* The process cache, operation by operation.                               *)

LEMMA Times ==
    /\ ProcessCapacity \in Nat /\ Capacity \in Nat
    /\ Nobody \notin Identity
    /\ \A e \in [identity : Identity, recordedAt : Nat] :
           e # Procs!Absent /\ e.identity \in Identity /\ e.identity # Nobody
    /\ Procs!Absent.identity = Nobody
BY AuditAssumption DEF Procs!Absent

LEMMA ProcessFields ==
    ASSUME NEW may, NEW c \in ProcessCacheOf(may)
    PROVE  /\ c = [entries |-> c.entries, insertionOrder |-> c.insertionOrder]
           /\ c.entries \in [Lives -> {Procs!Absent}
                                      \cup [identity : Identity, recordedAt : Nat]]
           /\ c.insertionOrder \in Seq(Lives) /\ Len(c.insertionOrder) \in Nat
           /\ ToSet(c.insertionOrder) = Procs!Cached(c)
           /\ IsInjective(c.insertionOrder)
           /\ Len(c.insertionOrder) <= ProcessCapacity
           /\ Procs!Cached(c) \subseteq Lives
           /\ \A l \in Lives : l \in Procs!Cached(c) <=> c.entries[l] # Procs!Absent
           /\ \A l \in Procs!Cached(c) : c.entries[l].identity \in may[l] \cap Identity
<1>1. /\ c = [entries |-> c.entries, insertionOrder |-> c.insertionOrder]
      /\ c.entries \in [Lives -> {Procs!Absent}
                                 \cup [identity : Identity, recordedAt : Nat]]
      /\ c.insertionOrder \in Seq(Lives)
      /\ ToSet(c.insertionOrder) = Procs!Cached(c)
      /\ IsInjective(c.insertionOrder)
      /\ Len(c.insertionOrder) <= ProcessCapacity
      /\ \A l \in Lives : l \in Procs!Cached(c) => c.entries[l].identity \in may[l]
  BY DEF ProcessCacheOf
<1>2. /\ Procs!Cached(c) \subseteq Lives
      /\ \A l \in Lives : l \in Procs!Cached(c) <=> c.entries[l] # Procs!Absent
  BY DEF Procs!Cached
<1>3. ASSUME NEW l \in Procs!Cached(c) PROVE c.entries[l].identity \in Identity
  <2>1. c.entries[l] \in [identity : Identity, recordedAt : Nat] BY <1>1, <1>2
  <2> QED BY <2>1
<1> QED BY <1>1, <1>2, <1>3, LenProperties

(* The cached generations are as many as the order is long.                 *)
LEMMA ProcessCount ==
    ASSUME NEW may, NEW c \in ProcessCacheOf(may)
    PROVE  /\ IsFiniteSet(Procs!Cached(c))
           /\ Cardinality(Procs!Cached(c)) = Len(c.insertionOrder)
BY ProcessFields, InjectiveLen

LEMMA ProcessAgree ==
    ASSUME NEW may, NEW c \in ProcessCacheOf(may)
    PROVE  Procs!ProcessesConsistent(c)
<1>1. Procs!ToSet(c.insertionOrder) = ToSet(c.insertionOrder) BY DEF Procs!ToSet, ToSet
<1>2. Procs!Cardinality(Procs!Cached(c)) = Cardinality(Procs!Cached(c))
  BY DEF Procs!Cardinality, Cardinality
<1> QED BY <1>1, <1>2, ProcessFields, ProcessCount DEF Procs!ProcessesConsistent

LEMMA EmptyProcesses ==
    ASSUME NEW may
    PROVE  Procs!EmptyProcessCache \in ProcessCacheOf(may)
<1> DEFINE e == Procs!EmptyProcessCache
<1>1. /\ e.entries \in [Lives -> {Procs!Absent}] /\ e.insertionOrder = <<>>
      /\ e \in [entries : [Lives -> {Procs!Absent}
                                    \cup [identity : Identity, recordedAt : Nat]],
                insertionOrder : Seq(Lives)]
  BY DEF Procs!EmptyProcessCache
<1>2. Procs!Cached(e) = {} BY <1>1 DEF Procs!Cached
<1>3. ToSet(<<>>) = {} /\ IsInjective(<<>>) /\ Len(<<>>) = 0 BY DEF ToSet, IsInjective
<1>4. e \in ProcessCacheOf(may)
  <2>1. 0 <= ProcessCapacity BY Times
  <2>2. /\ ToSet(e.insertionOrder) = Procs!Cached(e) /\ IsInjective(e.insertionOrder)
        /\ Len(e.insertionOrder) <= ProcessCapacity
    <3> HIDE DEF e
    <3> QED BY <1>1, <1>2, <1>3, <2>1
  <2> HIDE DEF e
  <2> QED BY <1>1, <1>2, <2>2 DEF ProcessCacheOf
<1> QED BY <1>4

(* A cache that allows more.                                                *)
LEMMA ProcessesMay ==
    ASSUME NEW may, NEW more, NEW c \in ProcessCacheOf(may),
           \A l \in Lives : may[l] \subseteq more[l]
    PROVE  c \in ProcessCacheOf(more)
BY DEF ProcessCacheOf

(* One generation leaves the map and the order.                             *)
LEMMA OneForgotten ==
    ASSUME NEW may, NEW c \in ProcessCacheOf(may), NEW l \in Lives,
           NEW order \in Seq(Lives), IsInjective(order),
           Len(order) <= Len(c.insertionOrder),
           ToSet(order) = ToSet(c.insertionOrder) \ {l}
    PROVE  LET d == [entries |-> [c.entries EXCEPT ![l] = Procs!Absent],
                     insertionOrder |-> order]
           IN /\ d \in ProcessCacheOf(may)
              /\ Procs!Cached(d) = Procs!Cached(c) \ {l}
              /\ \A m \in Lives \ {l} : d.entries[m] = c.entries[m]
<1> DEFINE d == [entries |-> [c.entries EXCEPT ![l] = Procs!Absent],
                 insertionOrder |-> order]
<1>1. \A m \in Lives : d.entries[m] = IF m = l THEN Procs!Absent ELSE c.entries[m]
  BY ProcessFields
<1>2. d \in [entries : [Lives -> {Procs!Absent} \cup [identity : Identity, recordedAt : Nat]],
             insertionOrder : Seq(Lives)]
  BY ProcessFields
<1>3. Procs!Cached(d) = Procs!Cached(c) \ {l} BY <1>1 DEF Procs!Cached
<1>4. Len(order) <= ProcessCapacity
  <2>1. Len(order) \in Nat BY LenProperties
  <2> QED BY <2>1, ProcessFields, Times
<1>5. \A m \in Lives : m \in Procs!Cached(d) => d.entries[m].identity \in may[m]
  BY <1>1, <1>3, ProcessFields
<1>6. ToSet(d.insertionOrder) = Procs!Cached(d) BY <1>3, ProcessFields
<1>7. d \in ProcessCacheOf(may)
  <2>1. d.insertionOrder = order OBVIOUS
  <2> HIDE DEF d
  <2> QED BY <1>2, <1>4, <1>5, <1>6, <2>1 DEF ProcessCacheOf
<1> QED BY <1>1, <1>3, <1>7

LEMMA DropKeeps ==
    ASSUME NEW may, NEW c \in ProcessCacheOf(may), NEW l \in Lives
    PROVE  /\ Procs!Drop(c, l) \in ProcessCacheOf(may)
           /\ Procs!Cached(Procs!Drop(c, l)) = Procs!Cached(c) \ {l}
           /\ \A m \in Lives \ {l} : Procs!Drop(c, l).entries[m] = c.entries[m]
<1> DEFINE order == RemoveFirst(c.insertionOrder, l)
<1>1. Procs!RemoveFirst(c.insertionOrder, l) = order
  BY DEF Procs!RemoveFirst, RemoveFirst, Procs!RemoveAt, RemoveAt,
         Procs!SelectInSeq, SelectInSeq, Procs!Min, Min
<1>2. /\ order \in Seq(Lives) /\ IsInjective(order)
      /\ Len(order) <= Len(c.insertionOrder)
      /\ ToSet(order) = ToSet(c.insertionOrder) \ {l}
  BY ProcessFields, InjectiveRemoveFirst
<1>3. Procs!Drop(c, l) = [entries |-> [c.entries EXCEPT ![l] = Procs!Absent],
                          insertionOrder |-> order]
  BY <1>1 DEF Procs!Drop
<1> HIDE DEF order
<1> QED BY <1>2, <1>3, OneForgotten

(* The eviction loop makes room: by the oldest generation, if it is full.   *)
Evicted(c, l) ==
    [entries |-> [c.entries EXCEPT ![l] = Procs!Absent],
     insertionOrder |-> Tail(c.insertionOrder)]

LEMMA EvictedKeeps ==
    ASSUME NEW may, NEW c \in ProcessCacheOf(may), c.insertionOrder # <<>>
    PROVE  LET l == Head(c.insertionOrder)
           IN /\ l \in Lives
              /\ Evicted(c, l) \in ProcessCacheOf(may)
              /\ Procs!Cached(Evicted(c, l)) = Procs!Cached(c) \ {l}
              /\ \A m \in Lives \ {l} : Evicted(c, l).entries[m] = c.entries[m]
<1> DEFINE l == Head(c.insertionOrder)
           order == Tail(c.insertionOrder)
<1>1. /\ order \in Seq(Lives) /\ IsInjective(order)
      /\ Len(order) = Len(c.insertionOrder) - 1
      /\ l \in ToSet(c.insertionOrder)
      /\ ToSet(order) = ToSet(c.insertionOrder) \ {l}
  BY ProcessFields, InjectiveTail
<1>2. Len(order) <= Len(c.insertionOrder) /\ l \in Lives BY <1>1, ProcessFields
<1>3. Evicted(c, l) = [entries |-> [c.entries EXCEPT ![l] = Procs!Absent],
                       insertionOrder |-> order]
  BY DEF Evicted
<1> HIDE DEF l, order
<1> DEFINE d == [entries |-> [c.entries EXCEPT ![l] = Procs!Absent],
                 insertionOrder |-> order]
<1>4. /\ d \in ProcessCacheOf(may) /\ Procs!Cached(d) = Procs!Cached(c) \ {l}
      /\ \A m \in Lives \ {l} : d.entries[m] = c.entries[m]
  BY <1>1, <1>2, OneForgotten
<1> QED BY <1>2, <1>3, <1>4 DEF l

(* Any one of them gone, a full cache is not full any more.                 *)
LEMMA EvictedOnce ==
    ASSUME NEW may, NEW c \in ProcessCacheOf(may), ProcessCapacity # 0,
           NEW l \in Procs!Cached(c)
    PROVE  Cardinality(Procs!Cached(Evicted(c, l))) < ProcessCapacity
<1>1. /\ IsFiniteSet(Procs!Cached(c))
      /\ Cardinality(Procs!Cached(c)) = Len(c.insertionOrder)
  BY ProcessCount
<1>2. Procs!Cached(Evicted(c, l)) = Procs!Cached(c) \ {l}
  <2>1. \A m \in Lives : Evicted(c, l).entries[m] =
            IF m = l THEN Procs!Absent ELSE c.entries[m]
    BY ProcessFields DEF Evicted
  <2> QED BY <2>1 DEF Procs!Cached
<1>3. Cardinality(Procs!Cached(c) \ {l}) = Cardinality(Procs!Cached(c)) - 1
  BY <1>1, FS_RemoveElement
<1> QED BY <1>1, <1>2, <1>3, ProcessFields, Times

LEMMA EvictIfFullIs ==
    ASSUME NEW may, NEW c \in ProcessCacheOf(may), ProcessCapacity # 0
    PROVE  Procs!EvictIfFull(c) =
               IF Len(c.insertionOrder) >= ProcessCapacity
               THEN Evicted(c, Head(c.insertionOrder)) ELSE c
<1> DEFINE order == c.insertionOrder
           n == Len(order)
           X == Procs!Cached(c)
           V == {c} \cup {Evicted(c, x) : x \in X}
           Full(d) == Cardinality(Procs!Cached(d)) >= ProcessCapacity
           f == [p \in V \X X |-> IF Full(p[1]) THEN Evicted(p[1], p[2]) ELSE p[1]]
           rec(h) == [t \in SUBSET (1..n) |-> IF t = {} THEN c ELSE
                        IF Full(h[t \ {Max(t)}])
                        THEN Evicted(h[t \ {Max(t)}], order[Max(t)]) ELSE h[t \ {Max(t)}]]
           iter == CHOOSE h : h = rec(h)
<1>1. n \in Nat /\ DOMAIN order = 1..n /\ \A m \in 1..n : order[m] \in X
  BY ProcessFields, LenProperties, ToSetIs
<1>2. \A x \in X : ~Full(Evicted(c, x))
  <2>1. ASSUME NEW x \in X PROVE ~Full(Evicted(c, x))
    <3>1. Cardinality(Procs!Cached(Evicted(c, x))) < ProcessCapacity BY EvictedOnce
    <3>2. X \ {x} = Procs!Cached(Evicted(c, x))
      <4>1. \A m \in Lives : Evicted(c, x).entries[m] =
                IF m = x THEN Procs!Absent ELSE c.entries[m]
        BY ProcessFields DEF Evicted
      <4> QED BY <4>1 DEF Procs!Cached
    <3>3. Cardinality(X \ {x}) \in Nat BY ProcessCount, FS_Subset, FS_CardinalityType
    <3> QED BY <3>1, <3>2, <3>3, Times
  <2> QED BY <2>1
<1>3. Full(c) <=> n >= ProcessCapacity BY ProcessCount
<1>4. \A d \in V, x \in X : f[d, x] = IF Full(d) THEN Evicted(d, x) ELSE d
  OBVIOUS
<1>5. f \in [V \X X -> V]
  <2>1. ASSUME NEW d \in V, NEW x \in X PROVE f[d, x] \in V
    <3>1. CASE d = c
      <4> HIDE DEF Full
      <4> QED BY <3>1
    <3>2. CASE d # c
      <4>1. ~Full(d) BY <1>2, <3>2
      <4> HIDE DEF Full
      <4> QED BY <4>1
    <3> QED BY <3>1, <3>2
  <2> HIDE DEF V, X, Full
  <2> QED BY <2>1
<1>6. c \in V OBVIOUS
<1> DEFINE r == IF Full(c) THEN Evicted(c, order[1]) ELSE c
<1>7. /\ n # 0 => f[c, order[1]] = r
      /\ \A x \in X : n # 0 => f[r, x] = r
  <2>1. n # 0 => 1 \in 1..n /\ order[1] \in X BY <1>1
  <2>2. n # 0 => f[c, order[1]] = r BY <1>4, <1>6, <2>1
  <2>3. ASSUME NEW x \in X, n # 0 PROVE f[r, x] = r /\ r \in V
    <3>1. r \in V BY <2>1, <2>3
    <3>2. ~Full(r)
      <4>1. CASE Full(c) BY <1>2, <2>1, <2>3, <4>1
      <4>2. CASE ~Full(c) BY <4>2
      <4> QED BY <4>1, <4>2
    <3> HIDE DEF r, V, X, f, Full
    <3> QED BY <1>4, <3>1, <3>2
  <2> QED BY <2>2, <2>3
<1> HIDE DEF f, n, V, X, r
<1>8. \A t \in SUBSET (1..n) : t # {} => order[Max(t)] \in X /\ t \ {Max(t)} \in SUBSET (1..n)
  BY <1>1, MaxIn
<1>9. PICK g \in [SUBSET (1..n) -> V] : FoldsThrough(g, SUBSET (1..n), c, f, order)
  BY <1>1, <1>5, <1>6, FoldDefined
<1>10. g = rec(g)
  <2> HIDE DEF Full
  <2>1. ASSUME NEW t \in SUBSET (1..n) PROVE g[t] = rec(g)[t]
    <3>1. t # {} => g[t \ {Max(t)}] \in V BY <1>8
    <3> QED BY <1>4, <1>8, <1>9, <3>1 DEF FoldsThrough
  <2> QED BY <2>1
<1>11. iter = rec(iter)
  <2> HIDE DEF rec
  <2> QED BY <1>10
<1>12. iter[{}] = c /\ FoldsWhere(iter, SUBSET (1..n), V, f, order)
  <2> HIDE DEF iter, Full
  <2>1. iter[{}] = c BY <1>11
  <2>2. ASSUME NEW t \in SUBSET (1..n), t # {}, iter[t \ {Max(t)}] \in V
        PROVE  iter[t] = f[iter[t \ {Max(t)}], order[Max(t)]]
    <3>1. iter[t] = IF Full(iter[t \ {Max(t)}])
                    THEN Evicted(iter[t \ {Max(t)}], order[Max(t)])
                    ELSE iter[t \ {Max(t)}]
      BY <1>11, <2>2
    <3> HIDE DEF rec
    <3>2. order[Max(t)] \in X BY <1>8, <2>2
    <3> QED BY <1>4, <2>2, <3>1, <3>2
  <2> QED BY <2>1, <2>2 DEF FoldsWhere
<1>13. Procs!EvictIfFull(c) = iter[1..n]
  BY <1>1 DEF Procs!EvictIfFull, Procs!FoldLeft, Procs!MapThenFoldSet, Procs!Max, Max,
              Procs!Cardinality, Cardinality, Evicted
<1> HIDE DEF iter, rec, Full
<1>14. FoldsAlong(iter, n, V, c, f, order) BY <1>1, <1>5, <1>6, <1>12, FoldSteps
<1>15. PICK G \in [0..n -> V] :
         /\ G[0] = c
         /\ \A m \in 1..n : G[m] = f[G[m - 1], order[m]]
         /\ iter[1..n] = G[n]
  BY <1>14 DEF FoldsAlong
<1>16. CASE n = 0
  <2>1. ~(n >= ProcessCapacity) BY <1>16, Times
  <2> QED BY <1>13, <1>15, <1>16, <2>1 DEF n
<1>17. CASE n # 0
  <2> DEFINE S == {m \in Nat : m + 1 <= n => G[m + 1] = r}
  <2>1. 0 \in S
    <3>1. 1 \in 1..n BY <1>1, <1>17
    <3>2. G[1] = f[G[0], order[1]]
      <4>1. \A m \in 1..n : m = 1 => G[m] = f[G[m - 1], order[m]] BY <1>15
      <4>2. 1 - 1 = 0 OBVIOUS
      <4> QED BY ONLY <3>1, <4>1, <4>2
    <3>3. G[1] = r BY <1>7, <1>15, <1>17, <3>2
    <3>4. 0 + 1 = 1 OBVIOUS
    <3>5. 0 + 1 <= n => G[0 + 1] = r BY ONLY <3>3, <3>4
    <3> QED BY <3>5
  <2>2. ASSUME NEW m \in Nat, m \in S PROVE m + 1 \in S
    <3>1. ASSUME (m + 1) + 1 <= n PROVE G[(m + 1) + 1] = r
      <4>1. m + 1 <= n /\ (m + 1) + 1 \in 1..n /\ ((m + 1) + 1) - 1 = m + 1
        BY <1>1, <3>1
      <4>2. G[(m + 1) + 1] = f[G[m + 1], order[(m + 1) + 1]] BY <1>15, <4>1
      <4>3. order[(m + 1) + 1] \in X BY <1>1, <4>1
      <4> QED BY <1>7, <1>17, <2>2, <4>1, <4>2, <4>3
    <3> QED BY <3>1
  <2>3. n - 1 \in Nat /\ (n - 1) + 1 = n BY <1>1, <1>17
  <2>4. n - 1 \in S
    <3> HIDE DEF S
    <3> QED BY <2>1, <2>2, <2>3, Induction
  <2>5. G[n] = r BY <1>1, <2>3, <2>4
  <2>6. Head(order) = order[1]
    <3>1. order \in Seq(Lives) /\ order # <<>> BY <1>17, ProcessFields, EmptySeq DEF n
    <3> QED BY <3>1, HeadTailProperties
  <2>7. Procs!EvictIfFull(c) = r BY <1>13, <1>15, <2>5
  <2> QED BY <1>3, <2>6, <2>7 DEF r, n
<1> QED BY <1>16, <1>17

LEMMA EvictIfFullProcesses ==
    ASSUME NEW may, NEW c \in ProcessCacheOf(may), ProcessCapacity # 0
    PROVE  /\ Procs!EvictIfFull(c) \in ProcessCacheOf(may)
           /\ Len(Procs!EvictIfFull(c).insertionOrder) < ProcessCapacity
           /\ Procs!Cached(Procs!EvictIfFull(c)) \subseteq Procs!Cached(c)
           /\ \A l \in Procs!Cached(Procs!EvictIfFull(c)) :
                  Procs!EvictIfFull(c).entries[l] = c.entries[l]
<1> DEFINE l == Head(c.insertionOrder)
<1>1. CASE Len(c.insertionOrder) >= ProcessCapacity
  <2>1. c.insertionOrder \in Seq(Lives) /\ c.insertionOrder # <<>>
    BY <1>1, ProcessFields, Times, EmptySeq
  <2>2. /\ Evicted(c, l) \in ProcessCacheOf(may)
        /\ Procs!Cached(Evicted(c, l)) = Procs!Cached(c) \ {l}
        /\ \A m \in Lives \ {l} : Evicted(c, l).entries[m] = c.entries[m]
    BY <2>1, EvictedKeeps
  <2>3. Len(Evicted(c, l).insertionOrder) < ProcessCapacity
    <3>1. /\ Evicted(c, l).insertionOrder = Tail(c.insertionOrder)
          /\ Len(Tail(c.insertionOrder)) = Len(c.insertionOrder) - 1
      BY <2>1, HeadTailProperties DEF Evicted
    <3>2. /\ Len(c.insertionOrder) \in Nat /\ Len(c.insertionOrder) <= ProcessCapacity
          /\ ProcessCapacity \in Nat
      BY ProcessFields, Times
    <3>3. Len(Tail(c.insertionOrder)) < ProcessCapacity BY ONLY <3>1, <3>2
    <3> QED BY <3>1, <3>3
  <2>4. Procs!EvictIfFull(c) = Evicted(c, l) BY <1>1, EvictIfFullIs
  <2>5. Procs!Cached(c) \subseteq Lives BY ProcessFields
  <2> HIDE DEF l
  <2> QED BY <2>2, <2>3, <2>4, <2>5
<1>2. CASE ~(Len(c.insertionOrder) >= ProcessCapacity)
  BY <1>2, EvictIfFullIs, ProcessFields, Times
<1> QED BY <1>1, <1>2

(* insert: what the cache then has is what it had, or the new identity.     *)
LEMMA ReplaceKeeps ==
    ASSUME NEW may, NEW c \in ProcessCacheOf(may), NEW l \in Lives,
           NEW i \in may[l], i \in Identity, NEW time \in Nat
    PROVE  LET r == Procs!Replace(c, l, i, time)
           IN /\ r \in ProcessCacheOf(may)
              /\ ProcessCapacity # 0 => l \in Procs!Cached(r) /\ r.entries[l].identity = i
              /\ \A m \in Procs!Cached(r) : m # l =>
                     m \in Procs!Cached(c) /\ r.entries[m] = c.entries[m]
<1>1. CASE ProcessCapacity = 0
  <2>1. Procs!Replace(c, l, i, time) = c BY <1>1 DEF Procs!Replace
  <2> QED BY <1>1, <2>1
<1>2. CASE ProcessCapacity # 0
  <2> DEFINE b == Procs!Drop(c, l)
             d == Procs!EvictIfFull(b)
             new == [identity |-> i, recordedAt |-> time]
             order == Append(d.insertionOrder, l)
             entries == [d.entries EXCEPT ![l] = new]
             r == [entries |-> entries, insertionOrder |-> order]
  <2>1. Procs!Replace(c, l, i, time) = r BY <1>2 DEF Procs!Replace
  <2>2. /\ b \in ProcessCacheOf(may)
        /\ Procs!Cached(b) = Procs!Cached(c) \ {l}
        /\ \A m \in Lives \ {l} : b.entries[m] = c.entries[m]
    BY DropKeeps
  <2> HIDE DEF b
  <2>3. /\ d \in ProcessCacheOf(may) /\ Len(d.insertionOrder) < ProcessCapacity
        /\ Procs!Cached(d) \subseteq Procs!Cached(b)
        /\ \A m \in Procs!Cached(d) : d.entries[m] = b.entries[m]
    BY <1>2, <2>2, EvictIfFullProcesses
  <2> HIDE DEF d
  <2>4. /\ d.entries \in [Lives -> {Procs!Absent}
                                   \cup [identity : Identity, recordedAt : Nat]]
        /\ d.insertionOrder \in Seq(Lives) /\ Len(d.insertionOrder) \in Nat
        /\ ToSet(d.insertionOrder) = Procs!Cached(d)
        /\ IsInjective(d.insertionOrder)
        /\ Procs!Cached(d) \subseteq Lives
        /\ \A m \in Procs!Cached(d) : d.entries[m].identity \in may[m]
    BY <2>3, ProcessFields
  <2>5. l \notin ToSet(d.insertionOrder) BY <2>2, <2>3, <2>4
  <2>6. /\ order \in Seq(Lives) /\ Len(order) = Len(d.insertionOrder) + 1
        /\ ToSet(order) = ToSet(d.insertionOrder) \cup {l}
        /\ IsInjective(order)
    BY <2>4, <2>5, AppendProperties, ToSetAppend, InjectiveAppend
  <2>7. new \in [identity : Identity, recordedAt : Nat] /\ new.identity = i OBVIOUS
  <2>8. new # Procs!Absent BY <2>7, Times
  <2>9. \A m \in Lives : entries[m] = IF m = l THEN new ELSE d.entries[m] BY <2>4
  <2>10. entries \in [Lives -> {Procs!Absent} \cup [identity : Identity, recordedAt : Nat]]
    BY <2>4, <2>7
  <2> HIDE DEF new, order, entries
  <2>11. r \in [entries : [Lives -> {Procs!Absent}
                                    \cup [identity : Identity, recordedAt : Nat]],
                insertionOrder : Seq(Lives)]
         /\ r.entries = entries /\ r.insertionOrder = order
    BY <2>6, <2>10
  <2>12. Procs!Cached(r) = Procs!Cached(d) \cup {l}
    <3> HIDE DEF r
    <3> QED BY <2>8, <2>9, <2>11 DEF Procs!Cached
  <2>13. Len(order) <= ProcessCapacity BY <2>3, <2>4, <2>6, Times
  <2>14. \A m \in Lives : m \in Procs!Cached(r) => r.entries[m].identity \in may[m]
    BY <2>4, <2>7, <2>9, <2>11, <2>12
  <2> HIDE DEF r
  <2>15. r \in ProcessCacheOf(may)
    BY <2>4, <2>6, <2>11, <2>12, <2>13, <2>14 DEF ProcessCacheOf
  <2>16. l \in Procs!Cached(r) /\ r.entries[l].identity = i BY <2>7, <2>9, <2>11, <2>12
  <2>17. \A m \in Procs!Cached(r) : m # l =>
             m \in Procs!Cached(c) /\ r.entries[m] = c.entries[m]
    BY <2>2, <2>3, <2>4, <2>9, <2>11, <2>12
  <2> QED BY <2>1, <2>15, <2>16, <2>17
<1> QED BY <1>1, <1>2

(* A lookup removes at most the generation it is for, when that has expired. *)
LEMMA LookupKeeps ==
    ASSUME NEW may, NEW c \in ProcessCacheOf(may), NEW l \in Lives, NEW time
    PROVE  LET d == Procs!AfterLookup(c, l, time)
           IN /\ d \in ProcessCacheOf(may)
              /\ \A m \in Procs!Cached(d) :
                     m \in Procs!Cached(c) /\ d.entries[m] = c.entries[m]
              /\ l \in Procs!Cached(c) /\ ~Procs!Expired(c, l, time) => d = c
              /\ l \in Procs!Cached(d) =>
                     /\ Procs!Lookup(c, l, time) = c.entries[l].identity
                     /\ Procs!Lookup(c, l, time) \in may[l] \cap Identity
              /\ l \notin Procs!Cached(d) => Procs!Lookup(c, l, time) = Nobody
<1> DEFINE d == Procs!AfterLookup(c, l, time)
<1>1. /\ d \in ProcessCacheOf(may)
      /\ \A m \in Procs!Cached(d) :
             m \in Procs!Cached(c) /\ d.entries[m] = c.entries[m]
  <2>1. CASE Procs!Expired(c, l, time)
    <3>1. d = Procs!Drop(c, l) BY <2>1 DEF Procs!AfterLookup
    <3> HIDE DEF d
    <3> QED BY <3>1, DropKeeps, ProcessFields
  <2>2. CASE ~Procs!Expired(c, l, time)
    BY <2>2 DEF Procs!AfterLookup
  <2> QED BY <2>1, <2>2
<1>2. ~Procs!Expired(c, l, time) => d = c BY DEF Procs!AfterLookup
<1>3. Procs!Lookup(c, l, time) = d.entries[l].identity BY DEF Procs!Lookup
<1> HIDE DEF d
<1>4. l \in Procs!Cached(d) => /\ d.entries[l] = c.entries[l]
                               /\ d.entries[l].identity \in may[l] \cap Identity
  BY <1>1, ProcessFields
<1>5. l \notin Procs!Cached(d) => d.entries[l].identity = Nobody
  <2>1. l \notin Procs!Cached(d) => d.entries[l] = Procs!Absent BY <1>1, ProcessFields
  <2> QED BY <2>1, Times
<1> QED BY <1>1, <1>2, <1>3, <1>4, <1>5 DEF d

(* insert_exec_at: a program that was recorded is not lost to its loader,   *)
(* unless it has expired.                                                   *)
LEMMA InsertExecKeeps ==
    ASSUME NEW may, NEW c \in ProcessCacheOf(may), NEW l \in Lives,
           NEW i \in may[l], i \in Identity, NEW time \in Nat
    PROVE  LET r == Procs!InsertExec(c, l, i, time)
           IN /\ r \in ProcessCacheOf(may)
              /\ \A m \in Procs!Cached(r) : m # l =>
                     m \in Procs!Cached(c) /\ r.entries[m] = c.entries[m]
              /\ i.exe # Loader /\ ProcessCapacity # 0 =>
                     l \in Procs!Cached(r) /\ r.entries[l].identity = i
              /\ /\ i.exe = Loader /\ ~Procs!Expired(c, l, time)
                 /\ l \in Procs!Cached(c) /\ c.entries[l].identity.exe # Loader
                 => r = c
<1> DEFINE r == Procs!InsertExec(c, l, i, time)
           d == Procs!AfterLookup(c, l, time)
           kept == Procs!Lookup(c, l, time)
           loader(x) == [j \in Identity |-> j.exe = Loader][x]
<1>1. \A x \in Identity : loader(x) <=> x.exe = Loader OBVIOUS
<1>2. r = IF ~loader(i) THEN Procs!Replace(c, l, i, time)
          ELSE IF kept # Nobody /\ ~loader(kept) THEN d
          ELSE Procs!Replace(d, l, i, time)
  BY DEF Procs!InsertExec
<1>3. /\ d \in ProcessCacheOf(may)
      /\ \A m \in Procs!Cached(d) :
             m \in Procs!Cached(c) /\ d.entries[m] = c.entries[m]
      /\ l \in Procs!Cached(c) /\ ~Procs!Expired(c, l, time) => d = c
      /\ l \in Procs!Cached(d) => kept = c.entries[l].identity /\ kept \in Identity
      /\ l \notin Procs!Cached(d) => kept = Nobody
  BY LookupKeeps
<1> HIDE DEF r, d, kept, loader
<1>4. CASE i.exe # Loader
  <2>1. r = Procs!Replace(c, l, i, time) BY <1>1, <1>2, <1>4
  <2> QED BY <1>4, <2>1, ReplaceKeeps DEF r
<1>5. CASE i.exe = Loader
  <2>1. CASE kept # Nobody /\ ~loader(kept)
    <3>1. r = d BY <1>1, <1>2, <1>5, <2>1
    <3> QED BY <1>3, <1>5, <3>1 DEF r
  <2>2. CASE ~(kept # Nobody /\ ~loader(kept))
    <3>1. r = Procs!Replace(d, l, i, time) BY <1>1, <1>2, <1>5, <2>2
    <3>2. /\ r \in ProcessCacheOf(may)
          /\ \A m \in Procs!Cached(r) : m # l =>
                 m \in Procs!Cached(d) /\ r.entries[m] = d.entries[m]
      BY <1>3, <3>1, ReplaceKeeps
    <3>3. ~(/\ ~Procs!Expired(c, l, time)
            /\ l \in Procs!Cached(c) /\ c.entries[l].identity.exe # Loader)
      BY <1>1, <1>3, <2>2, Times
    <3> QED BY <1>3, <1>5, <3>2, <3>3 DEF r
  <2> QED BY <2>1, <2>2
<1> QED BY <1>4, <1>5

-----------------------------------------------------------------------------
(* The identity cache is the one AuditIdentityProofs is about.              *)

LEMMA IdAssumption ==
    /\ Capacity \in Nat /\ Nobody \notin Identity
    /\ DOMAIN [i \in Identity |-> i.start] = Identity
BY Times

LEMMA SameOperations ==
    ASSUME NEW c, NEW k, NEW i
    PROVE  /\ Ids!EmptyCache = IdFacts!EmptyCache
           /\ Ids!InvalidateKey(c, k) = IdFacts!InvalidateKey(c, k)
           /\ Ids!InsertInto(c, k, i) = IdFacts!InsertInto(c, k, i)
           /\ Ids!TakeFrom(c, k) = IdFacts!TakeFrom(c, k)
           /\ Ids!Found(c, k) = IdFacts!Found(c, k)
<1>1. Ids!EmptyCache = IdFacts!EmptyCache
  BY DEF Ids!EmptyCache, IdFacts!EmptyCache
<1>2. Ids!InvalidateKey(c, k) = IdFacts!InvalidateKey(c, k)
  BY DEF Ids!InvalidateKey, IdFacts!InvalidateKey, Ids!Without, IdFacts!Without,
         Ids!FoldLeft, IdFacts!FoldLeft, Ids!MapThenFoldSet, IdFacts!MapThenFoldSet,
         Ids!Max, IdFacts!Max
<1>3. Ids!InsertInto(c, k, i) = IdFacts!InsertInto(c, k, i)
  BY <1>2
     DEF Ids!InsertInto, IdFacts!InsertInto, Ids!EvictOldestIfFull,
         IdFacts!EvictOldestIfFull, Ids!EvictOldest, IdFacts!EvictOldest,
         Ids!GenerationChanged, IdFacts!GenerationChanged, Ids!Last, IdFacts!Last,
         Ids!InvalidateKey, IdFacts!InvalidateKey, Ids!Without, IdFacts!Without,
         Ids!FoldLeft, IdFacts!FoldLeft, Ids!MapThenFoldSet, IdFacts!MapThenFoldSet,
         Ids!Max, IdFacts!Max
<1>4. Ids!TakeFrom(c, k) = IdFacts!TakeFrom(c, k)
  BY DEF Ids!TakeFrom, IdFacts!TakeFrom, Ids!RemoveFirst, IdFacts!RemoveFirst,
         Ids!RemoveAt, IdFacts!RemoveAt, Ids!SelectInSeq, IdFacts!SelectInSeq,
         Ids!Min, IdFacts!Min
<1>5. Ids!Found(c, k) = IdFacts!Found(c, k) BY DEF Ids!Found, IdFacts!Found
<1> QED BY <1>1, <1>2, <1>3, <1>4, <1>5

(* Whatever may be queued under a key: the operations keep to it.           *)
LEMMA IdentitiesKeep ==
    ASSUME NEW allowed \in [IdentityKey -> SUBSET Identity]
    PROVE  /\ Ids!EmptyCache \in IdFacts!CacheOf(allowed)
           /\ \A c \in IdFacts!CacheOf(allowed), k \in IdentityKey :
                  /\ Ids!InvalidateKey(c, k) \in IdFacts!CacheOf(allowed)
                  /\ Ids!TakeFrom(c, k) \in IdFacts!CacheOf(allowed)
                  /\ Ids!Found(c, k) \in allowed[k] \cup {Nobody}
                  /\ \A i \in allowed[k] :
                         Ids!InsertInto(c, k, i) \in IdFacts!CacheOf(allowed)
<1>1. allowed \in IdFacts!Allowances BY DEF IdFacts!Allowances
<1>2. IdFacts!EmptyCache \in IdFacts!CacheOf(allowed) BY IdAssumption, IdFacts!EmptyKeeps
<1>3. ASSUME NEW c \in IdFacts!CacheOf(allowed), NEW k \in IdentityKey
      PROVE  /\ IdFacts!InvalidateKey(c, k) \in IdFacts!CacheOf(allowed)
             /\ IdFacts!TakeFrom(c, k) \in IdFacts!CacheOf(allowed)
             /\ IdFacts!Found(c, k) \in allowed[k] \cup {Nobody}
  BY IdAssumption, IdFacts!InvalidateKeeps, IdFacts!TakeKeeps
<1>4. ASSUME NEW c \in IdFacts!CacheOf(allowed), NEW k \in IdentityKey, NEW i \in allowed[k]
      PROVE  IdFacts!InsertInto(c, k, i) \in IdFacts!CacheOf(allowed)
  BY <1>1, IdAssumption, IdFacts!InsertKeeps
<1> QED BY <1>2, <1>3, <1>4, SameOperations

LEMMA IdentitiesMay ==
    ASSUME NEW allowed, NEW more, NEW c \in IdFacts!CacheOf(allowed),
           \A k \in IdentityKey : allowed[k] \subseteq more[k]
    PROVE  c \in IdFacts!CacheOf(more)
<1>1. \A k \in IdentityKey : c.identities[k] \in Seq(allowed[k]) BY DEF IdFacts!CacheOf
<1>2. \A k \in IdentityKey : Seq(allowed[k]) \subseteq Seq(more[k]) BY SeqMonotonic
<1> QED BY <1>1, <1>2 DEF IdFacts!CacheOf

-----------------------------------------------------------------------------
(* A queue with an event added to it, or merged into one of the same.       *)
QueuedFrom(q, r, l, o, mask) ==
    /\ r \in Seq(QueueEvent) /\ Len(r) \in {Len(q), Len(q) + 1}
    /\ \A n \in 1..Len(q) :
           /\ r[n].life = q[n].life /\ r[n].object = q[n].object
           /\ q[n].mask \subseteq r[n].mask
           /\ r[n].mask # q[n].mask =>
                  /\ q[n].life = l /\ q[n].object = o
                  /\ r[n].mask = q[n].mask \cup mask
    /\ Len(r) = Len(q) + 1 => r[Len(r)] = [life |-> l, object |-> o, mask |-> mask]
    /\ \E n \in 1..Len(r) : r[n].life = l /\ r[n].object = o /\ mask \subseteq r[n].mask

(* The kernel's queue: an event is added to one that is there, or at its    *)
(* end; all others stay as they are.                                        *)
LEMMA QueuedIs ==
    ASSUME NEW q \in Seq(QueueEvent), NEW l \in Lives, NEW o \in Objects,
           NEW mask \in SUBSET Masks
    PROVE  QueuedFrom(q, Queued(q, l, o, mask), l, o, mask)
<1> DEFINE places == {n \in 1..Len(q) : q[n].life = l /\ q[n].object = o}
           n == SelectInSeq(q, LAMBDA e : e.life = l /\ e.object = o)
           e == [life |-> l, object |-> o, mask |-> mask]
           r == Queued(q, l, o, mask)
<1>1. Len(q) \in Nat /\ \A m \in 1..Len(q) : q[m] \in QueueEvent
  BY LenProperties, ElementOfSeq
<1>2. n = IF places = {} THEN 0 ELSE Min(places) BY DEF SelectInSeq
<1>3. e \in QueueEvent BY DEF QueueEvent
<1>4. CASE places = {}
  <2>1. r = Append(q, e) BY <1>2, <1>4 DEF Queued
  <2>2. /\ Append(q, e) \in Seq(QueueEvent) /\ Len(Append(q, e)) = Len(q) + 1
        /\ \A m \in 1..Len(q) : Append(q, e)[m] = q[m]
        /\ Append(q, e)[Len(q) + 1] = e
    BY <1>3, AppendProperties
  <2>3. Len(q) + 1 \in 1..(Len(q) + 1) BY <1>1
  <2>4. e.life = l /\ e.object = o /\ e.mask = mask OBVIOUS
  <2> HIDE DEF places, n, e, r
  <2>5. /\ r \in Seq(QueueEvent) /\ Len(r) = Len(q) + 1 /\ r[Len(r)] = e
        /\ \A m \in 1..Len(q) : r[m] = q[m]
    BY <2>1, <2>2
  <2>6. \E m \in 1..Len(r) : r[m].life = l /\ r[m].object = o /\ mask \subseteq r[m].mask
    BY <2>3, <2>4, <2>5
  <2> QED BY <2>5, <2>6 DEF r, e, QueuedFrom
<1>5. CASE places # {}
  <2>1. n \in places
    <3>1. places \in SUBSET Nat BY <1>1
    <3> HIDE DEF places
    <3> QED BY <1>2, <1>5, <3>1, MinIn
  <2>2. n \in 1..Len(q) /\ q[n].life = l /\ q[n].object = o /\ n # 0 BY <1>1, <2>1
  <2>3. r = [q EXCEPT ![n].mask = @ \cup mask] BY <2>2 DEF Queued
  <2> HIDE DEF n, r, places
  <2>4. q \in [1..Len(q) -> QueueEvent] BY LenProperties, SeqDef
  <2>5. \A m \in 1..Len(q) : r[m] = IF m = n THEN [q[m] EXCEPT !.mask = @ \cup mask] ELSE q[m]
    BY <2>3, <2>4
  <2>6. \A m \in 1..Len(q) :
            /\ r[m].life = q[m].life /\ r[m].object = q[m].object
            /\ r[m].mask = IF m = n THEN q[m].mask \cup mask ELSE q[m].mask
            /\ r[m] \in QueueEvent
    <3> TAKE m \in 1..Len(q)
    <3>1. CASE m = n
      <4>1. q[m] \in QueueEvent /\ r[m] = [q[m] EXCEPT !.mask = @ \cup mask]
        BY <1>1, <2>5, <3>1
      <4>2. q[m].mask \cup mask \in SUBSET Masks BY <4>1 DEF QueueEvent
      <4> QED BY <3>1, <4>1, <4>2 DEF QueueEvent
    <3>2. CASE m # n BY <1>1, <2>5, <3>2
    <3> QED BY <3>1, <3>2
  <2>7. r \in [1..Len(q) -> QueueEvent] BY <2>3, <2>4, <2>6
  <2>8. r \in Seq(QueueEvent) /\ Len(r) = Len(q) BY <1>1, <2>7, SeqDef, LenProperties
  <2>9. Len(r) # Len(q) + 1 BY <1>1, <2>8
  <2> QED BY <2>2, <2>6, <2>8, <2>9 DEF r, QueuedFrom
<1> QED BY <1>4, <1>5

(* The events of a batch after the first.                                   *)
LEMMA TailOfBatch ==
    ASSUME NEW b \in Seq(BatchEvent), b # <<>>, NEW asks
    PROVE  /\ Head(b) \in BatchEvent /\ Head(b) = b[1] /\ 1 \in 1..Len(b)
           /\ Tail(b) \in Seq(BatchEvent) /\ Len(Tail(b)) = Len(b) - 1
           /\ \A n \in 1..Len(Tail(b)) : Tail(b)[n] = b[n + 1] /\ n + 1 \in 1..Len(b)
           /\ \A e \in ToSet(b) : e = Head(b) \/ e \in ToSet(Tail(b))
           /\ ExecsAsked(b, asks) => ExecsAsked(Tail(b), asks)
           /\ OfItsLife(b) => OfItsLife(Tail(b))
<1>1. /\ Head(b) = b[1] /\ 1 \in 1..Len(b) /\ Len(b) \in Nat
      /\ Tail(b) \in Seq(BatchEvent) /\ Len(Tail(b)) = Len(b) - 1
      /\ \A n \in 1..Len(Tail(b)) : Tail(b)[n] = b[n + 1]
  BY HeadTailProperties, LenProperties, EmptySeq
<1>2. Head(b) \in BatchEvent BY <1>1, ElementOfSeq
<1>3. \A n \in 1..Len(Tail(b)) : n + 1 \in 1..Len(b) BY <1>1
<1>4. ASSUME NEW e \in ToSet(b) PROVE e = Head(b) \/ e \in ToSet(Tail(b))
  <2>1. PICK n \in 1..Len(b) : e = b[n] BY <1>4, ToSetIs
  <2>2. CASE n = 1 BY <1>1, <2>1, <2>2
  <2>3. CASE n # 1
    <3>1. n - 1 \in 1..Len(Tail(b)) /\ (n - 1) + 1 = n BY <1>1, <2>3
    <3>2. e = Tail(b)[n - 1] BY <1>1, <2>1, <3>1
    <3>3. ToSet(Tail(b)) = {Tail(b)[m] : m \in 1..Len(Tail(b))} BY <1>1, ToSetIs
    <3> QED BY <3>1, <3>2, <3>3
  <2> QED BY <2>2, <2>3
<1> HIDE DEF BatchEvent
<1>5. ExecsAsked(b, asks) => ExecsAsked(Tail(b), asks) BY <1>1, <1>3 DEF ExecsAsked
<1>6. OfItsLife(b) => OfItsLife(Tail(b)) BY <1>1, <1>3 DEF OfItsLife
<1> QED BY <1>1, <1>2, <1>3, <1>4, <1>5, <1>6

(* What was queued still is, with what is added to it.                      *)
LEMMA QueuedKeeps ==
    ASSUME NEW q \in Seq(QueueEvent), NEW l \in Lives, NEW o \in Objects,
           NEW mask \in SUBSET Masks, NEW r, r = Queued(q, l, o, mask),
           NEW asks, ExecsAsked(q, asks), "exec" \in mask => o \in asks[l]
    PROVE  /\ r \in Seq(QueueEvent) /\ ExecsAsked(r, asks)
           /\ \A e \in ToSet(q) : \E f \in ToSet(r) :
                  f.life = e.life /\ f.object = e.object /\ e.mask \subseteq f.mask
           /\ \E f \in ToSet(r) : f.life = l /\ f.object = o /\ mask \subseteq f.mask
<1>0. QueuedFrom(q, r, l, o, mask) BY ONLY QueuedIs, r = Queued(q, l, o, mask)
<1>1. /\ r \in Seq(QueueEvent) /\ Len(r) \in {Len(q), Len(q) + 1}
      /\ \A n \in 1..Len(q) :
             /\ r[n].life = q[n].life /\ r[n].object = q[n].object
             /\ q[n].mask \subseteq r[n].mask
             /\ r[n].mask # q[n].mask =>
                    /\ q[n].life = l /\ q[n].object = o
                    /\ r[n].mask = q[n].mask \cup mask
      /\ Len(r) = Len(q) + 1 =>
             r[Len(r)] = [life |-> l, object |-> o, mask |-> mask]
      /\ \E n \in 1..Len(r) : r[n].life = l /\ r[n].object = o /\ mask \subseteq r[n].mask
  BY ONLY <1>0 DEF QueuedFrom
<1>2. Len(q) \in Nat /\ Len(r) \in Nat BY <1>1, LenProperties
<1>3. /\ ToSet(q) = {q[n] : n \in 1..Len(q)}
      /\ ToSet(r) = {r[n] : n \in 1..Len(r)}
      /\ 1..Len(q) \subseteq 1..Len(r)
  BY <1>1, <1>2, ToSetIs
<1>4. \A e \in ToSet(q) : \E f \in ToSet(r) :
          f.life = e.life /\ f.object = e.object /\ e.mask \subseteq f.mask
  <2> TAKE e \in ToSet(q)
  <2>1. PICK n \in 1..Len(q) : e = q[n] BY <1>3
  <2>2. r[n] \in ToSet(r) BY <1>3
  <2> QED BY <1>1, <2>1, <2>2
<1>5. \E f \in ToSet(r) : f.life = l /\ f.object = o /\ mask \subseteq f.mask
  BY <1>1, <1>3
<1>6. ExecsAsked(r, asks)
  <2> SUFFICES ASSUME NEW n \in 1..Len(r), "exec" \in r[n].mask
               PROVE  r[n].object \in asks[r[n].life]
    BY DEF ExecsAsked
  <2>1. CASE n \in 1..Len(q)
    <3>1. CASE r[n].mask = q[n].mask BY <1>1, <2>1, <3>1 DEF ExecsAsked
    <3>2. CASE r[n].mask # q[n].mask
      <4>1. "exec" \in q[n].mask => q[n].object \in asks[q[n].life]
        BY <2>1 DEF ExecsAsked
      <4> QED BY <1>1, <2>1, <3>2, <4>1
    <3> QED BY <3>1, <3>2
  <2>2. CASE n \notin 1..Len(q)
    <3>1. Len(r) = Len(q) + 1 /\ n = Len(r) BY <1>1, <1>2, <2>2
    <3> QED BY <1>1, <3>1
  <2> QED BY <2>1, <2>2
<1> QED BY <1>1, <1>4, <1>5, <1>6

-----------------------------------------------------------------------------
(* The base: what the variables hold, that no close is lost, and that the   *)
(* caches are consistent.                                                   *)
AnyIdentity == [l \in Lives |-> Identity]
AllowAny == [k \in IdentityKey |-> Identity]

BaseInv ==
    /\ WorldOK /\ EventsOK /\ AuditorOK /\ NoCloseLost
    /\ identities \in IdFacts!CacheOf(AllowAny)
    /\ processes \in ProcessCacheOf(AnyIdentity)

LEMMA BasePrimed ==
    ASSUME WorldOK', EventsOK', AuditorOK', NoCloseLost',
           identities' \in IdFacts!CacheOf(AllowAny),
           processes' \in ProcessCacheOf(AnyIdentity)
    PROVE  BaseInv'
<1>1. (identities \in IdFacts!CacheOf(AllowAny))'
  BY DEF IdFacts!CacheOf, AllowAny, IdFacts!OneGeneration, IdFacts!Count,
         IdFacts!Quantify, IdFacts!ToSet, IdentityKey, Identity, Objects
<1>2. (processes \in ProcessCacheOf(AnyIdentity))'
  BY DEF ProcessCacheOf, AnyIdentity, Identity
<1> QED BY <1>1, <1>2 DEF BaseInv

LEMMA BaseInit == Init => BaseInv
<1> SUFFICES ASSUME Init PROVE BaseInv OBVIOUS
<1>1. WorldOK BY AuditAssumption DEF Init, WorldOK
<1>2. EventsOK /\ AuditorOK /\ NoCloseLost
  <2>1. queue = <<>> /\ batch = <<>> /\ pc = "read" /\ owed = {} BY DEF Init
  <2>2. Len(<<>>) = 0 /\ 1..0 = {} OBVIOUS
  <2> QED BY <2>1, <2>2 DEF EventsOK, ExecsAsked, OfItsLife, AuditorOK, NoCloseLost
<1>3. identities \in IdFacts!CacheOf(AllowAny)
  <2>1. AllowAny \in [IdentityKey -> SUBSET Identity] BY DEF AllowAny
  <2> QED BY <2>1, IdentitiesKeep DEF Init
<1>4. processes \in ProcessCacheOf(AnyIdentity) BY EmptyProcesses DEF Init
<1> QED BY <1>1, <1>2, <1>3, <1>4 DEF BaseInv

(* Events are only added to.                                                *)
LEMMA CloseCovered ==
    ASSUME NoCloseLost, owed \subseteq Lives \X Watched \X CloseKinds, batch' = batch,
           NEW more \in SUBSET (Lives \X Watched \X CloseKinds), owed' = owed \cup more,
           \A e \in ToSet(queue) : \E f \in ToSet(queue') :
               f.life = e.life /\ f.object = e.object /\ e.mask \subseteq f.mask,
           \A c \in more : \E f \in ToSet(queue') :
               f.life = c[1] /\ f.object = c[2] /\ c[3] \in f.mask
    PROVE  NoCloseLost'
<1> SUFFICES ASSUME NEW c \in owed'
             PROVE  \E e \in ToSet(queue') \cup ToSet(batch') :
                        e.life = c[1] /\ e.object = c[2] /\ c[3] \in e.mask
  BY DEF NoCloseLost, ToSet
<1>1. CASE c \in more BY <1>1
<1>2. CASE c \in owed
  <2>1. PICK e \in ToSet(queue) \cup ToSet(batch) :
            e.life = c[1] /\ e.object = c[2] /\ c[3] \in e.mask
    BY <1>2 DEF NoCloseLost
  <2>2. CASE e \in ToSet(queue)
    <3>1. PICK f \in ToSet(queue') :
              f.life = e.life /\ f.object = e.object /\ e.mask \subseteq f.mask
      BY <2>2
    <3> QED BY <2>1, <3>1
  <2>3. CASE e \in ToSet(batch) BY <2>1, <2>3
  <2> QED BY <2>2, <2>3
<1> QED BY <1>1, <1>2

(* Nothing of the auditor's moves while the world does.                     *)
LEMMA WorldBase ==
    ASSUME BaseInv, World
    PROVE  BaseInv'
<1>1. /\ WorldOK /\ EventsOK /\ AuditorOK /\ NoCloseLost
      /\ identities \in IdFacts!CacheOf(AllowAny)
      /\ processes \in ProcessCacheOf(AnyIdentity)
  BY DEF BaseInv
<1>2. ASSUME UNCHANGED auditVars, WorldOK', EventsOK', NoCloseLost',
             owed' \subseteq Lives \X Watched \X CloseKinds
      PROVE  BaseInv'
  <2>1. AuditorOK' BY <1>1, <1>2 DEF AuditorOK, auditVars
  <2>2. identities' \in IdFacts!CacheOf(AllowAny) /\ processes' \in ProcessCacheOf(AnyIdentity)
    BY <1>1, <1>2 DEF auditVars
  <2> QED BY <1>2, <2>1, <2>2, BasePrimed
<1>3. ASSUME UNCHANGED <<auditVars, owed, queue, asked>>, WorldOK' PROVE BaseInv'
  <2>1. EventsOK' BY <1>1, <1>3 DEF EventsOK, ExecsAsked, OfItsLife, auditVars
  <2>2. NoCloseLost' BY <1>1, <1>3 DEF NoCloseLost, ToSet, auditVars
  <2>3. owed' \subseteq Lives \X Watched \X CloseKinds BY <1>1, <1>3 DEF AuditorOK
  <2> QED BY <1>2, <1>3, <2>1, <2>2, <2>3 DEF auditVars
<1>4. ASSUME NEW l \in Lives, Start(l) \/ Exits(l) PROVE BaseInv'
  <2>1. WorldOK' BY <1>1, <1>4 DEF Start, Exits, WorldOK
  <2> QED BY <1>3, <1>4, <2>1 DEF Start, Exits
<1>5. ASSUME NEW l \in Lives, ExecEnds(l) PROVE BaseInv'
  <2>1. execing[l] \in Programs \ {Loader}
    BY <1>1, <1>5, AuditAssumption DEF ExecEnds, WorldOK
  <2>2. WorldOK' BY <1>1, <1>5, <2>1 DEF ExecEnds, WorldOK
  <2> QED BY <1>3, <1>5, <2>2 DEF ExecEnds
<1>6. ASSUME Tick PROVE BaseInv'
  <2>1. WorldOK' BY <1>1, <1>6 DEF Tick, WorldOK
  <2> QED BY <1>3, <1>6, <2>1 DEF Tick
<1>7. ASSUME NEW l \in Lives, NEW f \in Files, Open(l, f) PROVE BaseInv'
  <2>1. f \in Objects /\ {"open"} \in SUBSET Masks /\ "exec" \notin {"open"}
    BY DEF Objects, Masks
  <2>2. /\ queue' \in Seq(QueueEvent) /\ ExecsAsked(queue', asked)
        /\ \A e \in ToSet(queue) : \E g \in ToSet(queue') :
               g.life = e.life /\ g.object = e.object /\ e.mask \subseteq g.mask
    <3>1. queue' = Queued(queue, l, f, {"open"}) BY <1>7 DEF Open
    <3> QED BY <1>1, <2>1, <3>1, QueuedKeeps DEF EventsOK
  <2>3. WorldOK' BY <1>1, <1>7 DEF Open, WorldOK
  <2>4. UNCHANGED <<batch, asked, owed>> BY <1>7 DEF Open, auditVars
  <2>5. EventsOK' BY <1>1, <2>2, <2>4 DEF EventsOK, ExecsAsked, OfItsLife
  <2>6. /\ owed' = owed \cup {} /\ owed \subseteq Lives \X Watched \X CloseKinds
        /\ {} \in SUBSET (Lives \X Watched \X CloseKinds)
        /\ \A c \in {} : FALSE
    BY <1>1, <2>4 DEF AuditorOK
  <2>7. NoCloseLost' BY <1>1, <2>2, <2>4, <2>6, CloseCovered
  <2> QED BY <1>2, <1>7, <2>3, <2>4, <2>5, <2>6, <2>7 DEF Open
<1>8. ASSUME NEW l \in Lives, NEW o \in Objects, NEW kind \in CloseKinds, Close(l, o, kind)
      PROVE  BaseInv'
  <2>1. {kind} \in SUBSET Masks /\ "exec" \notin {kind} BY DEF CloseKinds, Masks
  <2>2. /\ queue' \in Seq(QueueEvent) /\ ExecsAsked(queue', asked)
        /\ \A e \in ToSet(queue) : \E g \in ToSet(queue') :
               g.life = e.life /\ g.object = e.object /\ e.mask \subseteq g.mask
        /\ \E g \in ToSet(queue') : g.life = l /\ g.object = o /\ {kind} \subseteq g.mask
    <3> DEFINE mask == {kind}
    <3>1. queue' = Queued(queue, l, o, mask) BY <1>8 DEF Close
    <3>2. mask \in SUBSET Masks /\ ("exec" \in mask => o \in asked[l]) BY <2>1
    <3>3. queue \in Seq(QueueEvent) /\ ExecsAsked(queue, asked) BY <1>1 DEF EventsOK
    <3> HIDE DEF mask
    <3>4. /\ queue' \in Seq(QueueEvent) /\ ExecsAsked(queue', asked)
          /\ \A e \in ToSet(queue) : \E g \in ToSet(queue') :
                 g.life = e.life /\ g.object = e.object /\ e.mask \subseteq g.mask
          /\ \E g \in ToSet(queue') : g.life = l /\ g.object = o /\ mask \subseteq g.mask
      BY <3>1, <3>2, <3>3, QueuedKeeps
    <3> QED BY <3>4 DEF mask
  <2>3. WorldOK' BY <1>1, <1>8 DEF Close, WorldOK
  <2>4. UNCHANGED <<batch, asked>> BY <1>8 DEF Close, auditVars
  <2>5. EventsOK' BY <1>1, <2>2, <2>4 DEF EventsOK, ExecsAsked, OfItsLife
  <2> DEFINE more == {<<l, o, kind>>} \cap (Lives \X Watched \X CloseKinds)
  <2>6. /\ owed' = owed \cup more /\ more \in SUBSET (Lives \X Watched \X CloseKinds)
        /\ owed \subseteq Lives \X Watched \X CloseKinds
    BY <1>1, <1>8 DEF Close, AuditorOK
  <2>7. \A c \in more : \E g \in ToSet(queue') :
            g.life = c[1] /\ g.object = c[2] /\ c[3] \in g.mask
    BY <2>2
  <2> HIDE DEF more
  <2>8. NoCloseLost' BY <1>1, <2>2, <2>4, <2>6, <2>7, CloseCovered
  <2>9. owed' \subseteq Lives \X Watched \X CloseKinds BY <2>6
  <2> QED BY <1>2, <1>8, <2>3, <2>5, <2>8, <2>9 DEF Close
<1>9. ASSUME NEW l \in Lives, NEW p \in Commands, ExecOpens(l, p) PROVE BaseInv'
  <2>1. /\ p \in Objects /\ Loader \in Objects /\ p \in Programs /\ Loader \in Programs
        /\ {"open", "exec"} \in SUBSET Masks
    BY AuditAssumption DEF Objects, Masks
  <2>2. asked' = [asked EXCEPT ![l] = @ \cup {p, Loader}] /\ asked \in [Lives -> SUBSET Programs]
    BY <1>1, <1>9 DEF ExecOpens, WorldOK
  <2>3. /\ asked' \in [Lives -> SUBSET Programs] /\ p \in asked'[l] /\ Loader \in asked'[l]
        /\ \A m \in Lives : asked[m] \subseteq asked'[m]
    BY <2>1, <2>2
  <2>4. WorldOK' BY <1>1, <1>9, <2>3 DEF ExecOpens, WorldOK
  <2>5. ExecsAsked(queue, asked') /\ ExecsAsked(batch, asked')
    <3>1. \A n \in 1..Len(queue) : queue[n].life \in Lives
      <4>1. \A n \in 1..Len(queue) : queue[n] \in QueueEvent
        BY <1>1, ElementOfSeq DEF EventsOK
      <4> QED BY <4>1 DEF QueueEvent
    <3>2. \A n \in 1..Len(batch) : batch[n].life \in Lives
      <4>1. \A n \in 1..Len(batch) : batch[n] \in BatchEvent
        BY <1>1, ElementOfSeq DEF EventsOK
      <4> QED BY <4>1 DEF BatchEvent
    <3> QED BY <1>1, <2>3, <3>1, <3>2 DEF EventsOK, ExecsAsked
  <2> DEFINE mask == {"open", "exec"}
             first == Queued(queue, l, p, mask)
  <2>6. mask \in SUBSET Masks /\ queue' = Queued(first, l, Loader, mask)
    BY <1>9, <2>1 DEF ExecOpens
  <2> HIDE DEF mask
  <2>7. /\ first \in Seq(QueueEvent) /\ ExecsAsked(first, asked')
        /\ \A e \in ToSet(queue) : \E g \in ToSet(first) :
               g.life = e.life /\ g.object = e.object /\ e.mask \subseteq g.mask
    <3>1. queue \in Seq(QueueEvent) BY <1>1 DEF EventsOK
    <3>2. first = Queued(queue, l, p, mask) OBVIOUS
    <3>3. ExecsAsked(queue, asked') /\ p \in asked'[l] BY <2>3, <2>5
    <3> HIDE DEF first
    <3>4. p \in Objects /\ mask \in SUBSET Masks BY <2>1, <2>6
    <3>5. /\ first \in Seq(QueueEvent) /\ ExecsAsked(first, asked')
          /\ \A e \in ToSet(queue) : \E g \in ToSet(first) :
                 g.life = e.life /\ g.object = e.object /\ e.mask \subseteq g.mask
          /\ \E g \in ToSet(first) : g.life = l /\ g.object = p /\ mask \subseteq g.mask
      BY ONLY l \in Lives, <3>1, <3>2, <3>3, <3>4, QueuedKeeps
    <3> QED BY <3>5
  <2> HIDE DEF first
  <2>8. /\ queue' \in Seq(QueueEvent) /\ ExecsAsked(queue', asked')
        /\ \A e \in ToSet(first) : \E g \in ToSet(queue') :
               g.life = e.life /\ g.object = e.object /\ e.mask \subseteq g.mask
    <3>1. Loader \in asked'[l] BY <2>3
    <3> QED BY ONLY l \in Lives, <2>1, <2>6, <2>7, <3>1, QueuedKeeps
  <2>9. \A e \in ToSet(queue) : \E g \in ToSet(queue') :
            g.life = e.life /\ g.object = e.object /\ e.mask \subseteq g.mask
    <3> TAKE e \in ToSet(queue)
    <3>1. PICK d \in ToSet(first) :
              d.life = e.life /\ d.object = e.object /\ e.mask \subseteq d.mask
      BY <2>7
    <3>2. PICK g \in ToSet(queue') :
              g.life = d.life /\ g.object = d.object /\ d.mask \subseteq g.mask
      BY <2>8
    <3> QED BY <3>1, <3>2
  <2>10. batch' = batch /\ owed' = owed BY <1>9 DEF ExecOpens, auditVars
  <2>11. EventsOK' BY <1>1, <2>5, <2>8, <2>10 DEF EventsOK, ExecsAsked, OfItsLife
  <2>12. /\ owed' = owed \cup {} /\ owed \subseteq Lives \X Watched \X CloseKinds
        /\ {} \in SUBSET (Lives \X Watched \X CloseKinds)
        /\ \A c \in {} : FALSE
    BY <1>1, <2>10 DEF AuditorOK
  <2>13. NoCloseLost' BY <1>1, <2>9, <2>10, <2>12, CloseCovered
  <2> QED BY <1>2, <1>9, <2>4, <2>10, <2>11, <2>12, <2>13 DEF ExecOpens
<1> QED BY <1>4, <1>5, <1>6, <1>7, <1>8, <1>9 DEF World

-----------------------------------------------------------------------------
(* The auditor's steps on its caches.                                       *)

(* What an exec event says of its process.                                  *)
ExecIdentity ==
    IF Inspectable(pidOf) # {} THEN Inspected(pidOf)
    ELSE [pid |-> pidOf, exe |-> event.object, start |-> None]

LEMMA EventIs ==
    ASSUME BaseInv, batch # <<>>
    PROVE  /\ event.life \in Lives /\ event.object \in Objects
           /\ event.generation \in {None, event.life}
           /\ pidOf \in Pids /\ pidOf = PidOf[event.life]
           /\ Key \in IdentityKey /\ Key[1] = pidOf
           /\ "exec" \in event.mask =>
                  event.object \in asked[event.life] /\ event.object \in Programs
<1>1. batch \in Seq(BatchEvent) /\ ExecsAsked(batch, asked) /\ OfItsLife(batch)
  BY DEF BaseInv, EventsOK
<1>2. event \in BatchEvent /\ event = batch[1] /\ 1 \in 1..Len(batch)
  BY <1>1, TailOfBatch DEF event
<1>3. event.life \in Lives /\ event.object \in Objects BY <1>2 DEF BatchEvent
<1>4. event.generation \in {None, event.life} BY <1>1, <1>2 DEF OfItsLife
<1>5. "exec" \in event.mask => event.object \in asked[event.life]
  BY <1>1, <1>2 DEF ExecsAsked
<1>6. asked[event.life] \subseteq Programs BY <1>3 DEF BaseInv, WorldOK
<1>7. pidOf \in Pids /\ pidOf = PidOf[event.life] BY <1>3, AuditAssumption DEF pidOf
<1>8. Key \in IdentityKey /\ Key[1] = pidOf BY <1>3, <1>7 DEF Key, IdentityKey
<1> QED BY <1>3, <1>4, <1>5, <1>6, <1>7, <1>8

(* /proc tells of a process that runs, and never of the loader.             *)
LEMMA InspectedIs ==
    ASSUME BaseInv, NEW pid \in Pids, Inspectable(pid) # {}
    PROVE  \E l \in Lives :
               /\ PidOf[l] = pid /\ Running(l)
               /\ Inspected(pid) = [pid |-> pid, exe |-> image[l], start |-> l]
               /\ Inspected(pid) \in Identity /\ Inspected(pid).exe = image[l]
               /\ image[l] # Loader
<1> DEFINE l == CHOOSE m \in Inspectable(pid) : TRUE
<1>1. l \in Lives /\ PidOf[l] = pid /\ Running(l)
  <2>1. l \in Inspectable(pid) OBVIOUS
  <2> HIDE DEF l
  <2> QED BY <2>1 DEF Inspectable
<1>2. Inspected(pid) = [pid |-> pid, exe |-> image[l], start |-> l] BY DEF Inspected
<1> HIDE DEF l
<1>3. image[l] \in Programs \ {Loader} BY <1>1 DEF BaseInv, WorldOK
<1> QED BY <1>1, <1>2, <1>3 DEF Identity

LEMMA ExecIdentityIs ==
    ASSUME BaseInv, batch # <<>>, "exec" \in event.mask
    PROVE  ExecIdentity \in Identity
<1>1. CASE Inspectable(pidOf) # {} BY <1>1, EventIs, InspectedIs DEF ExecIdentity
<1>2. CASE Inspectable(pidOf) = {} BY <1>2, EventIs DEF ExecIdentity, Identity
<1> QED BY <1>1, <1>2

LEMMA RecordExecStep ==
    ASSUME BaseInv, RecordExec, NEW may, processes \in ProcessCacheOf(may),
           "exec" \in event.mask /\ event.generation # None => ExecIdentity \in may[event.life]
    PROVE  processes' \in ProcessCacheOf(may)
<1>1. batch # <<>> BY DEF RecordExec, BaseInv, AuditorOK
<1>2. CASE "exec" \in event.mask /\ event.generation # None
  <2>1. processes' = Procs!InsertExec(processes, event.generation, ExecIdentity, now)
    BY <1>2 DEF RecordExec, ExecIdentity
  <2>2. event.generation = event.life /\ event.generation \in Lives BY <1>1, <1>2, EventIs
  <2>3. ExecIdentity \in Identity BY <1>1, <1>2, ExecIdentityIs
  <2>4. now \in Nat BY DEF BaseInv, WorldOK
  <2>5. ExecIdentity \in may[event.generation] BY <1>2, <2>2
  <2> DEFINE l == event.generation
             i == ExecIdentity
  <2> HIDE DEF l, i
  <2>6. l \in Lives /\ i \in may[l] /\ i \in Identity
        /\ processes' = Procs!InsertExec(processes, l, i, now)
    BY <2>1, <2>2, <2>3, <2>5 DEF l, i
  <2> QED BY <2>4, <2>6, InsertExecKeeps
<1>3. CASE ~("exec" \in event.mask /\ event.generation # None) BY <1>3 DEF RecordExec
<1> QED BY <1>2, <1>3

(* The lookups of the two other steps.                                      *)
LEMMA LooksUp ==
    ASSUME BaseInv, RecordOpen \/ Judge
    PROVE  /\ batch # <<>>
           /\ processes' \in {processes, Procs!AfterLookup(processes, event.life, now)}
<1>1. batch # <<>> BY DEF RecordOpen, Judge, BaseInv, AuditorOK
<1>2. event.generation # None => event.generation = event.life BY <1>1, EventIs
<1> QED BY <1>1, <1>2 DEF RecordOpen, Judge

LEMMA LookupStep ==
    ASSUME BaseInv, RecordOpen \/ Judge, NEW may, processes \in ProcessCacheOf(may)
    PROVE  processes' \in ProcessCacheOf(may)
<1>1. event.life \in Lives BY LooksUp, EventIs
<1>2. Procs!AfterLookup(processes, event.life, now) \in ProcessCacheOf(may)
  BY <1>1, LookupKeeps
<1> QED BY <1>2, LooksUp

(* An open is recorded as what /proc says, or as what the cache knows.      *)
LEMMA RecordOpenStep ==
    ASSUME BaseInv, RecordOpen, NEW may, processes \in ProcessCacheOf(may),
           NEW allowed \in [IdentityKey -> SUBSET Identity],
           identities \in IdFacts!CacheOf(allowed),
           Inspectable(pidOf) # {} => Inspected(pidOf) \in allowed[Key],
           event.generation # None => may[event.life] \cap Identity \subseteq allowed[Key]
    PROVE  identities' \in IdFacts!CacheOf(allowed)
<1> DEFINE consult == "open" \in event.mask /\ Inspectable(pidOf) = {}
                          /\ event.generation # None
           seen == IF Inspectable(pidOf) # {} THEN Inspected(pidOf)
                   ELSE IF consult THEN Procs!Lookup(processes, event.generation, now)
                   ELSE Nobody
<1>1. batch # <<>> BY DEF RecordOpen, BaseInv, AuditorOK
<1>2. /\ event.life \in Lives /\ Key \in IdentityKey
      /\ event.generation # None => event.generation = event.life
  BY <1>1, EventIs
<1>3. seen \in allowed[Key] \cup {Nobody}
  <2>1. CASE Inspectable(pidOf) # {} BY <2>1
  <2>2. CASE Inspectable(pidOf) = {} /\ consult
    <3>1. seen = Procs!Lookup(processes, event.life, now) BY <1>2, <2>2
    <3>2. Procs!Lookup(processes, event.life, now) \in (may[event.life] \cap Identity) \cup {Nobody}
      BY <1>2, LookupKeeps
    <3> QED BY <2>2, <3>1, <3>2
  <2>3. CASE Inspectable(pidOf) = {} /\ ~consult BY <2>3
  <2> QED BY <2>1, <2>2, <2>3
<1>4. identities' = IF "open" \notin event.mask THEN identities
                    ELSE IF seen = Nobody THEN Ids!InvalidateKey(identities, Key)
                    ELSE Ids!InsertInto(identities, Key, seen)
  BY DEF RecordOpen
<1> HIDE DEF seen
<1>5. Ids!InvalidateKey(identities, Key) \in IdFacts!CacheOf(allowed)
  BY <1>2, IdentitiesKeep
<1>6. seen # Nobody => Ids!InsertInto(identities, Key, seen) \in IdFacts!CacheOf(allowed)
  BY <1>2, <1>3, IdentitiesKeep
<1> QED BY <1>4, <1>5, <1>6

LEMMA JudgeStep ==
    ASSUME BaseInv, Judge, NEW allowed \in [IdentityKey -> SUBSET Identity],
           identities \in IdFacts!CacheOf(allowed)
    PROVE  identities' \in IdFacts!CacheOf(allowed)
<1>1. Key \in IdentityKey BY LooksUp, EventIs
<1>2. identities' = Ids!TakeFrom(identities, Key) BY DEF Judge
<1> QED BY <1>1, <1>2, IdentitiesKeep

(* An event is dropped when no close that is owed needs it.                 *)
LEMMA DoneCovered ==
    ASSUME BaseInv, batch # <<>>, batch' = Tail(batch), queue' = queue, owed' \subseteq owed,
           \A c \in owed' :
               ~(event.life = c[1] /\ event.object = c[2] /\ c[3] \in event.mask)
    PROVE  NoCloseLost'
<1> SUFFICES ASSUME NEW c \in owed'
             PROVE  \E e \in ToSet(queue') \cup ToSet(batch') :
                        e.life = c[1] /\ e.object = c[2] /\ c[3] \in e.mask
  BY DEF NoCloseLost, ToSet
<1>1. PICK e \in ToSet(queue) \cup ToSet(batch) :
          e.life = c[1] /\ e.object = c[2] /\ c[3] \in e.mask
  BY DEF BaseInv, NoCloseLost
<1>2. e # event BY <1>1
<1>3. batch \in Seq(BatchEvent) BY DEF BaseInv, EventsOK
<1>4. e \in ToSet(batch) => e \in ToSet(Tail(batch)) BY <1>2, <1>3, TailOfBatch DEF event
<1> QED BY <1>1, <1>4

LEMMA AuditorBase ==
    ASSUME BaseInv, Auditor
    PROVE  BaseInv'
<1>1. /\ WorldOK /\ EventsOK /\ AuditorOK /\ NoCloseLost
      /\ identities \in IdFacts!CacheOf(AllowAny)
      /\ processes \in ProcessCacheOf(AnyIdentity)
  BY DEF BaseInv
<1>2. AllowAny \in [IdentityKey -> SUBSET Identity] /\ \A k \in IdentityKey : AllowAny[k] = Identity
      /\ \A l \in Lives : AnyIdentity[l] = Identity
  BY DEF AllowAny, AnyIdentity
<1>3. ASSUME batch # <<>>, UNCHANGED worldVars, EventDone,
             NoCloseLost', owed' \subseteq owed
      PROVE  WorldOK' /\ EventsOK' /\ AuditorOK'
  <2>1. WorldOK' BY <1>1, <1>3 DEF WorldOK, worldVars
  <2>2. /\ batch' \in Seq(BatchEvent) /\ ExecsAsked(batch', asked) /\ OfItsLife(batch')
    BY <1>1, <1>3, TailOfBatch DEF EventDone, EventsOK
  <2>3. queue' = queue /\ asked' = asked BY <1>3 DEF worldVars
  <2>4. EventsOK' BY <1>1, <2>2, <2>3 DEF EventsOK, ExecsAsked, OfItsLife
  <2>5. AuditorOK' BY <1>1, <1>3 DEF AuditorOK, EventDone
  <2> QED BY <2>1, <2>4, <2>5
<1>4. ASSUME batch # <<>>, UNCHANGED <<worldVars, batch, owed>>, pc' \in {"open", "judge"}
      PROVE  WorldOK' /\ EventsOK' /\ AuditorOK' /\ NoCloseLost'
  <2>1. WorldOK' BY <1>1, <1>4 DEF WorldOK, worldVars
  <2>2. EventsOK' BY <1>1, <1>4 DEF EventsOK, ExecsAsked, OfItsLife, worldVars
  <2>3. AuditorOK' BY <1>1, <1>4 DEF AuditorOK
  <2>4. NoCloseLost' BY <1>1, <1>4 DEF NoCloseLost, ToSet, worldVars
  <2> QED BY <2>1, <2>2, <2>3, <2>4
<1>5. ASSUME ReadEvents PROVE BaseInv'
  <2>1. queue # <<>> /\ batch = <<>> BY <1>1, <1>5 DEF ReadEvents, AuditorOK
  <2>2. queue \in Seq(QueueEvent) /\ Len(queue) \in Nat /\ DOMAIN queue = 1..Len(queue)
    BY <1>1, LenProperties DEF EventsOK
  <2>3. \A n \in 1..Len(queue) : queue[n] \in QueueEvent BY <2>2, ElementOfSeq
  <2>4. \A n \in 1..Len(queue) :
            /\ batch'[n].life = queue[n].life /\ batch'[n].object = queue[n].object
            /\ batch'[n].mask = queue[n].mask
            /\ batch'[n].generation \in {None, queue[n].life}
            /\ batch'[n] \in BatchEvent
    BY <1>5, <2>2, <2>3 DEF ReadEvents, QueueEvent, BatchEvent
  <2>5. DOMAIN batch' = 1..Len(queue) /\ batch' = [n \in 1..Len(queue) |-> batch'[n]]
    BY <1>5, <2>2 DEF ReadEvents
  <2>6. batch' \in Seq(BatchEvent) /\ Len(batch') = Len(queue)
    <3>1. batch' \in [1..Len(queue) -> BatchEvent] BY <2>4, <2>5
    <3> QED BY <2>2, <3>1, SeqDef, LenProperties
  <2>7. batch' # <<>> BY <2>1, <2>2, <2>6, EmptySeq
  <2>8. queue' = <<>> /\ asked' = asked /\ pc' = "exec" /\ owed' = owed
    BY <1>5 DEF ReadEvents
  <2>9. EventsOK'
    <3>1. ExecsAsked(batch', asked) BY <1>1, <2>4, <2>6 DEF EventsOK, ExecsAsked
    <3>2. OfItsLife(batch') BY <2>4, <2>6 DEF OfItsLife
    <3>3. <<>> \in Seq(QueueEvent) /\ Len(<<>>) = 0 /\ 1..0 = {} OBVIOUS
    <3>4. ExecsAsked(<<>>, asked) BY <3>3 DEF ExecsAsked
    <3> QED BY <2>6, <2>8, <3>1, <3>2, <3>3, <3>4 DEF EventsOK, ExecsAsked, OfItsLife
  <2>10. WorldOK' BY <1>1, <1>5 DEF ReadEvents, WorldOK
  <2>11. AuditorOK' BY <1>1, <2>7, <2>8 DEF AuditorOK
  <2>12. NoCloseLost'
    <3> SUFFICES ASSUME NEW c \in owed'
                 PROVE  \E e \in ToSet(queue') \cup ToSet(batch') :
                            e.life = c[1] /\ e.object = c[2] /\ c[3] \in e.mask
      BY DEF NoCloseLost, ToSet
    <3>1. PICK e \in ToSet(queue) \cup ToSet(batch) :
              e.life = c[1] /\ e.object = c[2] /\ c[3] \in e.mask
      BY <1>1, <2>8 DEF NoCloseLost
    <3>2. ToSet(batch) = {} BY <2>1 DEF ToSet
    <3>3. PICK n \in 1..Len(queue) : e = queue[n] BY <2>2, <3>1, <3>2 DEF ToSet
    <3>4. batch'[n] \in ToSet(batch') BY <2>5 DEF ToSet
    <3> QED BY <2>4, <3>1, <3>3, <3>4
  <2> QED BY <1>1, <1>5, <2>9, <2>10, <2>11, <2>12, BasePrimed DEF ReadEvents
<1>6. ASSUME RecordExec PROVE BaseInv'
  <2>1. batch # <<>> BY <1>1, <1>6 DEF RecordExec, AuditorOK
  <2>2. UNCHANGED <<worldVars, identities, owed>> /\ queue' = queue
    BY <1>6 DEF RecordExec, worldVars
  <2>3. processes' \in ProcessCacheOf(AnyIdentity)
    <3>1. "exec" \in event.mask => ExecIdentity \in AnyIdentity[event.life]
      BY <1>2, <2>1, EventIs, ExecIdentityIs
    <3> QED BY <1>1, <1>6, <3>1, RecordExecStep
  <2>4. WorldOK' /\ EventsOK' /\ AuditorOK' /\ NoCloseLost'
    <3>1. CASE ("exec" \in event.mask /\ closesOf = {}) \/ event.object \notin Watched
      <4>1. EventDone /\ batch' = Tail(batch) BY <1>6, <3>1 DEF RecordExec, EventDone
      <4>2. \A c \in owed :
                ~(event.life = c[1] /\ event.object = c[2] /\ c[3] \in event.mask)
        BY <1>1, <3>1 DEF AuditorOK, closesOf
      <4>3. NoCloseLost' BY <2>1, <2>2, <4>1, <4>2, DoneCovered
      <4> QED BY <1>3, <2>1, <2>2, <4>1, <4>3
    <3>2. CASE ~(("exec" \in event.mask /\ closesOf = {}) \/ event.object \notin Watched)
      <4>1. pc' = "open" /\ batch' = batch BY <1>6, <3>2 DEF RecordExec
      <4> QED BY <1>4, <2>1, <2>2, <4>1
    <3> QED BY <3>1, <3>2
  <2> QED BY <1>1, <2>2, <2>3, <2>4, BasePrimed
<1>7. ASSUME RecordOpen PROVE BaseInv'
  <2>1. batch # <<>> BY <1>7, LooksUp
  <2>2. UNCHANGED <<worldVars, owed>> /\ queue' = queue BY <1>7 DEF RecordOpen, worldVars
  <2>3. processes' \in ProcessCacheOf(AnyIdentity) BY <1>1, <1>7, LookupStep
  <2>4. identities' \in IdFacts!CacheOf(AllowAny)
    <3>1. Key \in IdentityKey /\ pidOf \in Pids BY <2>1, EventIs
    <3>2. Inspectable(pidOf) # {} => Inspected(pidOf) \in AllowAny[Key]
      BY <1>2, <3>1, InspectedIs
    <3>3. AnyIdentity[event.life] \cap Identity \subseteq AllowAny[Key] BY <1>2, <3>1
    <3> QED BY <1>1, <1>2, <1>7, <3>2, <3>3, RecordOpenStep
  <2>5. WorldOK' /\ EventsOK' /\ AuditorOK' /\ NoCloseLost'
    <3>1. CASE closesOf = {}
      <4>1. EventDone /\ batch' = Tail(batch) BY <1>7, <3>1 DEF RecordOpen, EventDone
      <4>2. \A c \in owed :
                ~(event.life = c[1] /\ event.object = c[2] /\ c[3] \in event.mask)
        BY <1>1, <3>1 DEF AuditorOK, closesOf
      <4>3. NoCloseLost' BY <2>1, <2>2, <4>1, <4>2, DoneCovered
      <4> QED BY <1>3, <2>1, <2>2, <4>1, <4>3
    <3>2. CASE closesOf # {}
      <4>1. pc' = "judge" /\ batch' = batch BY <1>7, <3>2 DEF RecordOpen
      <4> QED BY <1>4, <2>1, <2>2, <4>1
    <3> QED BY <3>1, <3>2
  <2> QED BY <2>3, <2>4, <2>5, BasePrimed
<1>8. ASSUME Judge PROVE BaseInv'
  <2>1. batch # <<>> BY <1>8, LooksUp
  <2>2. UNCHANGED worldVars /\ queue' = queue /\ EventDone /\ batch' = Tail(batch)
    BY <1>8 DEF Judge, EventDone, worldVars
  <2>3. processes' \in ProcessCacheOf(AnyIdentity) BY <1>1, <1>8, LookupStep
  <2>4. identities' \in IdFacts!CacheOf(AllowAny) BY <1>1, <1>2, <1>8, JudgeStep
  <2>5. owed' = owed \ {<<event.life, event.object, k>> : k \in AccessKinds}
    BY <1>8 DEF Judge
  <2>6. \A c \in owed' :
            ~(event.life = c[1] /\ event.object = c[2] /\ c[3] \in event.mask)
    BY <1>1, <2>5 DEF AuditorOK, AccessKinds, closesOf
  <2>7. owed' \subseteq owed BY <2>5
  <2>8. NoCloseLost' BY <2>1, <2>2, <2>6, <2>7, DoneCovered
  <2> QED BY <1>3, <2>1, <2>2, <2>3, <2>4, <2>7, <2>8, BasePrimed
<1> QED BY <1>5, <1>6, <1>7, <1>8 DEF Auditor

LEMMA FailsBase ==
    ASSUME BaseInv, Fails
    PROVE  BaseInv'
<1>1. WorldOK' BY DEF Fails, BaseInv, WorldOK
<1>2. /\ queue' = <<>> /\ batch' = <<>> /\ owed' = {} /\ pc' = "exited"
  BY DEF Fails
<1>3. Len(<<>>) = 0 /\ 1..0 = {} /\ \A S : <<>> \in Seq(S) OBVIOUS
<1>4. EventsOK' /\ AuditorOK' /\ NoCloseLost'
  <2>1. EventsOK' BY <1>2, <1>3 DEF EventsOK, ExecsAsked, OfItsLife
  <2>2. AuditorOK' BY <1>2 DEF AuditorOK
  <2>3. NoCloseLost' BY <1>2 DEF NoCloseLost
  <2> QED BY <2>1, <2>2, <2>3
<1>5. AllowAny \in [IdentityKey -> SUBSET Identity] BY DEF AllowAny
<1>6. identities' \in IdFacts!CacheOf(AllowAny) BY <1>5, IdentitiesKeep DEF Fails
<1>7. processes' \in ProcessCacheOf(AnyIdentity) BY EmptyProcesses DEF Fails
<1> QED BY <1>1, <1>4, <1>6, <1>7, BasePrimed

LEMMA StutterBase ==
    ASSUME BaseInv, UNCHANGED vars
    PROVE  BaseInv'
<1>1. WorldOK' BY DEF BaseInv, WorldOK, vars, worldVars
<1>2. EventsOK' BY DEF BaseInv, EventsOK, ExecsAsked, OfItsLife, vars, worldVars, auditVars
<1>3. AuditorOK' BY DEF BaseInv, AuditorOK, vars, auditVars
<1>4. NoCloseLost' BY DEF BaseInv, NoCloseLost, ToSet, vars, worldVars, auditVars
<1>5. identities' \in IdFacts!CacheOf(AllowAny) /\ processes' \in ProcessCacheOf(AnyIdentity)
  BY DEF BaseInv, vars, auditVars
<1> QED BY <1>1, <1>2, <1>3, <1>4, <1>5, BasePrimed

LEMMA Based == Spec => []BaseInv
<1>1. BaseInv /\ [Next]_vars => BaseInv'
  BY WorldBase, AuditorBase, FailsBase, StutterBase DEF Next
<1> QED BY <1>1, BaseInit, PTL DEF Spec

(* No close of a watched object is overlooked, whatever events the kernel   *)
(* merges: it is unread, read and not yet judged, or judged.                *)
THEOREM ClosesKept == Spec => []NoCloseLost
<1>1. BaseInv => NoCloseLost BY DEF BaseInv
<1> QED BY <1>1, Based, PTL

(* The process cache's order and map agree, and stay within the capacity,   *)
(* under lookups that expire, replacements, evictions and the loader's      *)
(* execs.                                                                   *)
THEOREM ProcessCacheConsistent == Spec => []ProcessesAgree
<1>1. BaseInv => ProcessesAgree BY ProcessAgree DEF BaseInv, ProcessesAgree
<1> QED BY <1>1, Based, PTL

-----------------------------------------------------------------------------
(* Charged to whom: from here on no two lives have one pid.                 *)
OwnPids == \A l, m \in Lives : PidOf[l] = PidOf[m] => l = m

(* What an identity of a process may say, by what the process has asked for. *)
Rightful(l, asks) == {i \in Identity : i.exe \in asks[l]}
RightfulOf(asks) == [l \in Lives |-> Rightful(l, asks)]
RightfulFor(asks) ==
    [k \in IdentityKey |->
        {i \in Identity : \A l \in Lives : PidOf[l] = k[1] => i \in Rightful(l, asks)}]

RunsWhatItAsked ==
    \A l \in Lives : image[l] \in asked[l] /\ (execing[l] # None => execing[l] \in asked[l])

ChargeInv ==
    /\ RunsWhatItAsked
    /\ identities \in IdFacts!CacheOf(RightfulFor(asked))
    /\ processes \in ProcessCacheOf(RightfulOf(asked))
    /\ charge.exe # None => charge.life \in Lives
    /\ ChargedToOwnProgram

LEMMA ChargePrimed ==
    ASSUME RunsWhatItAsked', identities' \in IdFacts!CacheOf(RightfulFor(asked')),
           processes' \in ProcessCacheOf(RightfulOf(asked')),
           (charge.exe # None => charge.life \in Lives)', ChargedToOwnProgram'
    PROVE  ChargeInv'
<1>1. (identities \in IdFacts!CacheOf(RightfulFor(asked)))'
  BY DEF IdFacts!CacheOf, RightfulFor, Rightful, IdFacts!OneGeneration, IdFacts!Count,
         IdFacts!Quantify, IdFacts!ToSet, IdentityKey, Identity, Objects
<1>2. (processes \in ProcessCacheOf(RightfulOf(asked)))'
  BY DEF ProcessCacheOf, RightfulOf, Rightful, Identity
<1> QED BY <1>1, <1>2 DEF ChargeInv

(* The more a process has asked for, the more is rightful.                  *)
LEMMA RightfulGrows ==
    ASSUME ChargeInv, NEW asks, \A l \in Lives : asked[l] \subseteq asks[l]
    PROVE  /\ identities \in IdFacts!CacheOf(RightfulFor(asks))
           /\ processes \in ProcessCacheOf(RightfulOf(asks))
<1>1. \A l \in Lives : RightfulOf(asked)[l] \subseteq RightfulOf(asks)[l]
  BY DEF RightfulOf, Rightful
<1>2. \A k \in IdentityKey : RightfulFor(asked)[k] \subseteq RightfulFor(asks)[k]
  BY DEF RightfulFor, Rightful
<1> QED BY <1>1, <1>2, IdentitiesMay, ProcessesMay DEF ChargeInv

(* With pids of their own, /proc and exec events tell of the process itself. *)
LEMMA TellsOfItself ==
    ASSUME OwnPids, BaseInv, ChargeInv, batch # <<>>
    PROVE  /\ RightfulFor(asked) \in [IdentityKey -> SUBSET Identity]
           /\ event.life \in Lives /\ Key \in IdentityKey
           /\ RightfulFor(asked)[Key] = Rightful(event.life, asked)
           /\ RightfulOf(asked)[event.life] = Rightful(event.life, asked)
           /\ Inspectable(pidOf) # {} => Inspected(pidOf) \in Rightful(event.life, asked)
           /\ "exec" \in event.mask => ExecIdentity \in Rightful(event.life, asked)
<1>1. RightfulFor(asked) \in [IdentityKey -> SUBSET Identity] BY DEF RightfulFor
<1>2. /\ event.life \in Lives /\ Key \in IdentityKey /\ Key[1] = pidOf
      /\ pidOf \in Pids /\ pidOf = PidOf[event.life]
      /\ "exec" \in event.mask => event.object \in asked[event.life]
  BY EventIs
<1>3. RightfulFor(asked)[Key] = Rightful(event.life, asked)
  <2>1. \A l \in Lives : PidOf[l] = Key[1] <=> l = event.life BY <1>2 DEF OwnPids
  <2>2. Rightful(event.life, asked) \subseteq Identity BY DEF Rightful
  <2> QED BY <1>2, <2>1, <2>2 DEF RightfulFor
<1>4. RightfulOf(asked)[event.life] = Rightful(event.life, asked) BY <1>2 DEF RightfulOf
<1>5. ASSUME Inspectable(pidOf) # {} PROVE Inspected(pidOf) \in Rightful(event.life, asked)
  <2>1. PICK l \in Lives : /\ PidOf[l] = pidOf /\ Inspected(pidOf) \in Identity
                           /\ Inspected(pidOf).exe = image[l]
    BY <1>2, <1>5, InspectedIs
  <2>2. l = event.life BY <1>2, <2>1 DEF OwnPids
  <2>3. image[l] \in asked[l] BY DEF ChargeInv, RunsWhatItAsked
  <2> QED BY <2>1, <2>2, <2>3 DEF Rightful
<1>6. ASSUME "exec" \in event.mask PROVE ExecIdentity \in Rightful(event.life, asked)
  <2>1. ExecIdentity \in Identity BY <1>6, ExecIdentityIs
  <2>2. CASE Inspectable(pidOf) # {} BY <1>5, <2>2 DEF ExecIdentity
  <2>3. CASE Inspectable(pidOf) = {}
    <3>1. ExecIdentity.exe = event.object BY <2>3 DEF ExecIdentity
    <3> QED BY <1>2, <1>6, <2>1, <3>1 DEF Rightful
  <2> QED BY <2>2, <2>3
<1> QED BY <1>1, <1>2, <1>3, <1>4, <1>5, <1>6

LEMMA ChargeInit == Init => ChargeInv
<1> SUFFICES ASSUME Init PROVE ChargeInv OBVIOUS
<1>1. RunsWhatItAsked BY DEF Init, RunsWhatItAsked
<1>2. RightfulFor(asked) \in [IdentityKey -> SUBSET Identity] BY DEF RightfulFor
<1>3. identities \in IdFacts!CacheOf(RightfulFor(asked)) BY <1>2, IdentitiesKeep DEF Init
<1>4. processes \in ProcessCacheOf(RightfulOf(asked)) BY EmptyProcesses DEF Init
<1>5. charge.exe = None BY DEF Init
<1> QED BY <1>1, <1>3, <1>4, <1>5 DEF ChargeInv, ChargedToOwnProgram

LEMMA ChargeWorld ==
    ASSUME BaseInv, ChargeInv, World
    PROVE  ChargeInv'
<1>1. /\ image \in [Lives -> Programs \ {Loader}] /\ execing \in [Lives -> Commands \cup {None}]
      /\ asked \in [Lives -> SUBSET Programs]
      /\ RunsWhatItAsked /\ None \notin Programs /\ Commands \subseteq Programs
  BY AuditAssumption DEF BaseInv, WorldOK, ChargeInv
<1>2. ASSUME RunsWhatItAsked', \A l \in Lives : asked[l] \subseteq asked'[l],
             UNCHANGED auditVars
      PROVE  ChargeInv'
  <2>1. /\ identities' \in IdFacts!CacheOf(RightfulFor(asked'))
        /\ processes' \in ProcessCacheOf(RightfulOf(asked'))
    BY <1>2, RightfulGrows DEF auditVars
  <2>2. charge' = charge /\ (charge.exe # None => charge.life \in Lives)
        /\ (charge.exe # None => charge.exe \in asked[charge.life])
    BY <1>2 DEF auditVars, ChargeInv, ChargedToOwnProgram
  <2>3. ChargedToOwnProgram' BY <1>2, <2>2 DEF ChargedToOwnProgram
  <2> QED BY <1>2, <2>1, <2>2, <2>3, ChargePrimed
<1>3. ASSUME UNCHANGED <<image, execing, asked, auditVars>> PROVE ChargeInv'
  BY <1>1, <1>2, <1>3 DEF RunsWhatItAsked, auditVars
<1>4. ASSUME NEW l \in Lives, ExecEnds(l) PROVE ChargeInv'
  <2>1. RunsWhatItAsked' BY <1>1, <1>4 DEF ExecEnds, RunsWhatItAsked
  <2> QED BY <1>2, <1>4, <2>1 DEF ExecEnds
<1>5. ASSUME NEW l \in Lives, NEW p \in Commands, ExecOpens(l, p) PROVE ChargeInv'
  <2>1. \A m \in Lives : asked[m] \subseteq asked'[m] BY <1>1, <1>5 DEF ExecOpens
  <2>2. p \in asked'[l] BY <1>1, <1>5 DEF ExecOpens
  <2>3. RunsWhatItAsked' BY <1>1, <1>5, <2>1, <2>2 DEF ExecOpens, RunsWhatItAsked
  <2> QED BY <1>2, <1>5, <2>1, <2>3 DEF ExecOpens
<1>6. ASSUME NEW l \in Lives, Start(l) \/ Exits(l) PROVE ChargeInv'
  BY <1>3, <1>6 DEF Start, Exits
<1>7. ASSUME NEW l \in Lives, NEW f \in Files, Open(l, f) PROVE ChargeInv'
  BY <1>3, <1>7 DEF Open
<1>8. ASSUME NEW l \in Lives, NEW o \in Objects, NEW kind \in CloseKinds, Close(l, o, kind)
      PROVE  ChargeInv'
  BY <1>3, <1>8 DEF Close
<1>9. ASSUME Tick PROVE ChargeInv' BY <1>3, <1>9 DEF Tick
<1> QED BY <1>4, <1>5, <1>6, <1>7, <1>8, <1>9 DEF World

LEMMA ChargeStep ==
    ASSUME OwnPids, BaseInv, ChargeInv, [Next]_vars
    PROVE  ChargeInv'
<1>1. /\ RunsWhatItAsked /\ identities \in IdFacts!CacheOf(RightfulFor(asked))
      /\ processes \in ProcessCacheOf(RightfulOf(asked))
      /\ charge.exe # None => charge.life \in Lives /\ charge.exe \in asked[charge.life]
  BY DEF ChargeInv, ChargedToOwnProgram
<1>2. ASSUME UNCHANGED <<image, execing, asked>>,
             identities' \in IdFacts!CacheOf(RightfulFor(asked)),
             processes' \in ProcessCacheOf(RightfulOf(asked)),
             charge'.exe # None => charge'.life \in Lives /\ charge'.exe \in asked[charge'.life]
      PROVE  ChargeInv'
  <2>1. RunsWhatItAsked' BY <1>1, <1>2 DEF RunsWhatItAsked
  <2>2. ChargedToOwnProgram' BY <1>2 DEF ChargedToOwnProgram
  <2> QED BY <1>2, <2>1, <2>2, ChargePrimed
<1>3. ASSUME ReadEvents \/ UNCHANGED vars PROVE ChargeInv'
  BY <1>1, <1>2, <1>3 DEF ReadEvents, vars, worldVars, auditVars
<1>4. ASSUME RecordExec PROVE ChargeInv'
  <2>1. batch # <<>> BY <1>4 DEF RecordExec, BaseInv, AuditorOK
  <2>2. "exec" \in event.mask => ExecIdentity \in RightfulOf(asked)[event.life]
    BY <2>1, TellsOfItself
  <2>3. processes' \in ProcessCacheOf(RightfulOf(asked)) BY <1>1, <1>4, <2>2, RecordExecStep
  <2> QED BY <1>1, <1>2, <1>4, <2>3 DEF RecordExec, worldVars
<1>5. ASSUME RecordOpen PROVE ChargeInv'
  <2>1. batch # <<>> BY <1>5, LooksUp
  <2>2. processes' \in ProcessCacheOf(RightfulOf(asked)) BY <1>1, <1>5, LookupStep
  <2>3. identities' \in IdFacts!CacheOf(RightfulFor(asked))
    BY <1>1, <1>5, <2>1, TellsOfItself, RecordOpenStep
  <2> QED BY <1>1, <1>2, <1>5, <2>2, <2>3 DEF RecordOpen, worldVars
<1>6. ASSUME Judge PROVE ChargeInv'
  <2>1. batch # <<>> BY <1>6, LooksUp
  <2>2. processes' \in ProcessCacheOf(RightfulOf(asked)) BY <1>1, <1>6, LookupStep
  <2>3. identities' \in IdFacts!CacheOf(RightfulFor(asked))
    BY <1>1, <1>6, <2>1, TellsOfItself, JudgeStep
  <2>4. charge'.life = event.life /\ event.life \in Lives
        /\ (charge'.exe # None => charge'.exe \in asked[event.life])
    <3> DEFINE found == Ids!Found(identities, Key)
               consult == found = Nobody /\ event.generation # None
               known == IF found # Nobody THEN found
                        ELSE IF consult THEN Procs!Lookup(processes, event.generation, now)
                        ELSE Nobody
    <3>1. event.life \in Lives /\ Key \in IdentityKey
          /\ (event.generation # None => event.generation = event.life)
      BY <2>1, EventIs
    <3>2. charge' = [life |-> event.life, exe |->
              IF known # Nobody THEN known.exe
              ELSE IF Inspectable(pidOf) # {} THEN Inspected(pidOf).exe ELSE None]
      BY <1>6 DEF Judge
    <3>3. found \in Rightful(event.life, asked) \cup {Nobody}
      BY <1>1, <2>1, <3>1, TellsOfItself, IdentitiesKeep
    <3>4. known \in Rightful(event.life, asked) \cup {Nobody}
      <4>1. Procs!Lookup(processes, event.life, now) \in
                RightfulOf(asked)[event.life] \cup {Nobody}
        BY <1>1, <3>1, LookupKeeps
      <4>2. RightfulOf(asked)[event.life] = Rightful(event.life, asked)
        BY <2>1, TellsOfItself
      <4> QED BY <3>1, <3>3, <4>1, <4>2
    <3> HIDE DEF known
    <3>5. known # Nobody => known.exe \in asked[event.life] BY <3>4 DEF Rightful
    <3>6. Inspectable(pidOf) # {} => Inspected(pidOf).exe \in asked[event.life]
      BY <2>1, TellsOfItself DEF Rightful
    <3> QED BY <3>1, <3>2, <3>5, <3>6
  <2> QED BY <1>2, <1>6, <2>2, <2>3, <2>4 DEF Judge, worldVars
<1>7. ASSUME Fails PROVE ChargeInv'
  <2>1. RightfulFor(asked) \in [IdentityKey -> SUBSET Identity] BY DEF RightfulFor
  <2>2. identities' \in IdFacts!CacheOf(RightfulFor(asked))
    BY <1>7, <2>1, IdentitiesKeep DEF Fails
  <2>3. processes' \in ProcessCacheOf(RightfulOf(asked)) BY <1>7, EmptyProcesses DEF Fails
  <2> QED BY <1>1, <1>2, <1>7, <2>2, <2>3 DEF Fails
<1> QED BY <1>3, <1>4, <1>5, <1>6, <1>7, ChargeWorld DEF Next, Auditor

(* As long as no pid is used twice, an access is charged to a program its   *)
(* own process has set out to execute, or to nobody, whatever is merged,    *)
(* evicted, expired or left over (audit.rs, attributed_identity).           *)
THEOREM OwnProgramCharged == OwnPids => (Spec => []ChargedToOwnProgram)
<1> SUFFICES ASSUME OwnPids PROVE Spec => []ChargedToOwnProgram OBVIOUS
<1>1. BaseInv /\ ChargeInv /\ [Next]_vars => ChargeInv' BY ChargeStep
<1>2. ChargeInv => ChargedToOwnProgram BY DEF ChargeInv
<1> QED BY <1>1, <1>2, ChargeInit, Based, PTL DEF Spec

-----------------------------------------------------------------------------
(* And never to the loader, unless what was known of the process is gone.   *)
(* The loader is only ever executed: nothing opens it as a file.            *)
Known(l, gone) == {i \in Identity : i.exe = Loader => l \in gone}
KnownOf(gone) == [l \in Lives |-> Known(l, gone)]
KnownFor(gone) ==
    [k \in IdentityKey |->
        {i \in Identity : \A l \in Lives : PidOf[l] = k[1] => i \in Known(l, gone)}]

(* An exec of a program: that of its loader comes after it.                 *)
ProgramExec(e, l) == e.life = l /\ e.object # Loader /\ "exec" \in e.mask

LoadersFollow(q) ==
    \A n \in 1..Len(q) : q[n].object = Loader =>
        \E m \in 1..(n - 1) : ProgramExec(q[m], q[n].life)

(* The program of a process is recorded, or what was is forgotten.          *)
Recorded(l, c, gone) ==
    \/ l \in gone
    \/ ProcessCapacity = 0
    \/ l \in Procs!Cached(c) /\ c.entries[l].identity.exe # Loader

(* From here on in a batch, the program is recorded before its loader.      *)
BatchFollows(b, from, c, gone) ==
    \A n \in from..Len(b) : b[n].object = Loader /\ b[n].generation # None =>
        \/ Recorded(b[n].life, c, gone)
        \/ \E m \in from..(n - 1) : /\ ProgramExec(b[m], b[n].life)
                                    /\ b[m].generation = b[n].generation

LoaderInv ==
    /\ opened \in [Objects -> Nat] /\ opened[Loader] = 0
    /\ LoadersFollow(queue)
    /\ BatchFollows(batch, IF pc = "exec" THEN 1 ELSE 2, processes, forgotten)
    /\ identities \in IdFacts!CacheOf(KnownFor(forgotten))
    /\ processes \in ProcessCacheOf(KnownOf(forgotten))
    /\ LoaderNotCharged

LEMMA LoaderPrimed ==
    ASSUME opened' \in [Objects -> Nat], opened'[Loader] = 0, LoadersFollow(queue'),
           BatchFollows(batch', IF pc' = "exec" THEN 1 ELSE 2, processes', forgotten'),
           identities' \in IdFacts!CacheOf(KnownFor(forgotten')),
           processes' \in ProcessCacheOf(KnownOf(forgotten')),
           LoaderNotCharged'
    PROVE  LoaderInv'
<1>1. (identities \in IdFacts!CacheOf(KnownFor(forgotten)))'
  BY DEF IdFacts!CacheOf, KnownFor, Known, IdFacts!OneGeneration, IdFacts!Count,
         IdFacts!Quantify, IdFacts!ToSet, IdentityKey, Identity, Objects
<1>2. (processes \in ProcessCacheOf(KnownOf(forgotten)))'
  BY DEF ProcessCacheOf, KnownOf, Known, Identity
<1>3. BatchFollows(batch, IF pc = "exec" THEN 1 ELSE 2, processes, forgotten)'
  BY DEF BatchFollows, Recorded, ProgramExec, Procs!Cached, Procs!Absent
<1>4. LoadersFollow(queue)' BY DEF LoadersFollow, ProgramExec
<1>5. (opened \in [Objects -> Nat] /\ opened[Loader] = 0)' BY DEF Objects
<1> QED BY <1>1, <1>2, <1>3, <1>4, <1>5 DEF LoaderInv

(* The more is forgotten, the more may be said.                             *)
LEMMA KnownGrows ==
    ASSUME NEW gone, NEW more, gone \subseteq more
    PROVE  /\ \A c \in IdFacts!CacheOf(KnownFor(gone)) : c \in IdFacts!CacheOf(KnownFor(more))
           /\ \A c \in ProcessCacheOf(KnownOf(gone)) : c \in ProcessCacheOf(KnownOf(more))
<1>1. \A l \in Lives : KnownOf(gone)[l] \subseteq KnownOf(more)[l]
  BY DEF KnownOf, Known
<1>2. \A k \in IdentityKey : KnownFor(gone)[k] \subseteq KnownFor(more)[k]
  BY DEF KnownFor, Known
<1> QED BY <1>1, <1>2, IdentitiesMay, ProcessesMay

(* Programs stay before their loaders in the kernel's queue.                *)
LEMMA QueuedFollows ==
    ASSUME NEW q \in Seq(QueueEvent), NEW l \in Lives, NEW o \in Objects,
           NEW mask \in SUBSET Masks, NEW r, r = Queued(q, l, o, mask), LoadersFollow(q),
           o = Loader => \E m \in 1..Len(q) : ProgramExec(q[m], l)
    PROVE  LoadersFollow(r)
<1>0. QueuedFrom(q, r, l, o, mask) BY ONLY QueuedIs, r = Queued(q, l, o, mask)
<1>1. /\ r \in Seq(QueueEvent) /\ Len(r) \in {Len(q), Len(q) + 1}
      /\ \A n \in 1..Len(q) :
             /\ r[n].life = q[n].life /\ r[n].object = q[n].object
             /\ q[n].mask \subseteq r[n].mask
      /\ Len(r) = Len(q) + 1 =>
             r[Len(r)] = [life |-> l, object |-> o, mask |-> mask]
  BY ONLY <1>0 DEF QueuedFrom
<1>2. Len(q) \in Nat /\ Len(r) \in Nat BY <1>1, LenProperties
<1>3. \A n \in 1..Len(q) : \A k : ProgramExec(q[n], k) => ProgramExec(r[n], k)
  BY <1>1 DEF ProgramExec
<1> SUFFICES ASSUME NEW n \in 1..Len(r), r[n].object = Loader
             PROVE  \E m \in 1..(n - 1) : ProgramExec(r[m], r[n].life)
  BY DEF LoadersFollow
<1>4. CASE n \in 1..Len(q)
  <2>1. PICK m \in 1..(n - 1) : ProgramExec(q[m], q[n].life)
    BY <1>1, <1>4 DEF LoadersFollow
  <2>2. m \in 1..Len(q) BY <1>2, <1>4, <2>1
  <2> QED BY <1>1, <1>3, <1>4, <2>1, <2>2
<1>5. CASE n \notin 1..Len(q)
  <2>1. n = Len(r) /\ Len(r) = Len(q) + 1 /\ n - 1 = Len(q) BY <1>1, <1>2, <1>5
  <2>2. r[n].life = l /\ o = Loader BY <1>1, <2>1
  <2>3. PICK m \in 1..Len(q) : ProgramExec(q[m], l) BY <2>2
  <2> QED BY <1>3, <2>1, <2>2, <2>3
<1> QED BY <1>4, <1>5

LEMMA QueuedHas ==
    ASSUME NEW q \in Seq(QueueEvent), NEW l \in Lives, NEW o \in Objects,
           NEW mask \in SUBSET Masks, NEW r, r = Queued(q, l, o, mask),
           o # Loader, "exec" \in mask
    PROVE  r \in Seq(QueueEvent) /\ \E m \in 1..Len(r) : ProgramExec(r[m], l)
<1>0. QueuedFrom(q, r, l, o, mask) BY ONLY QueuedIs, r = Queued(q, l, o, mask)
<1>1. /\ r \in Seq(QueueEvent)
      /\ \E n \in 1..Len(r) : r[n].life = l /\ r[n].object = o /\ mask \subseteq r[n].mask
  BY ONLY <1>0 DEF QueuedFrom
<1> QED BY <1>1 DEF ProgramExec

(* What is recorded stays so until it is forgotten.                         *)
LEMMA RecordedStays ==
    ASSUME BaseInv, RecordExec \/ RecordOpen \/ Judge,
           NEW l \in Lives, Recorded(l, processes, forgotten)
    PROVE  Recorded(l, processes', forgotten')
<1>1. /\ processes \in ProcessCacheOf(AnyIdentity) /\ now \in Nat
      /\ forgotten' = forgotten \cup (Procs!Cached(processes) \ Procs!Cached(processes'))
                                \cup {m \in Lives : Procs!Expired(processes, m, now)}
  BY DEF BaseInv, WorldOK, RecordExec, RecordOpen, Judge, Forget
<1>2. CASE l \in forgotten \/ ProcessCapacity = 0 BY <1>1, <1>2 DEF Recorded
<1>3. CASE /\ l \in Procs!Cached(processes) /\ processes.entries[l].identity.exe # Loader
           /\ ProcessCapacity # 0 /\ l \notin forgotten'
  <2>1. l \in Procs!Cached(processes') /\ ~Procs!Expired(processes, l, now) BY <1>1, <1>3
  <2>2. CASE RecordOpen \/ Judge
    <3>1. processes' \in {processes, Procs!AfterLookup(processes, event.life, now)}
          /\ event.life \in Lives
      BY <2>2, LooksUp, EventIs
    <3>2. processes'.entries[l] = processes.entries[l]
      BY <1>1, <2>1, <3>1, LookupKeeps
    <3> QED BY <1>3, <2>1, <3>2 DEF Recorded
  <2>3. CASE RecordExec
    <3>1. batch # <<>> BY <2>3 DEF RecordExec, BaseInv, AuditorOK
    <3>2. CASE "exec" \in event.mask /\ event.generation # None
      <4>1. processes' = Procs!InsertExec(processes, event.generation, ExecIdentity, now)
        BY <2>3, <3>2 DEF RecordExec, ExecIdentity
      <4>2. /\ event.generation \in Lives /\ ExecIdentity \in Identity
            /\ ExecIdentity \in AnyIdentity[event.generation]
        BY <3>1, <3>2, EventIs, ExecIdentityIs DEF AnyIdentity
      <4> DEFINE g == event.generation
                 i == ExecIdentity
      <4> HIDE DEF g, i
      <4>3. g \in Lives /\ i \in Identity /\ i \in AnyIdentity[g]
            /\ processes' = Procs!InsertExec(processes, g, i, now)
        BY <4>1, <4>2 DEF g, i
      <4>4. /\ \A m \in Procs!Cached(processes') : m # g =>
                   processes'.entries[m] = processes.entries[m]
            /\ i.exe # Loader => processes'.entries[g].identity = i
            /\ /\ i.exe = Loader /\ ~Procs!Expired(processes, g, now)
               /\ g \in Procs!Cached(processes) /\ processes.entries[g].identity.exe # Loader
               => processes' = processes
        BY <1>1, <1>3, <4>3, InsertExecKeeps
      <4>5. processes'.entries[l].identity.exe # Loader
        <5>1. CASE l # g BY <1>3, <2>1, <4>4, <5>1
        <5>2. CASE l = g /\ i.exe # Loader BY <4>4, <5>2
        <5>3. CASE l = g /\ i.exe = Loader BY <1>3, <2>1, <4>4, <5>3
        <5> QED BY <5>1, <5>2, <5>3
      <4> QED BY <2>1, <4>5 DEF Recorded
    <3>3. CASE ~("exec" \in event.mask /\ event.generation # None)
      <4>1. processes' = processes BY <2>3, <3>3 DEF RecordExec
      <4> QED BY <1>3, <4>1 DEF Recorded
    <3> QED BY <3>2, <3>3
  <2> QED BY <2>2, <2>3
<1>4. CASE l \in forgotten' BY <1>4 DEF Recorded
<1> QED BY <1>2, <1>3, <1>4 DEF Recorded

(* A cache without room has nothing in it.                                  *)
LEMMA NoRoom ==
    ASSUME ProcessCapacity = 0, NEW may, NEW other, NEW c \in ProcessCacheOf(may)
    PROVE  c \in ProcessCacheOf(other)
<1>1. Len(c.insertionOrder) = 0 BY ProcessFields
<1>2. c.insertionOrder = <<>> BY <1>1, ProcessFields, EmptySeq
<1>3. Procs!Cached(c) = {} BY <1>2, ProcessFields DEF ToSet
<1> QED BY <1>3 DEF ProcessCacheOf

(* An exec is recorded as the loader's only if the program was forgotten.   *)
LEMMA RecordExecKnown ==
    ASSUME BaseInv, BaseInv', LoaderInv, RecordExec
    PROVE  processes' \in ProcessCacheOf(KnownOf(forgotten'))
<1>1. /\ batch # <<>> /\ processes \in ProcessCacheOf(KnownOf(forgotten))
      /\ batch \in Seq(BatchEvent) /\ processes' \in ProcessCacheOf(AnyIdentity)
      /\ BatchFollows(batch, 1, processes, forgotten) /\ now \in Nat
  BY DEF RecordExec, BaseInv, WorldOK, EventsOK, AuditorOK, LoaderInv
<1>2. /\ forgotten \subseteq forgotten'
      /\ \A m \in Lives : Procs!Expired(processes, m, now) => m \in forgotten'
  BY DEF RecordExec, Forget
<1>3. processes \in ProcessCacheOf(KnownOf(forgotten')) BY <1>1, <1>2, KnownGrows
<1>4. CASE "exec" \in event.mask /\ event.generation # None
  <2>1. /\ event.life \in Lives /\ event.generation = event.life
        /\ ExecIdentity \in Identity /\ pidOf \in Pids
    BY <1>1, <1>4, EventIs, ExecIdentityIs
  <2>2. CASE ExecIdentity.exe # Loader \/ event.life \in forgotten'
    <3>1. ExecIdentity \in KnownOf(forgotten')[event.life] BY <2>1, <2>2 DEF KnownOf, Known
    <3> QED BY <1>3, <3>1, RecordExecStep
  <2>3. CASE ExecIdentity.exe = Loader /\ event.life \notin forgotten'
    <3>1. event.object = Loader
      <4>1. Inspectable(pidOf) # {} => ExecIdentity.exe # Loader
        BY <2>1, InspectedIs DEF ExecIdentity
      <4> QED BY <2>3, <4>1 DEF ExecIdentity
    <3>2. event = batch[1] /\ 1 \in 1..Len(batch) BY <1>1, TailOfBatch DEF event
    <3>3. Recorded(event.life, processes, forgotten)
      <4>1. 1..(1 - 1) = {} OBVIOUS
      <4> QED BY <1>1, <1>4, <3>1, <3>2, <4>1 DEF BatchFollows
    <3>4. CASE ProcessCapacity = 0 BY <1>1, <3>4, NoRoom
    <3>5. CASE ProcessCapacity # 0
      <4>1. /\ event.life \in Procs!Cached(processes)
            /\ processes.entries[event.life].identity.exe # Loader
        BY <1>2, <2>3, <3>3, <3>5 DEF Recorded
      <4>2. ~Procs!Expired(processes, event.life, now) BY <1>2, <2>1, <2>3
      <4>3. processes' = Procs!InsertExec(processes, event.life, ExecIdentity, now)
        BY <1>4, <2>1 DEF RecordExec, ExecIdentity
      <4>4. processes \in ProcessCacheOf(AnyIdentity) /\ ExecIdentity \in AnyIdentity[event.life]
        BY <2>1 DEF BaseInv, AnyIdentity
      <4> DEFINE l == event.life
                 i == ExecIdentity
      <4> HIDE DEF l, i
      <4>5. l \in Lives /\ i \in AnyIdentity[l] /\ i \in Identity /\ i.exe = Loader
            /\ l \in Procs!Cached(processes) /\ processes.entries[l].identity.exe # Loader
            /\ ~Procs!Expired(processes, l, now)
            /\ processes' = Procs!InsertExec(processes, l, i, now)
        BY <2>1, <2>3, <4>1, <4>2, <4>3, <4>4 DEF l, i
      <4>6. processes' = processes BY <1>1, <4>4, <4>5, InsertExecKeeps
      <4> QED BY <1>3, <4>6
    <3> QED BY <3>4, <3>5
  <2> QED BY <2>2, <2>3
<1>5. CASE ~("exec" \in event.mask /\ event.generation # None)
  <2>1. processes' = processes BY <1>5 DEF RecordExec
  <2> QED BY <1>3, <2>1
<1> QED BY <1>4, <1>5

(* After it, the rest of the batch.                                         *)
LEMMA FollowsExec ==
    ASSUME BaseInv, LoaderInv, RecordExec
    PROVE  BatchFollows(batch, 2, processes', forgotten')
<1>1. /\ batch # <<>> /\ batch \in Seq(BatchEvent) /\ Len(batch) \in Nat
      /\ BatchFollows(batch, 1, processes, forgotten)
      /\ processes \in ProcessCacheOf(AnyIdentity) /\ now \in Nat
  BY LenProperties DEF RecordExec, BaseInv, WorldOK, EventsOK, AuditorOK, LoaderInv
<1>2. event = batch[1] /\ \A n \in 1..Len(batch) : batch[n] \in BatchEvent
  BY <1>1, TailOfBatch, ElementOfSeq DEF event
<1> SUFFICES ASSUME NEW n \in 2..Len(batch), batch[n].object = Loader,
                    batch[n].generation # None
             PROVE  \/ Recorded(batch[n].life, processes', forgotten')
                    \/ \E m \in 2..(n - 1) : /\ ProgramExec(batch[m], batch[n].life)
                                             /\ batch[m].generation = batch[n].generation
  BY DEF BatchFollows
<1>3. n \in 1..Len(batch) BY <1>1
<1>4. batch[n].life \in Lives BY <1>2, <1>3 DEF BatchEvent
<1>5. CASE Recorded(batch[n].life, processes, forgotten)
  BY <1>4, <1>5, RecordedStays
<1>6. CASE \E m \in 1..(n - 1) : /\ ProgramExec(batch[m], batch[n].life)
                                 /\ batch[m].generation = batch[n].generation
  <2>1. PICK m \in 1..(n - 1) : /\ ProgramExec(batch[m], batch[n].life)
                                /\ batch[m].generation = batch[n].generation
    BY <1>6
  <2>2. CASE m # 1
    <3>1. m \in 2..(n - 1) BY <2>2
    <3> QED BY <2>1, <3>1
  <2>3. CASE m = 1
    <3>1. /\ event.life = batch[n].life /\ event.object # Loader /\ "exec" \in event.mask
          /\ event.generation # None
      BY <1>2, <2>1, <2>3 DEF ProgramExec
    <3>2. /\ event.life \in Lives /\ event.generation = event.life
          /\ ExecIdentity \in Identity /\ pidOf \in Pids
      BY <1>1, <3>1, EventIs, ExecIdentityIs
    <3>3. ExecIdentity.exe # Loader
      <4>1. CASE Inspectable(pidOf) # {} BY <3>2, <4>1, InspectedIs DEF ExecIdentity
      <4>2. CASE Inspectable(pidOf) = {} BY <3>1, <4>2 DEF ExecIdentity
      <4> QED BY <4>1, <4>2
    <3>4. processes' = Procs!InsertExec(processes, event.life, ExecIdentity, now)
      BY <3>1, <3>2 DEF RecordExec, ExecIdentity
    <3> DEFINE l == event.life
               i == ExecIdentity
    <3>5. l \in Lives /\ i \in AnyIdentity[l] /\ i \in Identity /\ i.exe # Loader
          /\ l = batch[n].life /\ processes' = Procs!InsertExec(processes, l, i, now)
      BY <3>1, <3>2, <3>3, <3>4 DEF AnyIdentity
    <3> HIDE DEF l, i
    <3>6. ProcessCapacity # 0 =>
              l \in Procs!Cached(processes') /\ processes'.entries[l].identity = i
      BY <1>1, <3>5, InsertExecKeeps
    <3> QED BY <3>5, <3>6 DEF Recorded
  <2> QED BY <2>2, <2>3
<1> QED BY <1>1, <1>3, <1>5, <1>6 DEF BatchFollows

LEMMA FollowsNext ==
    ASSUME NEW b \in Seq(BatchEvent), b # <<>>, NEW c, NEW gone, BatchFollows(b, 2, c, gone)
    PROVE  BatchFollows(Tail(b), 1, c, gone)
<1>1. /\ Len(Tail(b)) = Len(b) - 1 /\ Len(b) \in Nat
      /\ \A n \in 1..Len(Tail(b)) : Tail(b)[n] = b[n + 1]
  BY TailOfBatch, LenProperties
<1> DEFINE t == Tail(b)
<1> HIDE DEF t
<1>2. /\ Len(t) = Len(b) - 1 /\ Len(b) \in Nat
      /\ \A n \in 1..Len(t) : t[n] = b[n + 1]
  BY <1>1 DEF t
<1>3. BatchFollows(t, 1, c, gone)
  <2> SUFFICES ASSUME NEW n \in 1..Len(t), t[n].object = Loader, t[n].generation # None
               PROVE  \/ Recorded(t[n].life, c, gone)
                      \/ \E m \in 1..(n - 1) : /\ ProgramExec(t[m], t[n].life)
                                               /\ t[m].generation = t[n].generation
    BY DEF BatchFollows
  <2>1. n + 1 \in 2..Len(b) /\ (n + 1) - 1 = n /\ t[n] = b[n + 1] BY <1>2
  <2>2. CASE Recorded(b[n + 1].life, c, gone) BY <2>1, <2>2
  <2>3. CASE ~Recorded(b[n + 1].life, c, gone)
    <3>1. PICK m \in 2..((n + 1) - 1) : /\ ProgramExec(b[m], b[n + 1].life)
                                        /\ b[m].generation = b[n + 1].generation
      BY <2>1, <2>3 DEF BatchFollows
    <3>2. m - 1 \in 1..(n - 1) /\ m - 1 \in 1..Len(t) /\ (m - 1) + 1 = m BY <1>2, <2>1
    <3>3. t[m - 1] = b[m] BY <1>2, <3>2
    <3> QED BY <2>1, <3>1, <3>2, <3>3
  <2> QED BY <2>2, <2>3
<1> QED BY <1>3 DEF t

LEMMA FollowsLater ==
    ASSUME BaseInv, BatchFollows(batch, 2, processes, forgotten), RecordOpen \/ Judge
    PROVE  BatchFollows(batch, 2, processes', forgotten')
<1>1. \A n \in 2..Len(batch) : batch[n].life \in Lives
  <2>1. batch \in Seq(BatchEvent) /\ Len(batch) \in Nat
    BY LenProperties DEF BaseInv, EventsOK
  <2>2. \A n \in 1..Len(batch) : batch[n] \in BatchEvent BY <2>1, ElementOfSeq
  <2>3. \A n \in 2..Len(batch) : n \in 1..Len(batch) BY <2>1
  <2> QED BY <2>2, <2>3 DEF BatchEvent
<1>2. \A l \in Lives : Recorded(l, processes, forgotten) => Recorded(l, processes', forgotten')
  BY RecordedStays
<1> QED BY <1>1, <1>2 DEF BatchFollows

LEMMA LoaderInit == Loader \notin Files /\ Init => LoaderInv
<1> SUFFICES ASSUME Init PROVE LoaderInv OBVIOUS
<1>1. opened \in [Objects -> Nat] /\ opened[Loader] = 0
  BY AuditAssumption DEF Init, Objects
<1>2. LoadersFollow(queue) /\ BatchFollows(batch, IF pc = "exec" THEN 1 ELSE 2, processes, forgotten)
  BY DEF Init, LoadersFollow, BatchFollows
<1>3. KnownFor(forgotten) \in [IdentityKey -> SUBSET Identity] BY DEF KnownFor
<1>4. identities \in IdFacts!CacheOf(KnownFor(forgotten)) BY <1>3, IdentitiesKeep DEF Init
<1>5. processes \in ProcessCacheOf(KnownOf(forgotten)) BY EmptyProcesses DEF Init
<1>6. LoaderNotCharged BY AuditAssumption DEF Init, LoaderNotCharged
<1> QED BY <1>1, <1>2, <1>4, <1>5, <1>6 DEF LoaderInv

LEMMA LoaderWorld ==
    ASSUME Loader \notin Files, BaseInv, LoaderInv, World
    PROVE  LoaderInv'
<1>1. /\ opened \in [Objects -> Nat] /\ opened[Loader] = 0 /\ LoadersFollow(queue)
      /\ queue \in Seq(QueueEvent) /\ Loader \in Objects /\ Loader \notin Commands
      /\ Commands \subseteq Objects
  BY AuditAssumption DEF LoaderInv, BaseInv, EventsOK, Objects
<1>2. ASSUME UNCHANGED auditVars, opened' \in [Objects -> Nat], opened'[Loader] = 0,
             LoadersFollow(queue')
      PROVE  LoaderInv'
  BY <1>2, LoaderPrimed DEF LoaderInv, auditVars, LoaderNotCharged
<1>3. ASSUME UNCHANGED <<auditVars, opened, queue>> PROVE LoaderInv'
  BY <1>1, <1>2, <1>3
<1>4. ASSUME NEW l \in Lives, Start(l) \/ ExecEnds(l) \/ Exits(l) PROVE LoaderInv'
  BY <1>3, <1>4 DEF Start, ExecEnds, Exits
<1>5. ASSUME Tick PROVE LoaderInv' BY <1>3, <1>5 DEF Tick
<1>6. ASSUME NEW l \in Lives, NEW f \in Files, Open(l, f) PROVE LoaderInv'
  <2> DEFINE mask == {"open"}
  <2>1. f \in Objects /\ f # Loader /\ mask \in SUBSET Masks
        /\ queue' = Queued(queue, l, f, mask)
    BY <1>6 DEF Objects, Masks, Open
  <2> HIDE DEF mask
  <2>2. LoadersFollow(queue') BY <1>1, <2>1, QueuedFollows
  <2>3. opened' \in [Objects -> Nat] /\ opened'[Loader] = 0 BY <1>1, <1>6, <2>1 DEF Open
  <2> QED BY <1>2, <1>6, <2>2, <2>3 DEF Open
<1>7. ASSUME NEW l \in Lives, NEW o \in Objects, NEW kind \in CloseKinds, Close(l, o, kind)
      PROVE  LoaderInv'
  <2> DEFINE mask == {kind}
  <2>1. o # Loader /\ mask \in SUBSET Masks /\ queue' = Queued(queue, l, o, mask)
    BY <1>1, <1>7 DEF CloseKinds, Masks, Close
  <2> HIDE DEF mask
  <2>2. LoadersFollow(queue') BY <1>1, <2>1, QueuedFollows
  <2>3. opened' \in [Objects -> Nat] /\ opened'[Loader] = 0 BY <1>1, <1>7, <2>1 DEF Close
  <2> QED BY <1>2, <1>7, <2>2, <2>3 DEF Close
<1>8. ASSUME NEW l \in Lives, NEW p \in Commands, ExecOpens(l, p) PROVE LoaderInv'
  <2> DEFINE mask == {"open", "exec"}
             first == Queued(queue, l, p, mask)
  <2>1. /\ p \in Objects /\ p # Loader /\ mask \in SUBSET Masks /\ "exec" \in mask
        /\ queue' = Queued(first, l, Loader, mask)
    BY <1>1, <1>8 DEF Masks, ExecOpens
  <2>2. first = Queued(queue, l, p, mask) OBVIOUS
  <2> HIDE DEF mask, first
  <2>3. LoadersFollow(first)
    BY <1>1, <2>1, <2>2, QueuedFollows
  <2>4. first \in Seq(QueueEvent) /\ \E m \in 1..Len(first) : ProgramExec(first[m], l)
    BY ONLY <1>1, <2>1, <2>2, l \in Lives, QueuedHas
  <2>5. LoadersFollow(queue')
    BY ONLY <1>1, <2>1, <2>3, <2>4, l \in Lives, QueuedFollows
  <2>6. opened' \in [Objects -> Nat] /\ opened'[Loader] = 0
    BY <1>1, <1>8, <2>1 DEF ExecOpens
  <2> QED BY <1>2, <1>8, <2>5, <2>6 DEF ExecOpens
<1> QED BY <1>4, <1>5, <1>6, <1>7, <1>8 DEF World

(* The auditor tells of the process itself.                                 *)
LEMMA KnowsOfItself ==
    ASSUME OwnPids, BaseInv, batch # <<>>, NEW gone
    PROVE  /\ KnownFor(gone) \in [IdentityKey -> SUBSET Identity]
           /\ event.life \in Lives /\ Key \in IdentityKey
           /\ KnownFor(gone)[Key] = Known(event.life, gone)
           /\ KnownOf(gone)[event.life] = Known(event.life, gone)
           /\ Inspectable(pidOf) # {} =>
                  Inspected(pidOf) \in Known(event.life, gone) /\ Inspected(pidOf).exe # Loader
<1>1. KnownFor(gone) \in [IdentityKey -> SUBSET Identity] BY DEF KnownFor
<1>2. /\ event.life \in Lives /\ Key \in IdentityKey /\ Key[1] = pidOf
      /\ pidOf \in Pids /\ pidOf = PidOf[event.life]
  BY EventIs
<1>3. KnownFor(gone)[Key] = Known(event.life, gone)
  <2>1. \A l \in Lives : PidOf[l] = Key[1] <=> l = event.life BY <1>2 DEF OwnPids
  <2>2. Known(event.life, gone) \subseteq Identity BY DEF Known
  <2> QED BY <1>2, <2>1, <2>2 DEF KnownFor
<1>4. KnownOf(gone)[event.life] = Known(event.life, gone) BY <1>2 DEF KnownOf
<1>5. Inspectable(pidOf) # {} =>
          Inspected(pidOf) \in Known(event.life, gone) /\ Inspected(pidOf).exe # Loader
  BY <1>2, InspectedIs DEF Known
<1> QED BY <1>1, <1>2, <1>3, <1>4, <1>5

LEMMA LoaderStep ==
    ASSUME OwnPids, Loader \notin Files, BaseInv, BaseInv', LoaderInv, [Next]_vars
    PROVE  LoaderInv'
<1>1. /\ opened \in [Objects -> Nat] /\ opened[Loader] = 0 /\ LoadersFollow(queue)
      /\ identities \in IdFacts!CacheOf(KnownFor(forgotten))
      /\ processes \in ProcessCacheOf(KnownOf(forgotten))
      /\ charge.exe = Loader => charge.life \in forgotten
      /\ batch \in Seq(BatchEvent)
  BY DEF LoaderInv, LoaderNotCharged, BaseInv, EventsOK
<1>2. ASSUME UNCHANGED vars PROVE LoaderInv'
  BY <1>1, <1>2, LoaderPrimed
     DEF LoaderInv, LoaderNotCharged, vars, worldVars, auditVars
<1>3. ASSUME ReadEvents PROVE LoaderInv'
  <2>1. /\ queue' = <<>> /\ pc' = "exec"
        /\ UNCHANGED <<opened, identities, processes, charge, forgotten>>
    BY <1>3 DEF ReadEvents
  <2>2. queue \in Seq(QueueEvent) /\ Len(queue) \in Nat /\ DOMAIN queue = 1..Len(queue)
    BY LenProperties DEF BaseInv, EventsOK
  <2>3. batch' = [n \in 1..Len(queue) |->
            [life |-> queue[n].life, object |-> queue[n].object,
             mask |-> queue[n].mask,
             generation |-> IF Running(queue[n].life) THEN queue[n].life ELSE None]]
    BY <1>3, <2>2 DEF ReadEvents
  <2>4. Len(batch') = Len(queue)
    <3>1. batch' \in Seq(BatchEvent) BY DEF BaseInv, EventsOK
    <3>2. DOMAIN batch' = 1..Len(batch') /\ Len(batch') \in Nat BY <3>1, LenProperties
    <3>3. DOMAIN batch' = 1..Len(queue) BY <2>3
    <3>4. \A m, n \in Nat : 1..m = 1..n => m = n BY SMTT(30)
    <3> QED BY ONLY <2>2, <3>2, <3>3, <3>4
  <2>5. BatchFollows(batch', 1, processes', forgotten')
    <3> SUFFICES ASSUME NEW n \in 1..Len(queue), batch'[n].object = Loader
                 PROVE  \E m \in 1..(n - 1) :
                            /\ ProgramExec(batch'[m], batch'[n].life)
                            /\ batch'[m].generation = batch'[n].generation
      BY <2>4 DEF BatchFollows
    <3>1. batch'[n].life = queue[n].life /\ batch'[n].object = queue[n].object BY <2>3
    <3>2. PICK m \in 1..(n - 1) : ProgramExec(queue[m], queue[n].life)
      BY <1>1, <3>1 DEF LoadersFollow
    <3>3. m \in 1..Len(queue) BY <2>2, <3>2
    <3>4. ProgramExec(batch'[m], batch'[n].life) BY <2>3, <3>1, <3>2, <3>3 DEF ProgramExec
    <3>5. batch'[m].generation = batch'[n].generation
      BY <2>3, <3>2, <3>3 DEF ProgramExec
    <3> QED BY <3>2, <3>4, <3>5
  <2>6. LoadersFollow(queue') BY <2>1 DEF LoadersFollow
  <2> QED BY <1>1, <2>1, <2>5, <2>6, LoaderPrimed DEF LoaderNotCharged
<1>4. ASSUME RecordExec \/ RecordOpen \/ Judge,
             BatchFollows(batch, 2, processes', forgotten'),
             identities' \in IdFacts!CacheOf(KnownFor(forgotten')),
             processes' \in ProcessCacheOf(KnownOf(forgotten')),
             charge'.exe = Loader => charge'.life \in forgotten'
      PROVE  LoaderInv'
  <2>1. opened' = opened /\ queue' = queue /\ batch # <<>>
    BY <1>4 DEF RecordExec, RecordOpen, Judge, worldVars, BaseInv, AuditorOK
  <2>2. CASE EventDone
    <3>1. batch' = Tail(batch) /\ pc' \in {"read", "exec"} /\ (pc' = "read" => batch' = <<>>)
      BY <2>2 DEF EventDone
    <3>2. BatchFollows(Tail(batch), 1, processes', forgotten')
      BY <1>1, <1>4, <2>1, FollowsNext
    <3>3. BatchFollows(batch', IF pc' = "exec" THEN 1 ELSE 2, processes', forgotten')
      <4>1. CASE pc' = "exec" BY <3>1, <3>2, <4>1
      <4>2. CASE pc' = "read"
        <5>1. batch' = <<>> /\ 2..Len(<<>>) = {} BY <3>1, <4>2
        <5> QED BY <4>2, <5>1 DEF BatchFollows
      <4> QED BY <3>1, <4>1, <4>2
    <3> QED BY <1>1, <1>4, <2>1, <3>3, LoaderPrimed DEF LoaderNotCharged
  <2>3. CASE ~EventDone
    <3>1. batch' = batch /\ pc' # "exec" BY <1>4, <2>3 DEF RecordExec, RecordOpen, Judge
    <3>2. BatchFollows(batch', IF pc' = "exec" THEN 1 ELSE 2, processes', forgotten')
      BY <1>4, <3>1
    <3> QED BY <1>1, <1>4, <2>1, <3>2, LoaderPrimed DEF LoaderNotCharged
  <2> QED BY <2>2, <2>3
<1>5. ASSUME RecordExec \/ RecordOpen \/ Judge PROVE forgotten \subseteq forgotten'
  BY <1>5 DEF RecordExec, RecordOpen, Judge, Forget
<1>6. ASSUME RecordExec PROVE LoaderInv'
  <2>1. BatchFollows(batch, 2, processes', forgotten') BY <1>6, FollowsExec
  <2>2. processes' \in ProcessCacheOf(KnownOf(forgotten')) BY <1>6, RecordExecKnown
  <2>3. identities' = identities /\ charge' = charge BY <1>6 DEF RecordExec
  <2>4. identities' \in IdFacts!CacheOf(KnownFor(forgotten'))
    BY <1>1, <1>5, <1>6, <2>3, KnownGrows
  <2> QED BY <1>1, <1>4, <1>5, <1>6, <2>1, <2>2, <2>3, <2>4
<1>7. ASSUME RecordOpen \/ Judge
      PROVE  /\ batch # <<>> /\ BatchFollows(batch, 2, processes', forgotten')
             /\ processes' \in ProcessCacheOf(KnownOf(forgotten'))
  <2>1. batch # <<>> BY <1>7, LooksUp
  <2>2. BatchFollows(batch, 2, processes, forgotten)
    BY <1>7 DEF RecordOpen, Judge, LoaderInv
  <2>3. BatchFollows(batch, 2, processes', forgotten') BY <1>7, <2>2, FollowsLater
  <2>4. processes' \in ProcessCacheOf(KnownOf(forgotten)) BY <1>1, <1>7, LookupStep
  <2>5. processes' \in ProcessCacheOf(KnownOf(forgotten')) BY <1>5, <1>7, <2>4, KnownGrows
  <2> QED BY <2>1, <2>3, <2>5
<1>8. ASSUME RecordOpen PROVE LoaderInv'
  <2>1. identities' \in IdFacts!CacheOf(KnownFor(forgotten))
    <3>1. /\ KnownFor(forgotten) \in [IdentityKey -> SUBSET Identity]
          /\ Inspectable(pidOf) # {} => Inspected(pidOf) \in KnownFor(forgotten)[Key]
          /\ KnownOf(forgotten)[event.life] \cap Identity \subseteq KnownFor(forgotten)[Key]
      BY <1>7, <1>8, KnowsOfItself
    <3> QED BY <1>1, <1>8, <3>1, RecordOpenStep
  <2>2. identities' \in IdFacts!CacheOf(KnownFor(forgotten')) BY <1>5, <1>8, <2>1, KnownGrows
  <2>3. charge' = charge BY <1>8 DEF RecordOpen
  <2> QED BY <1>1, <1>4, <1>5, <1>7, <1>8, <2>2, <2>3
<1>9. ASSUME Judge PROVE LoaderInv'
  <2>1. identities' \in IdFacts!CacheOf(KnownFor(forgotten))
    BY <1>1, <1>7, <1>9, KnowsOfItself, JudgeStep
  <2>2. identities' \in IdFacts!CacheOf(KnownFor(forgotten')) BY <1>5, <1>9, <2>1, KnownGrows
  <2>3. charge'.exe = Loader => charge'.life \in forgotten'
    <3> DEFINE found == Ids!Found(identities, Key)
               consult == found = Nobody /\ event.generation # None
               known == IF found # Nobody THEN found
                        ELSE IF consult THEN Procs!Lookup(processes, event.generation, now)
                        ELSE Nobody
    <3>1. event.life \in Lives /\ Key \in IdentityKey
          /\ (event.generation # None => event.generation = event.life)
      BY <1>7, <1>9, EventIs
    <3>2. charge' = [life |-> event.life, exe |->
              IF known # Nobody THEN known.exe
              ELSE IF Inspectable(pidOf) # {} THEN Inspected(pidOf).exe ELSE None]
      BY <1>9 DEF Judge
    <3>3. found \in Known(event.life, forgotten) \cup {Nobody}
      BY <1>1, <1>7, <1>9, <3>1, KnowsOfItself, IdentitiesKeep
    <3>4. known \in Known(event.life, forgotten) \cup {Nobody}
      <4>1. Procs!Lookup(processes, event.life, now) \in
                KnownOf(forgotten)[event.life] \cup {Nobody}
        BY <1>1, <3>1, LookupKeeps
      <4>2. KnownOf(forgotten)[event.life] = Known(event.life, forgotten)
        BY <1>7, <1>9, KnowsOfItself
      <4> QED BY <3>1, <3>3, <4>1, <4>2
    <3> HIDE DEF known
    <3>5. known # Nobody => (known.exe = Loader => event.life \in forgotten)
      BY <3>4 DEF Known
    <3>6. Inspectable(pidOf) # {} => Inspected(pidOf).exe # Loader
      BY <1>7, <1>9, KnowsOfItself
    <3>7. None # Loader BY AuditAssumption
    <3> QED BY <1>5, <1>9, <3>2, <3>5, <3>6, <3>7
  <2> QED BY <1>4, <1>7, <1>9, <2>2, <2>3
<1>10. ASSUME Fails PROVE LoaderInv'
  <2>1. /\ queue' = <<>> /\ batch' = <<>> /\ pc' = "exited"
        /\ UNCHANGED <<opened, charge, forgotten>>
    BY <1>10 DEF Fails
  <2>2. LoadersFollow(queue') BY <2>1 DEF LoadersFollow
  <2>3. BatchFollows(batch', IF pc' = "exec" THEN 1 ELSE 2, processes', forgotten')
    <3>1. 2..Len(<<>>) = {} OBVIOUS
    <3> QED BY <2>1, <3>1 DEF BatchFollows
  <2>4. KnownFor(forgotten) \in [IdentityKey -> SUBSET Identity] BY DEF KnownFor
  <2>5. identities' \in IdFacts!CacheOf(KnownFor(forgotten))
    BY <1>10, <2>4, IdentitiesKeep DEF Fails
  <2>6. processes' \in ProcessCacheOf(KnownOf(forgotten)) BY <1>10, EmptyProcesses DEF Fails
  <2> QED BY <1>1, <2>1, <2>2, <2>3, <2>5, <2>6, LoaderPrimed DEF LoaderNotCharged
<1> QED BY <1>2, <1>3, <1>6, <1>8, <1>9, <1>10, LoaderWorld DEF Next, Auditor

(* As long as no pid is used twice and the loader is only ever executed, it *)
(* is charged for an access of a process only if what was recorded of that  *)
(* process has expired or was evicted (audit_process.rs, insert_exec_at).   *)
THEOREM LoaderSpared == OwnPids /\ Loader \notin Files => (Spec => []LoaderNotCharged)
<1> SUFFICES ASSUME OwnPids, Loader \notin Files PROVE Spec => []LoaderNotCharged OBVIOUS
<1>1. BaseInv /\ BaseInv' /\ LoaderInv /\ [Next]_vars => LoaderInv' BY LoaderStep
<1>2. Init => LoaderInv BY LoaderInit
<1>3. LoaderInv => LoaderNotCharged BY DEF LoaderInv
<1> QED BY <1>1, <1>2, <1>3, Based, PTL DEF Spec

=============================================================================
