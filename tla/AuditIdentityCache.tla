-------------------------- MODULE AuditIdentityCache --------------------------
(****************************************************************************)
(* The identity cache of audit mode (src/src/fanotify/audit_identity.rs):   *)
(* per pid and file object a queue of the identities seen at its opens, a   *)
(* counter, and the order in which the keys came, for eviction.  The cache  *)
(* is one record, so that the auditor can use its operations several times  *)
(* in one step.                                                             *)
(****************************************************************************)
EXTENDS Integers, FiniteSetsExt, Sieve

CONSTANTS Keys, Identities, StartOf, Capacity, Nobody

ASSUME CacheAssumption ==
    /\ Capacity \in Nat
    /\ DOMAIN StartOf = Identities
    /\ Nobody \notin Identities

(* The map's entry for a key is removed with its last identity: an absent   *)
(* key is an empty queue.                                                   *)
EmptyCache == [identities |-> [k \in Keys |-> <<>>], entryCount |-> 0,
               insertionOrder |-> <<>>]

InvalidateQueueOnly(c, k) ==
    [c EXCEPT !.identities[k] = <<>>, !.entryCount = @ - Len(c.identities[k])]

InvalidateKey(c, k) ==
    [identities |-> [c.identities EXCEPT ![k] = <<>>],
     entryCount |-> c.entryCount - Len(c.identities[k]),
     insertionOrder |-> Without(c.insertionOrder, {k})]

(* One turn of the eviction loop. *)
EvictOldest(c) ==
    LET oldest == Head(c.insertionOrder)
        queue == c.identities[oldest]
    IN [identities |-> [c.identities EXCEPT ![oldest] =
            IF queue = <<>> THEN <<>> ELSE Tail(queue)],
        entryCount |-> IF queue = <<>> THEN c.entryCount ELSE c.entryCount - 1,
        insertionOrder |-> Tail(c.insertionOrder)]

(* The loop ends when the order is used up or there is room. *)
EvictOldestIfFull(c) ==
    FoldLeft(LAMBDA d, k : IF d.entryCount >= Capacity THEN EvictOldest(d) ELSE d,
             c, c.insertionOrder)

(* Variant: any cached generation is as good as another. *)
SameGeneration(c, k, i) == FALSE

GenerationChanged(c, k, i) ==
    /\ c.identities[k] # <<>>
    /\ StartOf[Last(c.identities[k])] # StartOf[i]

InsertInto(c, k, i) ==
    IF Capacity = 0 THEN c ELSE
    LET d == EvictOldestIfFull(IF GenerationChanged(c, k, i)
                               THEN InvalidateKey(c, k) ELSE c)
    IN [identities |-> [d.identities EXCEPT ![k] = Append(@, i)],
        entryCount |-> d.entryCount + 1,
        insertionOrder |-> Append(d.insertionOrder, k)]

Found(c, k) == IF c.identities[k] = <<>> THEN Nobody ELSE Head(c.identities[k])

(* Variant: the youngest order entry of the key goes instead of the oldest. *)
TakeLastOrderEntry(c, k) ==
    IF c.identities[k] = <<>> THEN c ELSE
    [identities |-> [c.identities EXCEPT ![k] = Tail(@)],
     entryCount |-> c.entryCount - 1,
     insertionOrder |-> RemoveAt(c.insertionOrder,
         SelectLastInSeq(c.insertionOrder, LAMBDA q : q = k))]

TakeFrom(c, k) ==
    IF c.identities[k] = <<>> THEN c ELSE
    [identities |-> [c.identities EXCEPT ![k] = Tail(@)],
     entryCount |-> c.entryCount - 1,
     insertionOrder |-> RemoveFirst(c.insertionOrder, k)]

-----------------------------------------------------------------------------
(* The map, the counter and the order say the same: the counter never       *)
(* underflows, every order entry still finds an identity when it is         *)
(* evicted, and the cache never outgrows its capacity.                      *)
Consistent(c) ==
    /\ \A k \in Keys : Len(c.identities[k]) =
           Quantify(DOMAIN c.insertionOrder, LAMBDA n : c.insertionOrder[n] = k)
    /\ c.entryCount = Len(c.insertionOrder)
    /\ c.entryCount <= Capacity

(* All identities queued under a key are of one process generation. *)
OneGeneration(c) ==
    \A k \in Keys : \A i, j \in ToSet(c.identities[k]) : StartOf[i] = StartOf[j]

(* The log of opens that the map and the order stand for: the n-th entry of *)
(* a key in the order is the n-th identity in its queue.                    *)
LogOf(c) ==
    [n \in DOMAIN c.insertionOrder |->
        LET k == c.insertionOrder[n]
            nth == Quantify(1..n, LAMBDA m : c.insertionOrder[m] = k)
        IN [key |-> k, identity |->
                IF nth <= Len(c.identities[k]) THEN c.identities[k][nth] ELSE Nobody]]
=============================================================================
