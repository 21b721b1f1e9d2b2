-------------------------- MODULE AuditIdentityCalls --------------------------
(****************************************************************************)
(* The identity cache of audit mode under any sequence of calls.            *)
(****************************************************************************)
EXTENDS AuditIdentityCache

VARIABLES
    cache,
    taken    \* what the last call returned

Init == cache = EmptyCache /\ taken = Nobody

Insert(k, i) == cache' = InsertInto(cache, k, i) /\ taken' = Nobody
Take(k) == cache' = TakeFrom(cache, k) /\ taken' = Found(cache, k)
Invalidate(k) == cache' = InvalidateKey(cache, k) /\ taken' = Nobody

Next == \E k \in Keys :
    \/ \E i \in Identities : Insert(k, i)
    \/ Take(k)
    \/ Invalidate(k)

Spec == Init /\ [][Next]_<<cache, taken>>

(* The map, the counter and the eviction order of audit_identity.rs agree   *)
(* after any calls: the counter never underflows, and never more than the   *)
(* capacity is kept.                                                        *)
CacheConsistent == Consistent(cache)

(* Identities of two generations of a pid never queue under one key, so an  *)
(* old generation's open is never handed to a new generation's close once   *)
(* the new one's open was seen.                                             *)
CacheOneGeneration == OneGeneration(cache)

(* The cache is the log of opens AuditOpenLog describes: pairing is first   *)
(* in, first out per key, eviction takes the oldest open of all, and a new  *)
(* generation ends the queue of the old one.                                *)
OpenLog == INSTANCE AuditOpenLog WITH log <- LogOf(cache)
IsOpenLog == OpenLog!Spec
=============================================================================
