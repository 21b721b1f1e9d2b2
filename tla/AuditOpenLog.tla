----------------------------- MODULE AuditOpenLog -----------------------------
(****************************************************************************)
(* What audit mode asks of its identity cache (audit_identity.rs): a log of *)
(* the opens whose close is still to come, oldest first, that holds at most *)
(* Capacity of them and per key only those of one process generation.       *)
(****************************************************************************)
EXTENDS Naturals, Sieve

CONSTANTS
    Keys,        \* AuditIdentityKey: a pid and a file object
    Identities,  \* ProcessIdentity
    StartOf,     \* ProcessIdentity::start_time_ticks, maybe unknown
    Capacity,
    Nobody

VARIABLES
    log,    \* the opens, as records of a key and an identity
    taken   \* what the last operation handed out

Youngest(n, s) == SubSeq(s, IF Len(s) > n THEN Len(s) - n + 1 ELSE 1, Len(s))

Init == log = <<>> /\ taken = Nobody

(* The opens of an older generation under the same key are over.  When the  *)
(* log is full the oldest open makes room.                                  *)
Insert(k, i) ==
    /\ log' = IF Capacity = 0 THEN log ELSE
           LET over == {o \in ToSet(log) : o.key = k /\ StartOf[o.identity] # StartOf[i]}
           IN Append(Youngest(Capacity - 1, Without(log, over)),
                     [key |-> k, identity |-> i])
    /\ taken' = Nobody

Take(k) ==
    LET n == SelectInSeq(log, LAMBDA o : o.key = k)
    IN /\ log' = IF n = 0 THEN log ELSE RemoveAt(log, n)
       /\ taken' = IF n = 0 THEN Nobody ELSE log[n].identity

Invalidate(k) ==
    /\ log' = Without(log, {o \in ToSet(log) : o.key = k})
    /\ taken' = Nobody

Next == \E k \in Keys :
    \/ \E i \in Identities : Insert(k, i)
    \/ Take(k)
    \/ Invalidate(k)

Spec == Init /\ [][Next]_<<log, taken>>
=============================================================================
