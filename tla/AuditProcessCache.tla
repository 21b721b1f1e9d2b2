--------------------------- MODULE AuditProcessCache ---------------------------
(****************************************************************************)
(* The process cache of audit mode (src/src/fanotify/audit_process.rs): per *)
(* process generation, as told by its pidfd, the identity recorded at its   *)
(* last exec, for a limited time and a limited number of processes.         *)
(****************************************************************************)
EXTENDS Integers, FiniteSets, SequencesExt

CONSTANTS
    Generations, Identities,
    IsDynamicLoader,   \* [Identities -> BOOLEAN]
    ProcessCapacity, TimeToLive,
    Nobody

Absent == [identity |-> Nobody, recordedAt |-> 0]
EmptyProcessCache == [entries |-> [g \in Generations |-> Absent],
                      insertionOrder |-> <<>>]

Cached(c) == {g \in Generations : c.entries[g] # Absent}

(* Variant: a replaced entry keeps its old place in the order as well. *)
KeepOrder(c, g) == [c EXCEPT !.entries[g] = Absent]

Drop(c, g) ==
    [entries |-> [c.entries EXCEPT ![g] = Absent],
     insertionOrder |-> RemoveFirst(c.insertionOrder, g)]

EvictIfFull(c) ==
    FoldLeft(LAMBDA d, g :
                 IF Cardinality(Cached(d)) >= ProcessCapacity
                 THEN [entries |-> [d.entries EXCEPT ![g] = Absent],
                       insertionOrder |-> Tail(d.insertionOrder)]
                 ELSE d,
             c, c.insertionOrder)

Replace(c, g, i, now) ==
    IF ProcessCapacity = 0 THEN c ELSE
    LET d == EvictIfFull(Drop(c, g))
    IN [entries |-> [d.entries EXCEPT ![g] = [identity |-> i, recordedAt |-> now]],
        insertionOrder |-> Append(d.insertionOrder, g)]

Expired(c, g, now) ==
    g \in Cached(c) /\ now - c.entries[g].recordedAt > TimeToLive

(* get_at: an expired entry is removed by the lookup that finds it. *)
AfterLookup(c, g, now) == IF Expired(c, g, now) THEN Drop(c, g) ELSE c
Lookup(c, g, now) == AfterLookup(c, g, now).entries[g].identity

(* Variant: the dynamic loader's exec event is like any other. *)
InsertAnyExec(c, g, i, now) == Replace(c, g, i, now)

(* insert_exec_at: the loader, which the kernel opens for the program it    *)
(* was asked to run, does not replace that program.                         *)
InsertExec(c, g, i, now) ==
    IF ~IsDynamicLoader[i] THEN Replace(c, g, i, now) ELSE
    LET kept == Lookup(c, g, now)
        d == AfterLookup(c, g, now)
    IN IF kept # Nobody /\ ~IsDynamicLoader[kept] THEN d ELSE Replace(d, g, i, now)

-----------------------------------------------------------------------------
(* The order lists exactly the cached generations, each once, and there are *)
(* never more than the capacity: what is evicted is what came first.        *)
ProcessesConsistent(c) ==
    /\ ToSet(c.insertionOrder) = Cached(c)
    /\ Len(c.insertionOrder) = Cardinality(Cached(c))
    /\ Len(c.insertionOrder) <= ProcessCapacity
=============================================================================
