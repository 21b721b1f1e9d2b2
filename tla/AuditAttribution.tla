--------------------------- MODULE AuditAttribution ---------------------------
(****************************************************************************)
(* Audit mode (src/src/fanotify/audit.rs under the loop of fanotify.rs):    *)
(* opens, execs and closes of files are reported after the fact, and every  *)
(* close is charged to an executable, found by pairing it with the identity *)
(* seen at the open, else by the process generation's last exec, else by    *)
(* asking /proc.  Meanwhile processes run, exec, exit and pids are reused.  *)
(****************************************************************************)
EXTENDS Integers, FiniteSets, SequencesExt

CONSTANTS
    Lives,        \* process generations
    Pids, PidOf,  \* the pid of each, possibly shared over time
    FirstImage,   \* the program a life starts with, forked from its parent
    Programs, Loader,
    Commands,     \* the programs a life may turn into
    Files, Watched,
    Capacity,                      \* of the identity cache
    ProcessCapacity, TimeToLive,   \* of the process cache
    Nobody, None,
    MaxEvents, MaxTime             \* bounds on the environment

Objects == Files \cup Programs
CloseKinds == {"nowrite", "write"}

(* What a ProcessIdentity says of the process: the start time is missing    *)
(* when it was made from an executed path alone.                            *)
Identity == [pid : Pids, exe : Programs, start : Lives \cup {None}]
IdentityKey == Pids \X Objects

ASSUME AuditAssumption ==
    /\ PidOf \in [Lives -> Pids] /\ FirstImage \in [Lives -> Programs \ {Loader}]
    /\ Loader \in Programs /\ Commands \subseteq Programs \ {Loader}
    /\ Watched \subseteq Objects
    /\ None \notin Lives \cup Programs /\ Nobody \notin Identity
    /\ {Capacity, ProcessCapacity, TimeToLive, MaxEvents, MaxTime} \subseteq Nat

Ids == INSTANCE AuditIdentityCache WITH
           Keys <- IdentityKey, Identities <- Identity,
           StartOf <- [i \in Identity |-> i.start]
Procs == INSTANCE AuditProcessCache WITH
           Generations <- Lives, Identities <- Identity,
           IsDynamicLoader <- [i \in Identity |-> i.exe = Loader]

VARIABLES
    phase,       \* each life: "unborn", "running" or "gone"
    image,       \* the program a life executes
    execing,     \* the program it is about to execute
    opened,      \* open file descriptions of each object
    raised,      \* how many events there have been
    queue,       \* the kernel's unread events
    pc, batch,   \* the auditor and the events it has read
    identities,  \* EventRuntime::audit_identities
    processes,   \* EventRuntime::audit_processes
    now,
    charge,      \* history: the life and the executable of the last verdict
    asked,       \* history: every program a life has set out to execute
    forgotten,   \* history: generations whose recorded exec was dropped
    owed         \* history: closes of watched objects no verdict covers yet

worldVars == <<phase, image, execing, opened, raised, queue, now, asked>>
auditVars == <<pc, batch, identities, processes, charge, forgotten>>
vars == <<worldVars, auditVars, owed>>

Init ==
    /\ phase = [l \in Lives |-> "unborn"] /\ image = FirstImage
    /\ execing = [l \in Lives |-> None] /\ opened = [o \in Objects |-> 0]
    /\ raised = 0 /\ queue = <<>>
    /\ pc = "read" /\ batch = <<>>
    /\ identities = Ids!EmptyCache /\ processes = Procs!EmptyProcessCache
    /\ now = 0
    /\ charge = [life |-> None, exe |-> None]
    /\ asked = [l \in Lives |-> {FirstImage[l]}]
    /\ forgotten = {} /\ owed = {}

-----------------------------------------------------------------------------
(* The processes and the kernel's queue.                                    *)

Running(l) == phase[l] = "running"

(* The world is only followed while there is an auditor. *)
Audited == pc # "exited"

(* An event joins an unread one of the same process and object. *)
Queued(q, l, o, mask) ==
    LET n == SelectInSeq(q, LAMBDA e : e.life = l /\ e.object = o)
    IN IF n = 0 THEN Append(q, [life |-> l, object |-> o, mask |-> mask])
       ELSE [q EXCEPT ![n].mask = @ \cup mask]

Start(l) ==
    /\ Audited /\ phase[l] = "unborn"
    /\ \A m \in Lives : Running(m) => PidOf[m] # PidOf[l]
    /\ phase' = [phase EXCEPT ![l] = "running"]
    /\ UNCHANGED <<image, execing, opened, raised, queue, now, asked,
                   auditVars, owed>>

Open(l, f) ==
    /\ Audited /\ Running(l) /\ execing[l] = None /\ raised < MaxEvents
    /\ opened' = [opened EXCEPT ![f] = @ + 1]
    /\ raised' = raised + 1
    /\ queue' = Queued(queue, l, f, {"open"})
    /\ UNCHANGED <<phase, image, execing, now, asked, auditVars, owed>>

(* The last close of a description, by whoever holds it by then. *)
Close(l, o, kind) ==
    /\ Audited /\ Running(l) /\ execing[l] = None /\ raised < MaxEvents /\ opened[o] > 0
    /\ kind = "write" => o \in Files
    /\ opened' = [opened EXCEPT ![o] = @ - 1]
    /\ raised' = raised + 1
    /\ queue' = Queued(queue, l, o, {kind})
    /\ owed' = owed \cup ({<<l, o, kind>>} \cap (Lives \X Watched \X CloseKinds))
    /\ UNCHANGED <<phase, image, execing, now, asked, auditVars>>

(* execve opens the program and then its dynamic loader before the process  *)
(* becomes that program, if it does.                                        *)
ExecOpens(l, p) ==
    /\ Audited /\ Running(l) /\ execing[l] = None /\ raised < MaxEvents
    /\ execing' = [execing EXCEPT ![l] = p]
    /\ asked' = [asked EXCEPT ![l] = @ \cup {p, Loader}]
    /\ opened' = [opened EXCEPT ![p] = @ + 1]
    /\ raised' = raised + 1
    /\ queue' = Queued(Queued(queue, l, p, {"open", "exec"}),
                       l, Loader, {"open", "exec"})
    /\ UNCHANGED <<phase, image, now, auditVars, owed>>

ExecEnds(l) ==
    /\ Audited /\ Running(l) /\ execing[l] # None
    /\ image' \in {image, [image EXCEPT ![l] = execing[l]]}
    /\ execing' = [execing EXCEPT ![l] = None]
    /\ UNCHANGED <<phase, opened, raised, queue, now, asked, auditVars, owed>>

Exits(l) ==
    /\ Audited /\ Running(l)
    /\ phase' = [phase EXCEPT ![l] = "gone"]
    /\ UNCHANGED <<image, execing, opened, raised, queue, now, asked,
                   auditVars, owed>>

Tick ==
    /\ Audited /\ now < MaxTime /\ now' = now + 1
    /\ UNCHANGED <<phase, image, execing, opened, raised, queue, asked,
                   auditVars, owed>>

-----------------------------------------------------------------------------
(* The auditor.                                                             *)

(* inspect_process: what /proc says of a pid now. *)
Inspectable(pid) == {l \in Lives : Running(l) /\ PidOf[l] = pid}
Inspected(pid) == LET l == CHOOSE l \in Inspectable(pid) : TRUE
                  IN [pid |-> pid, exe |-> image[l], start |-> l]

event == Head(batch)
pidOf == PidOf[event.life]
closesOf == event.mask \cap CloseKinds

(* Variant: the object alone pairs a close with its open. *)
KeyOfObject == <<CHOOSE p \in Pids : TRUE, event.object>>
Key == <<pidOf, event.object>>

EventDone ==
    /\ batch' = Tail(batch)
    /\ pc' = IF batch' = <<>> THEN "read" ELSE "exec"

Forget == forgotten' = forgotten
    \cup (Procs!Cached(processes) \ Procs!Cached(processes'))
    \cup {l \in Lives : Procs!Expired(processes, l, now)}

(* The pidfd in an event is made when it is read, for a process that lives. *)
ReadEvents ==
    /\ pc = "read" /\ queue # <<>>
    /\ batch' = [n \in DOMAIN queue |->
           [life |-> queue[n].life, object |-> queue[n].object,
            mask |-> queue[n].mask,
            generation |-> IF Running(queue[n].life) THEN queue[n].life ELSE None]]
    /\ queue' = <<>>
    /\ pc' = "exec"
    /\ UNCHANGED <<phase, image, execing, opened, raised, now, asked,
                   identities, processes, charge, forgotten, owed>>

(* record_exec_identity; an exec without a close, and an event outside the  *)
(* watched roots, end here.                                                 *)
RecordExec ==
    /\ pc = "exec"
    /\ processes' =
           IF "exec" \in event.mask /\ event.generation # None
           THEN Procs!InsertExec(processes, event.generation,
                    IF Inspectable(pidOf) # {} THEN Inspected(pidOf)
                    ELSE [pid |-> pidOf, exe |-> event.object, start |-> None],
                    now)
           ELSE processes
    /\ IF ("exec" \in event.mask /\ closesOf = {}) \/ event.object \notin Watched
       THEN EventDone ELSE pc' = "open" /\ UNCHANGED batch
    /\ Forget
    /\ UNCHANGED <<worldVars, identities, charge, owed>>

(* record_open_identity: /proc first, else the generation's exec; if both   *)
(* fail, what is cached for the pid and the object is no longer trusted.    *)
RecordOpen ==
    /\ pc = "open"
    /\ LET consult == "open" \in event.mask /\ Inspectable(pidOf) = {}
                          /\ event.generation # None
           seen == IF Inspectable(pidOf) # {} THEN Inspected(pidOf)
                   ELSE IF consult THEN Procs!Lookup(processes, event.generation, now)
                   ELSE Nobody
       IN /\ processes' = IF consult
                 THEN Procs!AfterLookup(processes, event.generation, now) ELSE processes
          /\ identities' =
                 IF "open" \notin event.mask THEN identities
                 ELSE IF seen = Nobody THEN Ids!InvalidateKey(identities, Key)
                 ELSE Ids!InsertInto(identities, Key, seen)
    /\ IF closesOf = {} THEN EventDone ELSE pc' = "judge" /\ UNCHANGED batch
    /\ Forget
    /\ UNCHANGED <<worldVars, charge, owed>>

(* Variant: of a merged close only the first kind is evaluated. *)
FirstAccessKind ==
    IF "nowrite" \in event.mask THEN {"nowrite"} ELSE {"write"}

AccessKinds == closesOf

(* The identity of the matching open, else of the last exec of this very    *)
(* generation, else what /proc says of the pid, else an unknown subject.    *)
Judge ==
    /\ pc = "judge"
    /\ LET found == Ids!Found(identities, Key)
           consult == found = Nobody /\ event.generation # None
           known == IF found # Nobody THEN found
                    ELSE IF consult THEN Procs!Lookup(processes, event.generation, now)
                    ELSE Nobody
       IN /\ identities' = Ids!TakeFrom(identities, Key)
          /\ processes' = IF consult
                 THEN Procs!AfterLookup(processes, event.generation, now) ELSE processes
          /\ charge' = [life |-> event.life, exe |->
                 IF known # Nobody THEN known.exe
                 ELSE IF Inspectable(pidOf) # {} THEN Inspected(pidOf).exe ELSE None]
    /\ owed' = owed \ {<<event.life, event.object, k>> : k \in AccessKinds}
    /\ Forget
    /\ EventDone
    /\ UNCHANGED worldVars

(* Reading, a file descriptor, the policy or the learner fails: the program *)
(* ends, and with it its queue in the kernel and both caches.               *)
Fails ==
    /\ pc # "exited"
    /\ pc' = "exited"
    /\ queue' = <<>> /\ batch' = <<>> /\ owed' = {}
    /\ identities' = Ids!EmptyCache /\ processes' = Procs!EmptyProcessCache
    /\ UNCHANGED <<phase, image, execing, opened, raised, now, asked, charge,
                   forgotten>>

-----------------------------------------------------------------------------
World ==
    \/ \E l \in Lives :
        \/ Start(l) \/ ExecEnds(l) \/ Exits(l)
        \/ \E f \in Files : Open(l, f)
        \/ \E o \in Objects, kind \in CloseKinds : Close(l, o, kind)
        \/ \E p \in Commands : ExecOpens(l, p)
    \/ Tick

Auditor == ReadEvents \/ RecordExec \/ RecordOpen \/ Judge

Next == World \/ Auditor \/ Fails

Spec == Init /\ [][Next]_vars

-----------------------------------------------------------------------------
(* Whatever is merged, evicted, expired or left over, a close is charged to *)
(* a program the process that made it has executed, or to nobody: no access *)
(* is blamed on another process.  docs/specs/config-guard.md:54 promises it *)
(* also across the reuse of pids.                                           *)
ChargedToOwnProgram ==
    charge.exe # None => charge.exe \in asked[charge.life]

(* The dynamic loader is blamed for a short-lived program's access only if  *)
(* what was recorded of that program has expired or was evicted.            *)
LoaderNotCharged ==
    charge.exe = Loader => charge.life \in forgotten

(* No close of a watched object is overlooked: with each of its kinds it is *)
(* unread, read and not yet judged, or judged.                              *)
NoCloseLost ==
    \A c \in owed : \E e \in ToSet(queue) \cup ToSet(batch) :
        e.life = c[1] /\ e.object = c[2] /\ c[3] \in e.mask

(* Order and map of the process cache agree and stay within the capacity,   *)
(* also when the loader's exec, an expiry and an eviction meet.             *)
ProcessesAgree == Procs!ProcessesConsistent(processes)
=============================================================================
