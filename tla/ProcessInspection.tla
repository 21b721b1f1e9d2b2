-------------------------- MODULE ProcessInspection --------------------------
(****************************************************************************)
(* How a process is identified from /proc (src/src/process.rs): by several  *)
(* reads, between which processes exit, execute and take over freed pids,   *)
(* and by the later check that a generation is still the current one.       *)
(****************************************************************************)
EXTENDS Naturals, SequencesExt

CONSTANTS
    Pids,          \* pids other than 0 and 1
    Root,          \* the pids 0 and 1
    Programs,
    RootProgram,   \* what Root runs
    FirstProcess,  \* the process each pid has at first, or Free
    Free,          \* no process
    None,
    MaxDepth,      \* how many ancestors are read (32)
    MaxWorld       \* bound on what processes do

Processes == [start : Nat, exe : Programs, parent : Pids \cup {Root}, zombie : BOOLEAN]

ASSUME InspectionAssumption ==
    /\ Root \notin Pids /\ RootProgram \in Programs
    /\ None \notin Programs \cup Nat
    /\ Free \notin Processes
    /\ FirstProcess \in [Pids -> Processes \cup {Free}]
    /\ \A p \in Pids : FirstProcess[p] # Free => FirstProcess[p].start = 0
    /\ MaxDepth \in Nat /\ MaxWorld \in Nat

VARIABLES
    procs,   \* the process of each pid, maybe a zombie
    starts,  \* the last start time given out
    ran,     \* history: what each generation has executed
    world,   \* how often processes have acted
    reading, \* which read of the inspection is next
    found,   \* the ProcessIdentity so far
    stat,    \* the stat whose parent is next
    held,    \* the first of the two reads of that parent
    depth    \* parents read

worldVars == <<procs, starts, ran, world>>
inspectionVars == <<reading, found, stat, held, depth>>

Process(start, exe, parent) ==
    [start |-> start, exe |-> exe, parent |-> parent, zombie |-> FALSE]

Present(p) == p \in Pids /\ procs[p] # Free
Running(p) == p = Root \/ (Present(p) /\ ~procs[p].zombie)
Program(p) == IF p = Root THEN RootProgram ELSE procs[p].exe

Unknown == [exe |-> None, start |-> None, ancestors |-> <<>>]

WorldInit ==
    /\ procs = FirstProcess
    /\ starts = 0
    /\ ran = {<<p, FirstProcess[p].start, FirstProcess[p].exe>> :
                  p \in {q \in Pids : FirstProcess[q] # Free}}
    /\ world = 0

InspectionInit ==
    /\ reading = "none" /\ found = Unknown
    /\ stat = None /\ held = None /\ depth = 0

-----------------------------------------------------------------------------
(* The processes.                                                           *)

Forks(p, q) ==
    /\ Running(p) /\ procs[q] = Free
    /\ starts' = starts + 1
    /\ procs' = [procs EXCEPT ![q] = Process(starts + 1, Program(p), p)]
    /\ ran' = ran \cup {<<q, starts + 1, Program(p)>>}

Executes(p, e) ==
    /\ Running(p) /\ procs[p].exe # e
    /\ procs' = [procs EXCEPT ![p].exe = e]
    /\ ran' = ran \cup {<<p, procs[p].start, e>>}
    /\ UNCHANGED starts

(* The children of a process that has exited are Root's. *)
Exits(p) ==
    /\ Running(p)
    /\ procs' = [q \in Pids |->
           IF q = p THEN [procs[p] EXCEPT !.zombie = TRUE]
           ELSE IF procs[q] # Free /\ procs[q].parent = p
                THEN [procs[q] EXCEPT !.parent = Root]
           ELSE procs[q]]
    /\ UNCHANGED <<starts, ran>>

IsReaped(p) ==
    /\ procs[p] # Free /\ procs[p].zombie
    /\ procs' = [procs EXCEPT ![p] = Free]
    /\ UNCHANGED <<starts, ran>>

WorldActs ==
    /\ world < MaxWorld /\ world' = world + 1
    /\ \E p \in Pids :
           \/ \E q \in Pids \cup {Root} : Forks(q, p)
           \/ \E e \in Programs : Executes(p, e)
           \/ Exits(p)
           \/ IsReaped(p)

-----------------------------------------------------------------------------
(* The reads.  A zombie has a stat but no exe, and its command is its name. *)
ExeOf(p) == IF Running(p) THEN Program(p) ELSE None
StatOf(p) == IF Present(p) THEN [start |-> procs[p].start, parent |-> procs[p].parent]
             ELSE None
EnvironOf(p) == IF Running(p) THEN procs[p].start ELSE None

IsCurrent(p, start) == Present(p) /\ procs[p].start = start

BeginInspection ==
    /\ reading' = "exe" /\ found' = Unknown
    /\ UNCHANGED <<stat, held, depth>>

EndInspection ==
    /\ reading' = "read"
    /\ stat' = None /\ held' = None /\ depth' = 0

ReadExe(p) ==
    /\ reading = "exe"
    /\ found' = [found EXCEPT !.exe = ExeOf(p)]
    /\ reading' = "command"
    /\ UNCHANGED <<stat, held, depth>>

(* Without a command or a start time the whole process is unknown. *)
ReadCommand(p) ==
    /\ reading = "command"
    /\ IF Present(p) THEN reading' = "start" /\ UNCHANGED <<found, stat, held, depth>>
       ELSE found' = Unknown /\ EndInspection

ReadStart(p) ==
    /\ reading = "start"
    /\ IF Present(p)
       THEN /\ found' = [found EXCEPT !.start = procs[p].start]
            /\ reading' = "stat"
            /\ UNCHANGED <<stat, held, depth>>
       ELSE found' = Unknown /\ EndInspection

(* The loop goes on from p, whose stat is s, after n parents. *)
NextAncestor(p, s, n) ==
    IF s = None \/ s.parent = Root \/ s.parent = p \/ n = MaxDepth
    THEN EndInspection
    ELSE reading' = "parent" /\ stat' = s /\ held' = None /\ depth' = n

ReadStat(p) ==
    /\ reading = "stat"
    /\ UNCHANGED found
    /\ NextAncestor(p, StatOf(p), 0)

Ancestor(p, exe, s) ==
    [pid |-> p, exe |-> exe, start |-> IF s = None THEN None ELSE s.start]

Found(p, exe, s) ==
    /\ found' = IF exe = None THEN found
                ELSE [found EXCEPT !.ancestors = Append(@, Ancestor(p, exe, s))]
    /\ NextAncestor(p, s, depth + 1)

FirstReadOf(p, value) ==
    /\ reading = "parent"
    /\ held' = value
    /\ reading' = "parentNext"
    /\ UNCHANGED <<found, stat, depth>>

(* Variant: an ancestor's executable is read before its start time. *)
ReadParentExeFirst ==
    \/ FirstReadOf(stat.parent, ExeOf(stat.parent))
    \/ reading = "parentNext" /\ Found(stat.parent, held, StatOf(stat.parent))

(* An ancestor's start time is read before its executable. *)
ReadParent ==
    \/ FirstReadOf(stat.parent, StatOf(stat.parent))
    \/ reading = "parentNext" /\ Found(stat.parent, ExeOf(stat.parent), held)

Inspects(p) ==
    ReadExe(p) \/ ReadCommand(p) \/ ReadStart(p) \/ ReadStat(p) \/ ReadParent
=============================================================================
