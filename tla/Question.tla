------------------------------- MODULE Question -------------------------------
(****************************************************************************)
(* A question of guard mode from the access to the answer: the process that *)
(* made it is identified, the prompt worker checks what was found once the  *)
(* question's turn has come, and a backend is asked (fanotify/guard.rs,     *)
(* process.rs, prompt.rs).  Questions come one at a time; GuardLoop is      *)
(* about those that wait meanwhile, AccessGate about the accesses that are  *)
(* settled without one.                                                     *)
(****************************************************************************)
EXTENDS ProcessInspection, PromptBackends

CONSTANTS
    Helper,       \* the pid the accesses come from
    Owners,       \* the programs with the name of the configured owner
    MaxAccesses   \* bound on the accesses

ASSUME QuestionAssumption ==
    Helper \in Pids /\ Owners \subseteq Programs /\ MaxAccesses \in Nat

VARIABLES
    stage,     \* what is being done about the access
    job,       \* the PromptJob: its key, authorization and environment
    accesses

vars == <<worldVars, inspectionVars, backendVars, stage, job, accesses>>

NoJob == [key |-> None, authorization |-> None, env |-> None]

Init ==
    /\ WorldInit /\ InspectionInit /\ BackendInit
    /\ stage = "idle" /\ job = NoJob /\ accesses = 0

-----------------------------------------------------------------------------
PromptKey == IF found.exe = None \/ found.start = None THEN None
             ELSE [pid |-> Helper, start |-> found.start, exe |-> found.exe]

(* Where the first unbroken run of owners is in the ancestry. *)
OwnerRun(ancestors) ==
    {n \in DOMAIN ancestors : \E first \in 1..n :
        /\ \A m \in first..n : ancestors[m].exe \in Owners
        /\ \A m \in 1..(first - 1) : ancestors[m].exe \notin Owners}

(* Its outermost process, if the start of each is known. *)
OwnerChainRoot(ancestors) ==
    LET run == OwnerRun(ancestors)
        outermost == {n \in run : n + 1 \notin run}
    IN IF outermost = {} \/ \E n \in run : ancestors[n].start = None THEN None
       ELSE ancestors[CHOOSE n \in outermost : TRUE]

Authorization == IF found.exe = None THEN None ELSE OwnerChainRoot(found.ancestors)

Access ==
    /\ stage = "idle" /\ accesses < MaxAccesses /\ Running(Helper)
    /\ accesses' = accesses + 1
    /\ stage' = "inspect"
    /\ BeginInspection
    /\ UNCHANGED <<worldVars, backendVars, job>>

Inspection ==
    /\ stage = "inspect" /\ Inspects(Helper)
    /\ UNCHANGED <<worldVars, backendVars, stage, job, accesses>>

(* The environment is read by pid once more, with or without a session in   *)
(* it; the job then waits.  A backend that needs a session is not asked     *)
(* without one.                                                             *)
QueuePrompt ==
    /\ stage = "inspect" /\ reading = "read"
    /\ \E env \in {EnvironOf(Helper), None} :
          IF backend = "authd" /\ env = None THEN stage' = "idle" /\ UNCHANGED job
          ELSE /\ job' = [key |-> PromptKey, authorization |-> Authorization, env |-> env]
               /\ stage' = "helper"
    /\ reading' = "none" /\ found' = Unknown
    /\ UNCHANGED <<worldVars, stat, held, depth, backendVars, accesses>>

(* Variant: a generation is not checked again. *)
Unchecked(process) == TRUE

StillCurrent(process) == process # None => IsCurrent(process.pid, process.start)

DropPrompt ==
    /\ stage \in {"helper", "owner"}
    /\ ~StillCurrent(IF stage = "helper" THEN job.key ELSE job.authorization)
    /\ stage' = "idle" /\ job' = NoJob
    /\ UNCHANGED <<worldVars, inspectionVars, backendVars, accesses>>

CheckHelper ==
    /\ stage = "helper" /\ StillCurrent(job.key)
    /\ stage' = "owner"
    /\ UNCHANGED <<worldVars, inspectionVars, backendVars, job, accesses>>

CheckOwner ==
    /\ stage = "owner" /\ StillCurrent(job.authorization)
    /\ Ask
    /\ stage' = "ask"
    /\ UNCHANGED <<worldVars, inspectionVars, job, accesses>>

Backend ==
    /\ BackendRuns \/ BackendFails
    /\ IF call' = "none" THEN stage' = "idle" /\ job' = NoJob ELSE UNCHANGED <<stage, job>>
    /\ UNCHANGED <<worldVars, inspectionVars, accesses>>

World ==
    /\ WorldActs
    /\ UNCHANGED <<inspectionVars, backendVars, stage, job, accesses>>

Outside ==
    /\ TimePasses \/ UserActs
    /\ UNCHANGED <<worldVars, inspectionVars, stage, job, accesses>>

Next ==
    \/ Access \/ Inspection \/ QueuePrompt \/ DropPrompt \/ CheckHelper \/ CheckOwner
    \/ Backend \/ World \/ Outside

Spec == Init /\ [][Next]_vars

(* The backend's code runs on and time passes. *)
FairSpec == Spec /\ WF_vars(Backend /\ BackendRuns) /\ WF_vars(Outside /\ TimePasses)

-----------------------------------------------------------------------------
(* When a question is put, the environment it takes its session from is     *)
(* that of the very generation it is about, and the ancestor an Allow would *)
(* authorize has run, in the very generation that was found, the executable *)
(* it is authorized by, whatever exited, was executed or took over a pid    *)
(* between any two reads (config-guard.md:41-44).                           *)
VerifiedWhenAsked ==
    stage = "ask" =>
        /\ job.key # None => job.env \in {None, job.key.start}
        /\ job.authorization # None =>
               <<job.authorization.pid, job.authorization.start, job.authorization.exe>> \in ran

(* Either backend is a prompt as the guard takes it: an explicit answer is  *)
(* the user's answer to that very question, however late authd's replies to *)
(* earlier questions come.                                                  *)
Asked == INSTANCE AskedQuestion
IsAskedQuestion == Asked!Spec

(* A question that is asked returns, with a user who never answers and an   *)
(* authd that never replies, as long as there is room for its connection    *)
(* (config-guard.md:36).                                                    *)
AskReturns ==
    []<>(Len(backlog) < Backlog) => (stage = "ask" ~> stage # "ask")
=============================================================================
