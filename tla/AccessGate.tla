------------------------------ MODULE AccessGate ------------------------------
(****************************************************************************)
(* How an access is decided from end to end when accesses come one at a     *)
(* time: the policy, the two prompt caches and the user, as audit-prompt    *)
(* mode and (without the interleaving GuardLoop is about) guard mode put    *)
(* them together (src/src/fanotify/prompt_resolution.rs, src/src/prompt.rs, *)
(* src/src/main.rs).                                                        *)
(****************************************************************************)
EXTENDS Policy

CONSTANTS
    Configs,     \* names of the configurations to start with
    ConfigOf,    \* the PolicyConfig of each
    Aliases,     \* sequence of pairs of a real and a logical root
    Processes,   \* names of process generations
    IdentityOf,  \* the ProcessIdentity of each: pid, executable, argv0 and
                 \* start, maybe None, and ancestors with executable and start
    Targets,
    Modes,          \* of {"guard", "audit-prompt"}
    NeedsSession,   \* Prompt::requires_graphical_session
    Unknown,        \* the path "unknown"
    MaxDialogs,     \* bound on the different answers given
    MaxDefaults     \* and on the decisions cached before a default is

ASSUME GateAssumption ==
    /\ None \notin {"Allow", "Deny", "Prompt"}
    /\ Modes \subseteq {"guard", "audit-prompt"} /\ NeedsSession \in BOOLEAN
    /\ MaxDialogs \in Nat /\ MaxDefaults \in Nat

(* Owned rules and their paths are sequences. *)
ASSUME ConfigAssumption ==
    \A c \in {ConfigOf[n] : n \in Configs} :
        /\ {"owned", "shared", "devTools", "sensitive", "failOpen"} \subseteq DOMAIN c
        /\ c.owned \in Seq(ToSet(c.owned))
        /\ \A o \in ToSet(c.owned) : o.path \in Seq(ToSet(o.path))

(* No two processes have the same pid and the same start. *)
ASSUME GenerationAssumption ==
    \A p, q \in Processes :
        /\ IdentityOf[p].start # None
        /\ \A field \in {"pid", "start", "executable"} :
               IdentityOf[p][field] = IdentityOf[q][field]
        => p = q

ASSUME AncestryAssumption ==
    \A p \in Processes :
        LET length == Len(IdentityOf[p].ancestors)
        IN length \in Nat /\ DOMAIN IdentityOf[p].ancestors = 1..length

VARIABLES
    configured, mode, \* fixed at the start
    decisions,        \* PromptDecisionCache::decisions
    authorizations,   \* PromptDecisionCache::ancestry_authorizations
    last,             \* the access just decided, and how
    dialogs           \* history: the answers given in dialogs

vars == <<configured, mode, decisions, authorizations, last, dialogs>>

-----------------------------------------------------------------------------
config == ConfigOf[configured]

(* A close after writing is a write; in guard mode it is an event beside    *)
(* the open, evaluated like it though there is nobody left to hold up.      *)
AccessKinds == {"Read", "Write"}

Subject(p) ==
    [executable |-> IF p.executable # None THEN p.executable
                    ELSE IF p.argv0 # None THEN p.argv0 ELSE Unknown,
     ancestors |-> [n \in DOMAIN p.ancestors |-> p.ancestors[n].executable]]

(* Only the first alias whose real root matches is applied. *)
LogicalPath(target) ==
    LET n == SelectInSeq(Aliases, LAMBDA a : StartsWith(target, a.real))
    IN IF n = 0 THEN target
       ELSE Aliases[n].logical
                \o SubSeq(target, Len(Aliases[n].real) + 1, Len(target))

DecisionOn(p, target, access) ==
    Decide(config, Subject(IdentityOf[p]), LogicalPath(target), access)

(* Variant: a process without a start time has a key like any other. *)
KeyWithoutStart(p, decision) ==
    IF decision.verdict # "Prompt" \/ p.executable = None THEN None
    ELSE [pid |-> p.pid, start |-> p.start, executable |-> p.executable,
          reason |-> decision.reason]

(* The access kind is part of the reason here. *)
PromptKey(p, decision) ==
    IF decision.verdict # "Prompt" \/ p.executable = None \/ p.start = None
    THEN None
    ELSE [pid |-> p.pid, start |-> p.start, executable |-> p.executable,
          reason |-> decision.reason]

(* Where in the ancestry the first unbroken run of ancestors with the       *)
(* owner's name begins and ends.                                            *)
OwnerRun(p, owner) ==
    LET Matches(n) == FileName(p.ancestors[n].executable) = owner
    IN {n \in DOMAIN p.ancestors : \E first \in 1..n :
            /\ \A m \in first..n : Matches(m)
            /\ \A m \in 1..(first - 1) : ~Matches(m)}

(* Variant: only the end of the run needs to be verified. *)
UnverifiedChainRoot(p, owner) ==
    LET run == OwnerRun(p, owner)
        root == CHOOSE n \in run : \A m \in run : m <= n
    IN IF run = {} \/ p.ancestors[root].start = None THEN None
       ELSE p.ancestors[root].executable

(* The outermost ancestor of the run, if the start of each is known. *)
OwnerChainRoot(p, owner) ==
    LET run == OwnerRun(p, owner)
        outermost == {n \in run : n + 1 \notin run}
    IN IF outermost = {} \/ \E n \in run : p.ancestors[n].start = None THEN None
       ELSE p.ancestors[CHOOSE n \in outermost : TRUE].executable

(* The pair of executables an Allow would authorize; audit-prompt mode does *)
(* not ask for one.                                                         *)
Authorization(p, decision) ==
    LET owner == AuthorizationOwner(config, Subject(p))
        root == OwnerChainRoot(p, owner)
    IN IF \/ mode # "guard"
          \/ decision.verdict # "Prompt" \/ decision.reason[1] # "CrossOwner"
          \/ owner = None \/ p.executable = None \/ root = None
       THEN None ELSE <<p.executable, root>>

-----------------------------------------------------------------------------
Init ==
    /\ configured \in Configs /\ mode \in Modes
    /\ decisions = <<>> /\ authorizations = {}
    /\ last = None /\ dialogs = {}

Reply(v, decision) ==
    /\ last' = [evaluation |-> v, decision |-> decision]
    /\ UNCHANGED <<configured, mode>>

CacheDecision(key, decision) ==
    decisions' = IF key = None THEN decisions
                 ELSE [k \in DOMAIN decisions \cup {key} |->
                           IF k = key THEN decision ELSE decisions[k]]

(* Variant: the decisions of a process generation are not looked up. *)
ImmediateUncached(v) ==
    IF v.policyDecision.verdict # "Prompt" THEN v.policyDecision.verdict
    ELSE IF v.authorization \in authorizations THEN "Allow" ELSE None

(* Variant: what was decided for the process generation comes first. *)
ImmediateByKey(v) ==
    IF v.policyDecision.verdict # "Prompt" THEN v.policyDecision.verdict
    ELSE IF v.key \in DOMAIN decisions THEN decisions[v.key]
    ELSE IF v.authorization \in authorizations THEN "Allow" ELSE None

(* immediate_prompt_decision up to the graphical session *)
Immediate(v) ==
    IF v.policyDecision.verdict # "Prompt" THEN v.policyDecision.verdict
    ELSE IF v.authorization \in authorizations THEN "Allow"
    ELSE IF v.key \in DOMAIN decisions THEN decisions[v.key] ELSE None

(* evaluate_guard_access, or its counterpart in audit-prompt mode *)
Evaluation(p, target, access) ==
    LET identity == IdentityOf[p]
        decision == DecisionOn(p, target, access)
    IN [process |-> p, target |-> target, access |-> access,
        policyDecision |-> decision, key |-> PromptKey(identity, decision),
        authorization |-> Authorization(identity, decision)]

Settle(v) ==
    /\ Immediate(v) # None
    /\ Reply(v, Immediate(v))
    /\ UNCHANGED <<decisions, authorizations, dialogs>>

(* A backend that needs a session is not asked when the process has none.   *)
ApplyDefault(v) ==
    /\ Immediate(v) = None
    /\ NeedsSession
    /\ Cardinality(DOMAIN decisions) <= MaxDefaults
    /\ CacheDecision(v.key, DefaultDecision(config))
    /\ Reply(v, DefaultDecision(config))
    /\ UNCHANGED <<authorizations, dialogs>>

(* Variant: an Allow that no user gave authorizes the pair as well. *)
CacheAnyAnswer(key, authorization, decision, explicit) ==
    /\ CacheDecision(key, decision)
    /\ authorizations' = authorizations \cup
           (IF decision = "Allow" THEN {authorization} \ {None} ELSE {})

CacheAnswer(key, authorization, decision, explicit) ==
    /\ CacheDecision(key, decision)
    /\ authorizations' = authorizations \cup
           (IF explicit /\ decision = "Allow" THEN {authorization} \ {None} ELSE {})

Ask(v) ==
    LET Answered(d, explicit) ==
            /\ CacheAnswer(v.key, v.authorization, d, explicit)
            /\ Reply(v, d)
            /\ dialogs' = dialogs \cup
                   {[process |-> v.process, reason |-> v.policyDecision.reason,
                     authorization |-> v.authorization,
                     decision |-> d, explicit |-> explicit]}
    IN /\ Immediate(v) = None
       /\ Cardinality(dialogs) < MaxDialogs
       /\ \/ \E d \in {"Allow", "Deny"} : Answered(d, TRUE)
          \/ Answered(DefaultDecision(config), FALSE)

(* The backend fails: the default decides this access and nothing is kept.  *)
AskFails(v) ==
    /\ Immediate(v) = None
    /\ Reply(v, DefaultDecision(config))
    /\ UNCHANGED <<decisions, authorizations, dialogs>>

Decides ==
    /\ last = None
    /\ \E p \in Processes, target \in Targets, access \in AccessKinds :
       \E v \in {Evaluation(p, target, access)} :
           Settle(v) \/ ApplyDefault(v) \/ Ask(v) \/ AskFails(v)

(* process_event_buffer goes on to the next event. *)
NextEvent ==
    /\ last # None
    /\ last' = None
    /\ UNCHANGED <<configured, mode, decisions, authorizations, dialogs>>

Next == Decides \/ NextEvent

Spec == Init /\ [][Next]_vars

-----------------------------------------------------------------------------
(* Who is neither owner nor allowed by the most specific rule of a strictly *)
(* owned path is denied, whatever is shared, sensitive, open by default or  *)
(* was answered before (docs/specs/config-guard.md:21, 22).                 *)
StrictOwnershipHolds ==
    last # None =>
        LET target == LogicalPath(last.evaluation.target)
            owner == OwnerFor(config, target)
        IN /\ owner # None /\ owner.denyNonOwner
           /\ FileName(target) # Gitignore
           /\ ~OwnerAllows(owner, Subject(IdentityOf[last.evaluation.process]))
           => last.decision = "Deny"

(* An access the policy leaves to the user is decided other than by default *)
(* only by an explicit answer: one about the same process generation and    *)
(* the same reason, or an Allow for a cross-owner access by the same helper *)
(* under the same owner executable (docs/specs/config-guard.md:40-44).      *)
AnswerJustified ==
    last # None =>
        LET asked == last.evaluation
            reason == asked.policyDecision.reason
        IN /\ asked.policyDecision.verdict = "Prompt"
           /\ last.decision # DefaultDecision(config)
           => \E d \in dialogs :
                /\ d.explicit /\ d.decision = last.decision
                /\ \/ d.process = asked.process /\ d.reason = reason
                   \/ /\ d.decision = "Allow"
                      /\ "CrossOwner" = d.reason[1] /\ "CrossOwner" = reason[1]
                      /\ asked.authorization # None
                      /\ asked.authorization = d.authorization

(* Once a user has allowed a helper below an owner executable, whatever     *)
(* that pair does across owners is allowed, reads and writes of any         *)
(* process generation, also where the user had refused one of them before   *)
(* (docs/specs/config-guard.md:42).                                         *)
AllowCoversPair ==
    last # None =>
        LET pair == last.evaluation.authorization
        IN /\ pair # None
           /\ \E d \in dialogs :
                 d.explicit /\ d.decision = "Allow" /\ d.authorization = pair
           => last.decision = "Allow"

(* A pair is authorized only by a user's Allow for that very helper below   *)
(* that very owner executable, with the owner nearest to the helper and the *)
(* authorized one both verified (docs/specs/config-guard.md:43, 44).        *)
AuthorizationVerified ==
    \A pair \in authorizations : \E d \in dialogs :
        /\ d.explicit /\ d.decision = "Allow"
        /\ IdentityOf[d.process].executable = pair[1]
        /\ LET ancestors == IdentityOf[d.process].ancestors
           IN \E n \in DOMAIN ancestors :
               /\ ancestors[n].executable = pair[2]
               /\ \A m \in 1..n : FileName(ancestors[m].executable) = FileName(pair[2])
                                  => ancestors[m].start # None

(* Once decided for a process generation and a reason, never again: neither *)
(* a later answer nor a default replaces it, as long as accesses come one   *)
(* at a time.                                                               *)
AnswersFinal ==
    [][\A k \in DOMAIN decisions :
            k \in DOMAIN decisions' /\ decisions'[k] = decisions[k]]_vars

(* The order in which the configuration lists its owned paths is no matter  *)
(* as long as none is listed twice (docs/specs/config-guard.md:15).         *)
OrderOfRulesIrrelevant ==
    last # None /\ IsInjective([n \in DOMAIN config.owned |-> config.owned[n].path])
    => LET asked == last.evaluation
       IN Decide([config EXCEPT !.owned = Reverse(@)], Subject(IdentityOf[asked.process]),
                 LogicalPath(asked.target), asked.access) = asked.policyDecision

(* docs/specs/config-guard.md:42 selects the nearest verified ancestor with *)
(* an owner's name; the code takes the outermost of an unbroken run.        *)
NearestOwnerAuthorized ==
    \A pair \in authorizations : \E d \in dialogs :
        /\ d.explicit /\ d.decision = "Allow" /\ IdentityOf[d.process].executable = pair[1]
        /\ LET ancestors == IdentityOf[d.process].ancestors
               n == SelectInSeq(ancestors, LAMBDA a :
                        \E o \in ToSet(config.owned) : o.owner = FileName(a.executable))
           IN n # 0 /\ ancestors[n].executable = pair[2]
=============================================================================
