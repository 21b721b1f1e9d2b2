------------------------------- MODULE Learning -------------------------------
(****************************************************************************)
(* What audit mode learns (src/src/learning.rs): for every configuration    *)
(* root the programs that used it, and as its owner the only one that did.  *)
(****************************************************************************)
EXTENDS Service

CONSTANTS
    Programs,   \* subject names
    Visited     \* the directories they use files in

ASSUME LearningAssumption == Visited \subseteq Dirs

VARIABLES
    observations,  \* AuditLearner::observations, without their counts
    learned,       \* the output file: pairs of a root and its owner
    uses           \* history: what the policy made of the same accesses

learningVars == <<observations, learned, uses>>

LearningInit == observations = {} /\ learned = {} /\ uses = {}

NoRoot == <<>>

(* The directory below ~/.config that holds a path; no other part of the    *)
(* home directory is in the tree.                                           *)
ConfigRootForHome(p) ==
    IF Below(p, ConfigDir) /\ p # ConfigDir THEN SubSeq(p, 1, Len(ConfigDir) + 1)
    ELSE NoRoot

FirstAlias(p, pairs) == SelectInSeq(pairs, LAMBDA a : Below(p, a.real))

ConfigRootForHomeOrAlias(p, pairs) ==
    IF ConfigRootForHome(p) # NoRoot THEN ConfigRootForHome(p)
    ELSE LET n == FirstAlias(p, pairs)
         IN IF n = 0 THEN NoRoot ELSE pairs[n].logical

(* logical_policy_path: where the policy looks an access up. *)
LogicalPath(p, pairs) ==
    LET n == FirstAlias(p, pairs)
    IN IF n = 0 THEN p
       ELSE pairs[n].logical \o SubSeq(p, Len(pairs[n].real) + 1, Len(p))

(* Variant: every program that uses a root is an owner of it. *)
AllCandidates(seen) == {<<o[2], o[1]>> : o \in seen}

CandidateOwnedPaths(seen) ==
    {<<o[2], o[1]>> : o \in {p \in seen : \A q \in seen : q[2] = p[2] => q[1] = p[1]}}

(* An access the auditor has attributed to a program is observed and the    *)
(* whole file written again; if that fails the service ends.                *)
Observe(s, d) ==
    /\ pc = "serve" /\ mode = "audit"
    /\ Exists(d) /\ Watched(d)
    /\ LET root == ConfigRootForHomeOrAlias(at[d], learnerAliases)
           seen == observations \cup {<<s, root>>}
       IN /\ root # NoRoot
          /\ observations' = seen
          /\ learned' = CandidateOwnedPaths(seen)
    /\ uses' = uses \cup {<<s, ConfigRootForHome(LogicalPath(at[d], aliases))>>}
    /\ UNCHANGED <<treeVars, serviceVars>>

WriteFails(s, d) ==
    /\ pc = "serve" /\ mode = "audit" /\ deaths < MaxDeaths
    /\ Exists(d) /\ Watched(d)
    /\ LET root == ConfigRootForHomeOrAlias(at[d], learnerAliases)
       IN /\ root # NoRoot
          /\ learned' \in SUBSET CandidateOwnedPaths(observations \cup {<<s, root>>})
    /\ deaths' = deaths + 1
    /\ NoProcess
    /\ observations' = {} /\ uses' = {}
    /\ UNCHANGED <<treeVars, systemdVars>>

(* Nothing that was learned is read back: a new process starts from nothing. *)
LearnerFollows ==
    /\ IF pc' = "serve" THEN UNCHANGED <<observations, uses>>
                       ELSE observations' = {} /\ uses' = {}
    /\ UNCHANGED learned
=============================================================================
