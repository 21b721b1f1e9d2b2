-------------------------------- MODULE Policy --------------------------------
(****************************************************************************)
(* The policy (src/src/policy.rs): what a subject may do to a target by a   *)
(* configuration, as a function.  A path is the sequence of its components. *)
(****************************************************************************)
EXTENDS Integers, FiniteSets, SequencesExt

CONSTANTS
    Begins,      \* pairs of names: the second's bytes start with the first's
    Gitignore,   \* the name ".gitignore"
    None

FileName(path) == Last(path)
StartsWith(path, prefix) == IsPrefix(prefix, path)

(* Bytes instead of components: the last component may be a mere beginning. *)
BytesStartWith(path, prefix) ==
    \/ prefix = <<>>
    \/ /\ Len(prefix) <= Len(path)
       /\ StartsWith(path, Front(prefix))
       /\ <<Last(prefix), path[Len(prefix)]>> \in Begins

-----------------------------------------------------------------------------
(* A subject has an executable and the executables of its ancestors.  The   *)
(* rule strings of the configuration are records, by their prefix.          *)

SubjectName(s) == FileName(s.executable)

PlainRuleMatches(rule, s) ==
    \/ rule.kind = "any"
    \/ rule.kind = "name" /\ rule.name = SubjectName(s)
    \/ rule.kind = "exe" /\ rule.path = s.executable
    \/ rule.kind = "exe-prefix" /\ StartsWith(s.executable, rule.path)
    \/ /\ rule.kind = "exe-with-ancestor-prefix" /\ rule.path = s.executable
       /\ \E a \in ToSet(s.ancestors) : StartsWith(a, rule.ancestor)

AncestorMatches(rule, ancestor) ==
    \/ rule.kind = "name" /\ rule.name = FileName(ancestor)
    \/ rule.kind = "exe" /\ rule.path = ancestor
    \/ rule.kind = "exe-prefix" /\ StartsWith(ancestor, rule.path)

(* The subject part of a with-ancestor rule ends at the first bar, so it    *)
(* cannot be one itself.                                                    *)
SubjectMatches(rule, s) ==
    \/ PlainRuleMatches(rule, s)
    \/ /\ rule.kind = "with-ancestor" /\ PlainRuleMatches(rule.subject, s)
       /\ \E a \in ToSet(s.ancestors) : AncestorMatches(rule.ancestor, a)

SubjectsAllow(rules, s) == \E rule \in rules : SubjectMatches(rule, s)

-----------------------------------------------------------------------------
(* Variant: the first matching rule counts, not the most specific. *)
FirstOwner(config, target) ==
    LET n == SelectInSeq(config.owned, LAMBDA o : StartsWith(target, o.path))
    IN IF n = 0 THEN None ELSE config.owned[n]

(* The longest of the matching paths, the last of several that are equal.   *)
OwnerFor(config, target) ==
    LET owned == config.owned
        matching == {n \in DOMAIN owned : StartsWith(target, owned[n].path)}
        Before(m, n) == \/ Len(owned[m].path) < Len(owned[n].path)
                        \/ Len(owned[m].path) = Len(owned[n].path) /\ m <= n
    IN IF matching = {} THEN None
       ELSE owned[CHOOSE n \in matching : \A m \in matching : Before(m, n)]

OwnerAllows(owner, s) ==
    owner # None /\ (owner.owner = SubjectName(s) \/ SubjectsAllow(owner.allowed, s))

SharedPathAllows(config, s, target, access) ==
    \E shared \in config.shared :
        /\ IF shared.pathPrefix THEN BytesStartWith(target, shared.path)
           ELSE StartsWith(target, shared.path)
        /\ access \in shared.access
        /\ SubjectsAllow(shared.allowed, s)

SensitiveDevToolAccess(config, s, target) ==
    /\ SubjectsAllow(config.devTools, s)
    /\ \E path \in config.sensitive : StartsWith(target, path)

DefaultDecision(config) == IF config.failOpen THEN "Allow" ELSE "Deny"

(* A decision's reason is None unless it is a prompt.  Its scope is shown   *)
(* nowhere but in the log.                                                  *)
Settled(verdict) == [verdict |-> verdict, reason |-> None]
Prompted(kind, access) == [verdict |-> "Prompt", reason |-> <<kind, access>>]

(* Variant: what is shared is shared before strict owners are looked at. *)
DecideSharedFirst(config, s, target, access) ==
    LET owner == OwnerFor(config, target)
    IN IF \/ FileName(target) = Gitignore \/ OwnerAllows(owner, s)
          \/ SharedPathAllows(config, s, target, access) THEN Settled("Allow")
       ELSE IF owner # None /\ owner.denyNonOwner THEN Settled("Deny")
       ELSE IF SensitiveDevToolAccess(config, s, target)
            THEN Prompted("Sensitive", access)
       ELSE IF owner # None THEN Prompted("CrossOwner", access) ELSE Settled("Allow")

Decide(config, s, target, access) ==
    LET owner == OwnerFor(config, target)
    IN IF FileName(target) = Gitignore \/ OwnerAllows(owner, s) THEN Settled("Allow")
       ELSE IF owner # None /\ owner.denyNonOwner THEN Settled("Deny")
       ELSE IF SharedPathAllows(config, s, target, access) THEN Settled("Allow")
       ELSE IF SensitiveDevToolAccess(config, s, target)
            THEN Prompted("Sensitive", access)
       ELSE IF owner # None THEN Prompted("CrossOwner", access) ELSE Settled("Allow")

(* The nearest ancestor with the name of a configured owner, by that name.  *)
AuthorizationOwner(config, s) ==
    LET n == SelectInSeq(s.ancestors, LAMBDA a :
                 \E o \in ToSet(config.owned) : o.owner = FileName(a))
    IN IF n = 0 THEN None ELSE FileName(s.ancestors[n])
=============================================================================
