------------------------------- MODULE Service -------------------------------
(****************************************************************************)
(* The config-guard service from its start to readiness, and its restarts:  *)
(* the process resolves its scope, loads its policy, installs its marks,    *)
(* tells systemd that it is ready and serves (main.rs, fanotify.rs,         *)
(* fanotify/watch.rs, systemd_notify.rs); systemd keeps it running and, in  *)
(* guard mode, marks it as enforcing once it is ready (config/*.service).   *)
(****************************************************************************)
EXTENDS ConfigTree, Sieve

CONSTANTS
    Roots,      \* the --path arguments
    MaxDeaths   \* bound on deaths without a cause in the model

ASSUME ServiceAssumption ==
    /\ Roots \in Seq(FilePaths) /\ Roots # <<>>
    /\ MaxDeaths \in Nat

VARIABLES
    unit,           \* the mode in the unit systemd has loaded
    service,        \* where systemd is with it
    marker,         \* /run/config-guard/enforcing exists
    restarted,      \* NRestarts # 0
    pc, mode,       \* the process
    scope,          \* its watch roots, with those found through links
    excluded,       \* its excluded path
    aliases,        \* StaticPolicy::path_aliases
    learnerAliases, \* AuditLearner::path_aliases
    loaded,         \* its policy
    trees, todo,    \* roots and directories yet to be marked
    current,        \* the directory marked last, whose children come next
    marked,         \* directories (guard) or mounts (audit) with a mark
    notified,       \* READY=1 was sent; systemd may read it after a death
    deaths,
    moved           \* history: what has moved since the process started

processVars == <<pc, mode, scope, excluded, aliases, learnerAliases, loaded, trees, todo,
                 current, marked, notified, moved>>
systemdVars == <<unit, service, marker, restarted>>
serviceVars == <<processVars, systemdVars, deaths>>

Modes == {"audit", "guard"}
NoPolicy == PolicyFile("missing", {})

IsExcluded(p) == Below(p, excluded)

(* Every top-level directory is a mount of its own. *)
MountOf(p) == <<p[1]>>

NoProcess ==
    /\ pc' = "none" /\ mode' = "audit"
    /\ scope' = <<>> /\ excluded' = <<>>
    /\ aliases' = <<>> /\ learnerAliases' = <<>>
    /\ loaded' = NoPolicy
    /\ trees' = <<>> /\ todo' = <<>> /\ current' = <<>> /\ marked' = {}
    /\ moved' = {}
    /\ UNCHANGED notified

Launch ==
    /\ pc' = "scope" /\ mode' = unit /\ service' = "starting"
    /\ scope' = <<>> /\ excluded' = <<>>
    /\ aliases' = <<>> /\ learnerAliases' = <<>>
    /\ loaded' = NoPolicy
    /\ trees' = <<>> /\ todo' = <<>> /\ current' = <<>> /\ marked' = {}
    /\ notified' = FALSE
    /\ moved' = {}

ServiceInit ==
    /\ unit \in Modes /\ service = "starting"
    /\ marker = FALSE /\ restarted = FALSE
    /\ pc = "scope" /\ mode = unit
    /\ scope = <<>> /\ excluded = <<>>
    /\ aliases = <<>> /\ learnerAliases = <<>>
    /\ loaded = NoPolicy
    /\ trees = <<>> /\ todo = <<>> /\ current = <<>> /\ marked = {}
    /\ notified = FALSE /\ deaths = 0 /\ moved = {}

-----------------------------------------------------------------------------
(* The process.                                                             *)

(* canonicalize_scope_paths, for the roots and for the archive, which the   *)
(* unit file excludes.                                                      *)
ResolveScope ==
    /\ pc = "scope"
    /\ \A p \in ToSet(Roots) \cup {Archive} : IsDir(p)
    /\ scope' = [n \in DOMAIN Roots |-> Canonical(Roots[n])]
    /\ excluded' = Canonical(Archive)
    /\ pc' = "aliases"
    /\ UNCHANGED <<treeVars, systemdVars, deaths, mode, aliases, learnerAliases,
                   loaded, trees, todo, current, marked, notified, moved>>

(* The links directly in ~/.config that lead to directories, in the order   *)
(* of the directory, as pairs of where they lead and where they are.        *)
SymlinkAliases ==
    LET found == {l \in Links : Exists(l) /\ InDir(at[l], ConfigDir) /\ IsDir(at[l])}
    IN {[n \in DOMAIN s |-> [real |-> Canonical(at[s[n]]), logical |-> at[s[n]]]]
        : s \in SetToSeqs(found)}

(* Variant: the roots are taken as they are. *)
ScopeOnly(paths, pairs) == paths

ExpandScope(paths, pairs) ==
    FoldLeft(LAMBDA s, a : IF a.real \in ToSet(s)
                              \/ ~\E p \in ToSet(paths) : Below(a.logical, p)
                           THEN s ELSE Append(s, a.real),
             paths, pairs)

ReadAliases ==
    /\ pc = "aliases"
    /\ aliases' \in SymlinkAliases
    /\ scope' = ExpandScope(scope, aliases')
    /\ pc' = IF mode = "audit" THEN "learner" ELSE "policy"
    /\ UNCHANGED <<treeVars, systemdVars, deaths, mode, excluded, learnerAliases, loaded,
                   trees, todo, current, marked, notified, moved>>

(* AuditLearner::new reads the links again.  An unchanged directory is read *)
(* in the same order.                                                       *)
ReadLearnerAliases ==
    /\ pc = "learner"
    /\ learnerAliases' \in
           IF aliases \in SymlinkAliases THEN {aliases} ELSE SymlinkAliases
    /\ pc' = "policy"
    /\ UNCHANGED <<treeVars, systemdVars, deaths, mode, scope, excluded, aliases, loaded,
                   trees, todo, current, marked, notified, moved>>

(* Nothing is marked yet; audit mode marks mounts and excludes nothing. *)
LoadPolicy ==
    /\ pc = "policy" /\ Readable(policy)
    /\ loaded' = policy
    /\ trees' = IF mode = "guard" THEN Without(scope, {p \in ToSet(scope) : IsExcluded(p)})
                ELSE scope
    /\ pc' = IF trees' = <<>> THEN "notify" ELSE "mark"
    /\ UNCHANGED <<treeVars, systemdVars, deaths, mode, scope, excluded, aliases,
                   learnerAliases, todo, current, marked, notified, moved>>

(* Audit mode: one mark per root, on the mount that holds it. *)
MarkMount ==
    /\ pc = "mark" /\ mode = "audit" /\ IsDir(Head(trees))
    /\ marked' = marked \cup {MountOf(Canonical(Head(trees)))}
    /\ trees' = Tail(trees)
    /\ pc' = IF trees' = <<>> THEN "notify" ELSE "mark"
    /\ UNCHANGED <<treeVars, systemdVars, deaths, mode, scope, excluded, aliases,
                   learnerAliases, loaded, todo, current, notified, moved>>

(* Guard mode: the directory on top of the stack, else the next root.  The  *)
(* mark goes to the directory that is at its path by now.                   *)
NextPath == IF todo # <<>> THEN Last(todo) ELSE Head(trees)

MarkDirectory ==
    /\ pc = "mark" /\ mode = "guard" /\ IsDir(NextPath)
    /\ marked' = marked \cup {DirAt(NextPath)}
    /\ current' = NextPath
    /\ IF todo # <<>> THEN todo' = Front(todo) /\ UNCHANGED trees
                      ELSE trees' = Tail(trees) /\ UNCHANGED todo
    /\ pc' = "children"
    /\ UNCHANGED <<treeVars, systemdVars, deaths, mode, scope, excluded, aliases,
                   learnerAliases, loaded, notified, moved>>

(* The entries that are directories, by their path below p. *)
ChildDirectories(p) ==
    {q \in {p \o SubSeq(at[d], Len(at[d]), Len(at[d])) :
                d \in {e \in Dirs : Exists(e) /\ InDir(at[e], Canonical(p))}} :
        ~IsExcluded(q)}

ReadChildren ==
    /\ pc = "children" /\ IsDir(current)
    /\ \E s \in SetToSeqs(ChildDirectories(current)) : todo' = todo \o s
    /\ current' = <<>>
    /\ pc' = IF todo' = <<>> /\ trees = <<>> THEN "notify" ELSE "mark"
    /\ UNCHANGED <<treeVars, systemdVars, deaths, mode, scope, excluded, aliases,
                   learnerAliases, loaded, trees, marked, notified, moved>>

(* Variant: the notification goes out before the marks are in place. *)
NotifyBeforeMarks ==
    /\ pc = "mark" /\ ~notified
    /\ notified' = TRUE
    /\ UNCHANGED <<treeVars, systemdVars, deaths, pc, mode, scope, excluded, aliases,
                   learnerAliases, loaded, trees, todo, current, marked, moved>>

NotifyReady ==
    /\ pc = "notify"
    /\ notified' = TRUE
    /\ pc' = "serve"
    /\ UNCHANGED <<treeVars, systemdVars, deaths, mode, scope, excluded, aliases,
                   learnerAliases, loaded, trees, todo, current, marked, moved>>

(* A path that is gone, or a policy that cannot be read, ends the start. *)
StartFails ==
    /\ \/ pc = "scope" /\ \E p \in ToSet(Roots) \cup {Archive} : ~IsDir(p)
       \/ pc = "policy" /\ ~Readable(policy)
       \/ pc = "mark" /\ ~IsDir(NextPath)
       \/ pc = "children" /\ ~IsDir(current)
    /\ NoProcess
    /\ UNCHANGED <<treeVars, systemdVars, deaths>>

(* Any other error, at any time: the kernel refuses a mark or a read, the   *)
(* notification fails, the process is killed.  Its marks go with it.        *)
Dies ==
    /\ pc # "none" /\ deaths < MaxDeaths
    /\ deaths' = deaths + 1
    /\ NoProcess
    /\ UNCHANGED <<treeVars, systemdVars>>

-----------------------------------------------------------------------------
(* systemd.                                                                 *)

(* The start of a notify service ends with READY=1; guard mode then has an  *)
(* ExecStartPost to run.                                                    *)
ReadyReceived ==
    /\ service = "starting" /\ notified
    /\ service' = IF unit = "guard" THEN "post" ELSE "active"
    /\ UNCHANGED <<treeVars, processVars, unit, marker, restarted, deaths>>

TouchMarker ==
    /\ service = "post"
    /\ service' = "active" /\ marker' = TRUE
    /\ UNCHANGED <<treeVars, processVars, unit, restarted, deaths>>

(* The runtime directory, and the marker in it, go with the service. *)
DeathNoticed ==
    /\ service \in {"starting", "post", "active"} /\ pc = "none"
    /\ service' = "restarting" /\ marker' = FALSE
    /\ UNCHANGED <<treeVars, processVars, unit, restarted, deaths>>

Restart ==
    /\ service = "restarting"
    /\ restarted' = TRUE
    /\ Launch
    /\ UNCHANGED <<treeVars, unit, marker, deaths>>

ProcessSteps ==
    \/ ResolveScope \/ ReadAliases \/ ReadLearnerAliases \/ LoadPolicy
    \/ MarkMount \/ MarkDirectory \/ ReadChildren \/ NotifyReady \/ StartFails

SystemdSteps == ReadyReceived \/ TouchMarker \/ DeathNoticed \/ Restart

-----------------------------------------------------------------------------
(* What the service promises of its marks.                                  *)

(* is_watched_path and the mount for audit mode, the mark for guard mode. *)
Watched(d) ==
    IF mode = "guard" THEN d \in marked
    ELSE /\ MountOf(at[d]) \in marked
         /\ \E p \in ToSet(scope) : Below(at[d], p)
         /\ ~IsExcluded(at[d])

BelowRoot(q) == \E p \in ToSet(Roots) : Below(q, Canonical(p))

ShouldBeWatched(d) ==
    /\ ~Below(at[d], Canonical(Archive))
    /\ \/ BelowRoot(at[d])
       \/ \E l \in Links : /\ Exists(l) /\ InDir(at[l], ConfigDir) /\ BelowRoot(at[l])
                           /\ Below(at[d], Target[l])
=============================================================================
