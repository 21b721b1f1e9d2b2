------------------------------ MODULE ConfigHome ------------------------------
(****************************************************************************)
(* The service, the learner, reconcile and deploy.sh around one home        *)
(* directory and one policy file, while other programs change the           *)
(* directories.  An administrator runs one tool at a time.                  *)
(****************************************************************************)
EXTENDS Deployment, Learning, Reconcile

CONSTANTS
    MaxTools,        \* bound on the runs of either tool
    MaxDisturbances  \* and on these, the deaths and the changes together

ASSUME ToolAssumption == {MaxTools, MaxDisturbances} \subseteq Nat

VARIABLES tools

vars == <<treeVars, serviceVars, deployVars, learningVars, reconcileVars, tools>>

Init ==
    /\ TreeInit /\ ServiceInit /\ DeployInit /\ LearningInit /\ ReconcileInit
    /\ tools = 0

ToolEnded == deploy \in {"idle", "done", "failed", "interrupted"}
             /\ run \in {"idle", "done", "failed"}

MayDisturb == changes + deaths + tools < MaxDisturbances

(* What moves while a process lives is remembered until it ends. *)
OthersChange ==
    /\ MayDisturb
    /\ \E n \in Nodes : \E p \in Spots[n] : Change(n, p)
    /\ moved' = IF pc = "none" THEN moved
                ELSE moved \cup {n \in Nodes : at'[n] # at[n]}
    /\ UNCHANGED <<pc, mode, scope, excluded, aliases, learnerAliases, loaded, trees,
                   todo, current, marked, notified, systemdVars, deaths,
                   deployVars, learningVars, reconcileVars, tools>>

ProcessRuns ==
    /\ ProcessSteps
    /\ LearnerFollows
    /\ UNCHANGED <<deployVars, reconcileVars, tools>>

SystemdRuns ==
    /\ SystemdSteps
    /\ LearnerFollows
    /\ UNCHANGED <<deployVars, reconcileVars, tools>>

ProcessDies ==
    /\ MayDisturb /\ Dies
    /\ LearnerFollows
    /\ UNCHANGED <<deployVars, reconcileVars, tools>>

Learns ==
    /\ \E s \in Programs, d \in Visited : Observe(s, d) \/ (MayDisturb /\ WriteFails(s, d))
    /\ UNCHANGED <<deployVars, reconcileVars, tools>>

StartDeploy ==
    /\ ToolEnded /\ MayDisturb /\ tools < MaxTools /\ tools' = tools + 1
    /\ \E m \in Modes : BeginDeploy(m)
    /\ UNCHANGED <<learningVars, known, entries, content, began>>
    /\ run' = "idle"

Deploys ==
    /\ DeploySteps
    /\ LearnerFollows
    /\ UNCHANGED <<reconcileVars, tools>>

DeployGoesWrong ==
    /\ DeployFails \/ Interrupted
    /\ UNCHANGED <<learningVars, reconcileVars, tools>>

StartReconcile ==
    /\ ToolEnded /\ MayDisturb /\ tools < MaxTools /\ tools' = tools + 1
    /\ BeginReconcile
    /\ deploy' = IF deploy = "interrupted" THEN deploy ELSE "idle"
    /\ UNCHANGED <<serviceVars, learningVars, unitFile, selected>>

(* What reconcile moves, the process sees moving too. *)
Reconciles ==
    /\ ReconcileSteps
    /\ moved' = IF pc = "none" THEN moved
                ELSE moved \cup {n \in Nodes : at'[n] # at[n]}
    /\ UNCHANGED <<pc, mode, scope, excluded, aliases, learnerAliases, loaded, trees,
                   todo, current, marked, notified, systemdVars, deaths,
                   deployVars, learningVars, tools>>

Next ==
    \/ OthersChange \/ ProcessRuns \/ SystemdRuns \/ ProcessDies \/ Learns
    \/ StartDeploy \/ Deploys \/ DeployGoesWrong
    \/ StartReconcile \/ Reconciles

Spec == Init /\ [][Next]_vars

(* The process and systemd run on, and so does deploy.sh unless it is       *)
(* killed; nothing else needs to happen.                                    *)
FairSpec ==
    /\ Spec
    /\ WF_vars(ProcessRuns) /\ WF_vars(SystemdRuns) /\ WF_vars(Deploys)

-----------------------------------------------------------------------------
(* Once the service is ready, and as long as no link has moved, the         *)
(* directories that have stayed where they were since its start are watched *)
(* exactly if they are below a root, or below what a link in ~/.config      *)
(* leads to, and not in the archive, whatever was made, renamed or archived *)
(* next to them during the walk (watch.rs, expand_scope_with_aliases).  In  *)
(* audit mode this goes for later directories too (config-guard.md:51).     *)
MarkedExactly ==
    pc = "serve" /\ moved \cap Links = {} =>
        /\ \A d \in Dirs \ moved : Exists(d) => (Watched(d) <=> ShouldBeWatched(d))
        /\ mode = "audit" => \A d \in Dirs : Exists(d) =>
               (BelowRoot(at[d]) /\ ~Below(at[d], Canonical(Archive)) => Watched(d))

(* /run/config-guard/enforcing exists only for a guard that has its policy  *)
(* and its marks in place, or that has died since and systemd is about to   *)
(* notice (config-guard.md:63).                                             *)
MarkerMeansEnforcing ==
    marker => \/ pc = "serve" /\ mode = "guard" /\ Readable(loaded)
              \/ pc = "none" /\ service \in {"post", "active"}

(* No service serves with a policy that an installation was still writing:  *)
(* deploy.sh stops it before it replaces the policy (config-guard.md:123).  *)
WholePolicyInstalled == loaded.state # "installing"

(* When deploy.sh has reported success, what serves is the selected mode    *)
(* with the installed policy, whatever died or was restarted meanwhile.     *)
DeployedServes ==
    deploy = "done" /\ pc = "serve" =>
        mode = selected /\ loaded = PolicyFile("whole", Deployed)

(* Unless the policy file is damaged, nothing it covers is archived, with   *)
(* the rules the run itself has added (config-guard.md:90).                 *)
ConfiguredKept ==
    [][policy.state = "whole" /\ Reconciles =>
        \A n \in Nodes : at'[n] # at[n] /\ Exists(n) => ~Covers(policy.rules, at[n])]_vars

(* A run of reconcile that ends in success, without other changes to the    *)
(* tree meanwhile, has left nothing to do: every directory in ~/.config is  *)
(* covered by the policy file as it is then, or is the archive              *)
(* (plan_reconcile).  If the archive is a link, what is put where it leads  *)
(* can bring another link to life, which the run has passed over.           *)
ReconcileSettles ==
    run = "done" /\ began = changes /\ policy.state = "whole"
    /\ Canonical(Archive) = Archive =>
        \A n \in Nodes : Exists(n) /\ InDir(at[n], ConfigDir) /\ IsDir(at[n]) =>
            at[n] = Archive \/ Covers(policy.rules, at[n])

(* Whatever owner the learner has written for a root, no other program has  *)
(* used what the policy takes for that root since the service started, if   *)
(* the two readings of the links have found the same, wherever links have   *)
(* gone since (learning.rs, logical_policy_path).                           *)
LearnedOwnersAlone ==
    pc = "serve" /\ observations # {} /\ aliases = learnerAliases =>
        \A l \in learned, u \in uses : u[2] = l[1] => u[1] = l[2]

(* With nothing in the way the service is always up again in the end: after *)
(* deaths, failed walks, failed and completed deployments (Restart=always,  *)
(* restore_service_after_failed_install).                                   *)
Startable ==
    /\ Readable(policy)
    /\ \A p \in ToSet(Roots) \cup {Archive} : IsDir(p)
    /\ deploy # "interrupted"

Recovers == <>[]Startable => <>[](pc = "serve")
=============================================================================
