--------------------------- MODULE ConfigHomeProofs ---------------------------
(****************************************************************************)
(* What the marker and a deployment stand for, what reconcile leaves alone  *)
(* and behind, and what the learner writes, proved for every tree, every    *)
(* policy and any number of deaths, deployments and reconciliations.        *)
(****************************************************************************)
EXTENDS ConfigHome, SequenceFacts

(* Where the process has its policy. *)
HasPolicy == pc \in {"mark", "children", "notify", "serve"}

Whole == PolicyFile("whole", Deployed)

(* The process, as systemd knows it. *)
ServiceInv ==
    /\ service \in {"stopped", "restarting"} => pc = "none"
    /\ pc # "none" => mode = unit
    /\ notified => pc \in {"none", "serve"}
    /\ service \in {"post", "active"} => pc \in {"none", "serve"}
    /\ service = "post" => unit = "guard"
    /\ marker => service = "active" /\ unit = "guard"
    /\ HasPolicy => Readable(loaded)
    /\ loaded.state # "installing"

(* deploy.sh works on a service that is stopped, then on what it installed. *)
DeployInv ==
    /\ deploy \in {"config", "copy", "unit", "reload", "restart"} => service = "stopped"
    /\ policy.state = "installing" => deploy = "copy"
    /\ deploy \in {"unit", "reload", "restart", "wait", "verify", "marker", "done"} =>
           policy = Whole
    /\ deploy \in {"reload", "restart", "wait", "verify", "marker", "done"} =>
           unitFile = selected
    /\ deploy \in {"restart", "wait", "verify", "marker", "done"} => unit = selected
    /\ deploy \in {"wait", "verify", "marker", "done"} /\ HasPolicy => loaded = Whole

(* One tool at a time. *)
ToolInv ==
    /\ run \in {"list", "plan", "write"} => deploy \in {"idle", "interrupted"}
    /\ content.state # "installing"

Inv == ServiceInv /\ DeployInv /\ ToolInv

-----------------------------------------------------------------------------
LEMMA StateOfFile == \A s, r : PolicyFile(s, r).state = s
BY DEF PolicyFile

(* What a write that ends early leaves is never taken for an installation.  *)
LEMMA StateOfCut ==
    ASSUME NEW rules, NEW f \in CutShort("cut", rules)
    PROVE  f.state # "installing"
BY StateOfFile DEF CutShort

LEMMA InitInv == Init => Inv
<1> SUFFICES ASSUME Init PROVE Inv OBVIOUS
<1>1. /\ pc = "scope" /\ service = "starting" /\ mode = unit /\ marker = FALSE
      /\ notified = FALSE /\ loaded.state = "missing"
  BY StateOfFile DEF Init, ServiceInit, NoPolicy
<1>2. /\ deploy = "idle" /\ run = "idle" /\ policy.state = "whole" /\ content = policy
  BY StateOfFile DEF Init, TreeInit, DeployInit, ReconcileInit
<1> QED BY <1>1, <1>2 DEF Inv, ServiceInv, DeployInv, ToolInv, HasPolicy

(* A start goes through its steps in order, and takes the policy as it is   *)
(* when it comes to it.                                                     *)
LEMMA ProcessGoesOn ==
    ASSUME ProcessSteps
    PROVE  /\ UNCHANGED <<treeVars, systemdVars>>
           /\ \/ /\ pc' = "none" /\ loaded' = NoPolicy /\ notified' = notified
              \/ /\ mode' = mode /\ pc # "none"
                 /\ \/ /\ pc \in {"scope", "aliases", "learner"}
                       /\ pc' \in {"aliases", "learner", "policy"}
                       /\ UNCHANGED <<loaded, notified>>
                    \/ /\ pc = "policy" /\ pc' \in {"mark", "notify"} /\ Readable(policy)
                       /\ loaded' = policy /\ notified' = notified
                    \/ /\ pc \in {"mark", "children"}
                       /\ pc' \in {"mark", "children", "notify"}
                       /\ UNCHANGED <<loaded, notified>>
                    \/ /\ pc = "notify" /\ pc' = "serve" /\ loaded' = loaded
BY DEF ProcessSteps, ResolveScope, ReadAliases, ReadLearnerAliases, LoadPolicy, MarkMount,
       MarkDirectory, ReadChildren, NotifyReady, StartFails, NoProcess

LEMMA ProcessKeeps ==
    ASSUME Inv, ProcessRuns
    PROVE  Inv'
<1>1. /\ ProcessSteps /\ UNCHANGED <<deployVars, reconcileVars>>
  BY DEF ProcessRuns
<1>2. /\ UNCHANGED <<policy, unit, service, marker, unitFile, deploy, selected, run, content>>
  BY <1>1, ProcessGoesOn DEF treeVars, systemdVars, deployVars, reconcileVars
<1>3. NoPolicy.state = "missing" BY StateOfFile DEF NoPolicy
<1>4. ServiceInv'
  BY <1>1, <1>2, <1>3, ProcessGoesOn DEF Inv, ServiceInv, DeployInv, HasPolicy, Readable
<1>5. DeployInv'
  BY <1>1, <1>2, ProcessGoesOn DEF Inv, DeployInv, HasPolicy, Whole
<1>6. ToolInv' BY <1>2 DEF Inv, ToolInv
<1> QED BY <1>4, <1>5, <1>6 DEF Inv

(* A process that ends takes everything but its last word with it.          *)
LEMMA DeathKeeps ==
    ASSUME Inv, NoProcess,
           UNCHANGED <<policy, unit, service, marker, unitFile, deploy, selected, run, content>>
    PROVE  Inv'
<1>1. pc' = "none" /\ loaded'.state = "missing" /\ notified' = notified
  BY StateOfFile DEF NoProcess, NoPolicy
<1> QED
  BY <1>1 DEF Inv, ServiceInv, DeployInv, ToolInv, HasPolicy, Whole

(* A new process starts with the unit that is loaded.                       *)
LEMMA LaunchKeeps ==
    ASSUME ServiceInv, Launch, service \in {"stopped", "restarting"},
           UNCHANGED <<unit, marker>>
    PROVE  ServiceInv' /\ ~HasPolicy'
<1>1. /\ pc' = "scope" /\ mode' = unit /\ service' = "starting"
      /\ loaded'.state = "missing" /\ notified' = FALSE
  BY StateOfFile DEF Launch, NoPolicy
<1> QED BY <1>1 DEF ServiceInv, HasPolicy

LEMMA SystemdKeeps ==
    ASSUME Inv, SystemdRuns
    PROVE  Inv'
<1>1. /\ SystemdSteps /\ UNCHANGED <<unit, policy, unitFile, deploy, selected, run, content>>
  BY DEF SystemdRuns, SystemdSteps, ReadyReceived, TouchMarker, DeathNoticed, Restart,
         treeVars, deployVars, reconcileVars
<1>2. ToolInv' BY <1>1 DEF Inv, ToolInv
<1>3. CASE ReadyReceived \/ TouchMarker \/ DeathNoticed
  <2>1. /\ UNCHANGED <<pc, mode, loaded, notified>>
        /\ service \notin {"stopped"}
        /\ \/ /\ service = "starting" /\ notified /\ marker' = marker
              /\ service' = IF unit = "guard" THEN "post" ELSE "active"
           \/ service = "post" /\ service' = "active" /\ marker' = TRUE
           \/ pc = "none" /\ service' = "restarting" /\ marker' = FALSE
    BY <1>3 DEF ReadyReceived, TouchMarker, DeathNoticed, processVars
  <2>2. ServiceInv' BY <1>1, <2>1 DEF Inv, ServiceInv, HasPolicy, Readable
  <2>3. DeployInv' BY <1>1, <2>1 DEF Inv, DeployInv, HasPolicy, Whole
  <2> QED BY <1>2, <2>2, <2>3 DEF Inv
<1>4. CASE Restart
  <2>1. service = "restarting" /\ Launch /\ marker' = marker BY <1>4 DEF Restart
  <2>2. ServiceInv' /\ ~HasPolicy' BY <1>1, <2>1, LaunchKeeps DEF Inv
  <2>3. DeployInv' BY <1>1, <2>1, <2>2 DEF Inv, DeployInv, Whole
  <2> QED BY <1>2, <2>2, <2>3 DEF Inv
<1> QED BY <1>1, <1>3, <1>4 DEF SystemdSteps

(* deploy.sh, command by command, up to its verification.                   *)
LEMMA InstallationKeeps ==
    ASSUME Inv, StopService \/ OpenConfig \/ CopyConfig \/ InstallUnit \/ ReloadUnit,
           UNCHANGED reconcileVars
    PROVE  Inv'
<1>1. Whole.state = "whole" /\ PolicyFile("installing", {}).state = "installing"
  BY StateOfFile DEF Whole
<1>2. run \notin {"list", "plan", "write"}
  BY DEF Inv, ToolInv, StopService, OpenConfig, CopyConfig, InstallUnit, ReloadUnit
<1>3. ToolInv' BY <1>2 DEF Inv, ToolInv, reconcileVars
<1>4. CASE StopService
  <2>1. /\ deploy = "stop" /\ deploy' = "config" /\ service' = "stopped" /\ marker' = FALSE
        /\ pc' = "none" /\ loaded'.state = "missing"
        /\ UNCHANGED <<policy, unit, unitFile, selected>>
    BY <1>4, StateOfFile DEF StopService, NoProcess, NoPolicy, treeVars
  <2> QED BY <1>3, <2>1 DEF Inv, ServiceInv, DeployInv, HasPolicy
<1>5. CASE OpenConfig \/ CopyConfig \/ InstallUnit
  <2>1. /\ deploy \in {"config", "copy", "unit"} /\ UNCHANGED <<serviceVars, selected>>
        /\ \/ deploy' = "copy" /\ UNCHANGED unitFile
           \/ deploy' = "unit" /\ policy' = Whole /\ UNCHANGED unitFile
           \/ deploy = "unit" /\ deploy' = "reload" /\ unitFile' = selected
              /\ UNCHANGED policy
    BY <1>5 DEF OpenConfig, CopyConfig, InstallUnit, treeVars, Whole
  <2>2. UNCHANGED <<pc, mode, loaded, notified, unit, service, marker>>
    BY <2>1 DEF serviceVars, processVars, systemdVars
  <2>3. ServiceInv' BY <2>2 DEF Inv, ServiceInv, HasPolicy, Readable
  <2>4. DeployInv' BY <1>1, <2>1, <2>2 DEF Inv, DeployInv, HasPolicy, Whole
  <2> QED BY <1>3, <2>3, <2>4 DEF Inv
<1>6. CASE ReloadUnit
  <2>1. /\ deploy = "reload" /\ deploy' = "restart" /\ unit' = unitFile
        /\ UNCHANGED <<policy, pc, mode, loaded, notified, service, marker, unitFile, selected>>
    BY <1>6 DEF ReloadUnit, treeVars, processVars
  <2>2. service = "stopped" /\ pc = "none" /\ ~marker
    BY <2>1 DEF Inv, ServiceInv, DeployInv
  <2>3. ServiceInv' BY <2>1, <2>2 DEF Inv, ServiceInv, HasPolicy
  <2>4. DeployInv' BY <2>1, <2>2 DEF Inv, DeployInv, HasPolicy, Whole
  <2> QED BY <1>3, <2>3, <2>4 DEF Inv
<1> QED BY <1>4, <1>5, <1>6

(* The restart, its verification, and the restoration after a failure.      *)
LEMMA RestartKeeps ==
    ASSUME Inv, RestartService \/ ServiceStarted \/ RestoreService \/ VerifyService
                \/ VerifyMarker,
           UNCHANGED reconcileVars
    PROVE  Inv'
<1>1. /\ UNCHANGED <<policy, unit, marker, unitFile, selected>>
      /\ deploy \in {"restart", "wait", "restore", "verify", "marker"}
      /\ \/ deploy \in {"restart", "wait", "verify", "marker"}
            /\ deploy' \in {"wait", "verify", "marker", "done", "failed"}
         \/ deploy' = "failed"
  BY DEF RestartService, ServiceStarted, RestoreService, VerifyService, VerifyMarker,
         treeVars, serviceVars, systemdVars
<1>2. run \notin {"list", "plan", "write"} BY <1>1 DEF Inv, ToolInv
<1>3. ToolInv' BY <1>2 DEF Inv, ToolInv, reconcileVars
<1>4. CASE RestartService \/ (RestoreService /\ service \in {"stopped", "restarting"})
  <2>1. Launch /\ service \in {"stopped", "restarting"}
    BY <1>4 DEF RestartService, RestoreService, Inv, DeployInv
  <2>2. ServiceInv' /\ ~HasPolicy' BY <1>1, <2>1, LaunchKeeps DEF Inv
  <2>3. DeployInv' BY <1>1, <2>2 DEF Inv, DeployInv, Whole
  <2> QED BY <1>3, <2>2, <2>3 DEF Inv
<1>5. CASE \/ RestoreService /\ service \notin {"stopped", "restarting"}
           \/ ServiceStarted \/ VerifyService \/ VerifyMarker
  <2>1. UNCHANGED <<pc, mode, loaded, notified, service>>
        /\ deploy # "restart"
    BY <1>5 DEF RestoreService, ServiceStarted, VerifyService, VerifyMarker, serviceVars,
                processVars, systemdVars
  <2>2. ServiceInv' BY <1>1, <2>1 DEF Inv, ServiceInv, HasPolicy, Readable
  <2>3. DeployInv' BY <1>1, <2>1 DEF Inv, DeployInv, HasPolicy, Whole
  <2> QED BY <1>3, <2>2, <2>3 DEF Inv
<1> QED BY <1>4, <1>5

(* A command that fails, or a script that is killed, leaves a policy that   *)
(* does not count as being installed.                                       *)
LEMMA DeployEndsKeeps ==
    ASSUME Inv, DeployFails \/ Interrupted, UNCHANGED reconcileVars
    PROVE  Inv'
<1>1. /\ UNCHANGED <<serviceVars, selected>> /\ LeftByInstall
      /\ deploy' \in {"restore", "interrupted"}
      /\ deploy \notin {"idle", "interrupted"}
  BY DEF DeployFails, Interrupted
<1>2. policy'.state # "installing"
  <2>1. CASE deploy = "copy"
    <3>1. policy' \in CutShort("cut", Deployed) \cup {PolicyFile("missing", {})}
      BY <1>1, <2>1 DEF LeftByInstall
    <3> QED BY <3>1, StateOfCut, StateOfFile
  <2>2. CASE deploy # "copy" BY <1>1, <2>2 DEF LeftByInstall, Inv, DeployInv
  <2> QED BY <2>1, <2>2
<1>3. UNCHANGED <<pc, mode, loaded, notified, unit, service, marker>>
  BY <1>1 DEF serviceVars, processVars, systemdVars
<1>4. ServiceInv' BY <1>3 DEF Inv, ServiceInv, HasPolicy, Readable
<1>5. DeployInv' BY <1>1, <1>2 DEF DeployInv
<1>6. ToolInv' BY <1>1 DEF Inv, ToolInv, reconcileVars
<1> QED BY <1>4, <1>5, <1>6 DEF Inv

(* A reconciliation runs alone and never reads a policy being installed.    *)
LEMMA ReconcileKeeps ==
    ASSUME Inv, Reconciles
    PROVE  Inv'
<1>1. /\ ReconcileSteps
      /\ UNCHANGED <<pc, mode, loaded, notified, unit, service, marker, unitFile, deploy, selected>>
  BY DEF Reconciles, systemdVars, deployVars
<1>2. run \in {"list", "plan", "write"}
  BY <1>1 DEF ReconcileSteps, ListEntries, KeepEntry, AssociateEntry, WritePolicy, MakeArchive,
              ArchiveEntry, ReconcileDone, ReconcileFails
<1>3. deploy \in {"idle", "interrupted"} /\ policy.state # "installing"
      /\ content.state # "installing"
  BY <1>2 DEF Inv, ToolInv, DeployInv
<1>4. policy'.state # "installing" /\ content'.state # "installing"
  <2>1. CASE AssociateEntry
    BY <1>3, <2>1, StateOfFile DEF AssociateEntry, RulesRead
  <2>2. CASE WritePolicy
    BY <1>3, <2>2, StateOfFile DEF WritePolicy
  <2>3. CASE ReconcileDone \/ ReconcileFails
    <3>1. content'.state # "installing"
      BY <2>3, StateOfFile DEF ReconcileDone, ReconcileFails, ReconcileEnds
    <3>2. policy' = policy \/ policy' \in CutShort("cut", content.rules)
      BY <2>3 DEF ReconcileDone, ReconcileFails, treeVars
    <3> QED BY <1>3, <3>1, <3>2, StateOfCut
  <2>4. CASE ListEntries \/ KeepEntry \/ MakeArchive \/ ArchiveEntry
    <3>1. policy' = policy /\ content' = content
      BY <2>4 DEF ListEntries, KeepEntry, MakeArchive, ArchiveEntry, treeVars, reconcileVars
    <3> QED BY <1>3, <3>1
  <2> QED BY <1>1, <2>1, <2>2, <2>3, <2>4 DEF ReconcileSteps
<1>5. ServiceInv' BY <1>1 DEF Inv, ServiceInv, HasPolicy, Readable
<1>6. DeployInv' BY <1>1, <1>3, <1>4 DEF Inv, DeployInv, HasPolicy
<1>7. ToolInv' BY <1>1, <1>3, <1>4 DEF Inv, ToolInv
<1> QED BY <1>5, <1>6, <1>7 DEF Inv

LEMMA StepKeepsInv == Inv /\ [Next]_vars => Inv'
<1> SUFFICES ASSUME Inv, [Next]_vars PROVE Inv' OBVIOUS
<1>1. ASSUME UNCHANGED <<policy, pc, mode, loaded, notified, unit, service, marker, unitFile,
                         deploy, selected, run, content>>
      PROVE  Inv'
  BY <1>1 DEF Inv, ServiceInv, DeployInv, ToolInv, HasPolicy, Readable, Whole
<1>2. CASE OthersChange
  BY <1>1, <1>2 DEF OthersChange, Change, systemdVars, deployVars, reconcileVars
<1>3. CASE ProcessRuns BY <1>3, ProcessKeeps
<1>4. CASE SystemdRuns BY <1>4, SystemdKeeps
<1>5. CASE ProcessDies
  BY <1>5, DeathKeeps DEF ProcessDies, Dies, treeVars, systemdVars, deployVars, reconcileVars
<1>6. CASE Learns
  <2>1. PICK s, d : Observe(s, d) \/ WriteFails(s, d) BY <1>6 DEF Learns
  <2>2. UNCHANGED <<deployVars, reconcileVars>> BY <1>6 DEF Learns
  <2>3. CASE Observe(s, d)
    BY <1>1, <2>2, <2>3 DEF Observe, treeVars, serviceVars, processVars, systemdVars,
                            deployVars, reconcileVars
  <2>4. CASE WriteFails(s, d)
    BY <2>2, <2>4, DeathKeeps DEF WriteFails, treeVars, systemdVars, deployVars, reconcileVars
  <2> QED BY <2>1, <2>3, <2>4
<1>7. CASE StartDeploy \/ StartReconcile
  <2>1. /\ UNCHANGED <<policy, pc, mode, loaded, notified, unit, service, marker, content>>
        /\ ToolEnded
        /\ \/ deploy' = "stop" /\ run' = "idle"
           \/ deploy' \in {"idle", "interrupted"} /\ run' = "list"
    BY <1>7 DEF StartDeploy, StartReconcile, BeginDeploy, BeginReconcile, treeVars, serviceVars,
                processVars, systemdVars
  <2>2. ServiceInv' BY <2>1 DEF Inv, ServiceInv, HasPolicy, Readable
  <2>3. DeployInv' BY <2>1 DEF Inv, DeployInv, ToolEnded
  <2>4. ToolInv' BY <2>1 DEF Inv, ToolInv
  <2> QED BY <2>2, <2>3, <2>4 DEF Inv
<1>8. CASE Deploys BY <1>8, InstallationKeeps, RestartKeeps DEF Deploys, DeploySteps
<1>9. CASE DeployGoesWrong BY <1>9, DeployEndsKeeps DEF DeployGoesWrong
<1>10. CASE Reconciles BY <1>10, ReconcileKeeps
<1>11. CASE UNCHANGED vars
  BY <1>1, <1>11 DEF vars, treeVars, serviceVars, processVars, systemdVars, deployVars,
                     reconcileVars
<1> QED
  BY <1>2, <1>3, <1>4, <1>5, <1>6, <1>7, <1>8, <1>9, <1>10, <1>11 DEF Next

-----------------------------------------------------------------------------
(* The marker is there only for a guard that serves with a policy, or that  *)
(* systemd is about to learn has died (the unit's ExecStartPost, sd_notify  *)
(* in run_event_loop).                                                      *)
THEOREM Marker == Spec => []MarkerMeansEnforcing
<1>1. Inv => MarkerMeansEnforcing
  BY DEF Inv, ServiceInv, HasPolicy, MarkerMeansEnforcing
<1> QED BY <1>1, InitInv, StepKeepsInv, PTL DEF Spec

(* No process ever reads a policy that deploy.sh is still writing.          *)
THEOREM WholePolicy == Spec => []WholePolicyInstalled
<1>1. Inv => WholePolicyInstalled BY DEF Inv, ServiceInv, WholePolicyInstalled
<1> QED BY <1>1, InitInv, StepKeepsInv, PTL DEF Spec

(* After a reported success what serves is what was deployed, through any   *)
(* number of deaths and restarts (verify_service).                          *)
THEOREM Installation == Spec => []DeployedServes
<1>1. Inv => DeployedServes
  BY DEF Inv, ServiceInv, DeployInv, HasPolicy, Whole, DeployedServes
<1> QED BY <1>1, InitInv, StepKeepsInv, PTL DEF Spec

-----------------------------------------------------------------------------
(* reconcile.                                                               *)

(* The tree and the policy are of paths. *)
TreeTyped ==
    /\ at \in [Nodes -> {Gone} \cup Paths]
    /\ changes \in Nat /\ began \in Nat /\ began <= changes
    /\ policy.rules \subseteq Paths

Entries == {p \in Paths : InDir(p, ConfigDir)}

(* Beyond the rules it has loaded, the run has added only those of entries  *)
(* it has dealt with.                                                       *)
Grown(rules, rest) ==
    /\ known.rules \subseteq rules
    /\ \A r \in rules \ known.rules : r \in Entries /\ r \notin ToSet(rest)

RunInv ==
    /\ run # "idle" => deploy \in {"idle", "interrupted"}
    /\ known.rules \subseteq Paths
    /\ run = "list" => policy.rules = known.rules
    /\ run \in {"plan", "write"} => entries \in Seq(Entries) /\ IsInjective(entries)
    /\ run = "plan" => Grown(policy.rules, entries)
    /\ run = "write" => entries # <<>> /\ Grown(content.rules, Tail(entries))

(* What of ~/.config has been dealt with, but for the rest. *)
Settled(rules, rest) ==
    \A n \in Nodes : Exists(n) /\ InDir(at[n], ConfigDir) /\ IsDir(at[n]) =>
        at[n] = Archive \/ Covers(rules, at[n]) \/ at[n] \in ToSet(rest)

ArchiveInPlace == Canonical(Archive) = Archive

SettledNow ==
    began = changes =>
        /\ run = "plan" => Settled(policy.rules, entries)
        /\ run = "write" => Settled(content.rules, Tail(entries))
        /\ run = "done" => Settled(policy.rules, <<>>)

SettledInv == ArchiveInPlace => SettledNow

-----------------------------------------------------------------------------
(* Paths.                                                                   *)
LEMMA BelowFacts ==
    /\ \A p \in Paths : Below(p, p) /\ Len(p) \in Nat
    /\ \A p, q, r \in Paths : Below(p, q) /\ Below(q, r) => Below(p, r)
    /\ \A p, q, r \in Paths : Below(p, q) /\ Below(p, r) => Below(q, r) \/ Below(r, q)
    /\ \A p, q \in Paths : Below(p, q) => Len(q) <= Len(p)
    /\ \A p, q \in Paths : Below(p, q) /\ Len(p) = Len(q) => p = q
<1>1. \A p \in Paths : Below(p, p) /\ Len(p) \in Nat BY PrefixSelf DEF Below, Paths
<1>2. \A p, q, r \in Paths : Below(p, q) /\ Below(q, r) => Below(p, r)
  BY PrefixTransitive DEF Below, Paths
<1>3. \A p, q, r \in Paths : Below(p, q) /\ Below(p, r) => Below(q, r) \/ Below(r, q)
  <2> SUFFICES ASSUME NEW p \in Paths, NEW q \in Paths, NEW r \in Paths,
                      Below(p, q), Below(p, r)
               PROVE  Below(q, r) \/ Below(r, q)
    OBVIOUS
  <2>1. Len(q) <= Len(r) \/ Len(r) <= Len(q) BY <1>1
  <2> QED BY <2>1, PrefixesCompare DEF Below, Paths
<1>4. \A p, q \in Paths : Below(p, q) => Len(q) <= Len(p) BY PrefixIs DEF Below, Paths
<1>5. \A p, q \in Paths : Below(p, q) /\ Len(p) = Len(q) => p = q
  BY PrefixSame DEF Below, Paths
<1> QED BY <1>1, <1>2, <1>3, <1>4, <1>5

(* Where a path that goes on from p as q does from its k-th name leads. *)
LEMMA BelowGoesOn ==
    ASSUME NEW p \in Paths, NEW q \in Paths, NEW k \in 0..Len(q)
    PROVE  /\ p \o SubSeq(q, k + 1, Len(q)) \in Paths
           /\ Len(p \o SubSeq(q, k + 1, Len(q))) = Len(p) + (Len(q) - k)
           /\ Below(p \o SubSeq(q, k + 1, Len(q)), p)
BY GoesOn DEF Below, Paths

LEMMA TreeTypes ==
    /\ FilePaths \subseteq Paths
    /\ \A l \in Links : l \in Nodes /\ Target[l] \in FilePaths /\ Target[l] \in Paths
    /\ FirstAt \in [Nodes -> {Gone} \cup FilePaths] /\ FirstAt \in [Nodes -> {Gone} \cup Paths]
    /\ \A n \in Nodes : \A p \in Spots[n] : p \in {Gone} \cup FilePaths /\ p \in {Gone} \cup Paths
<1>1. FilePaths \subseteq Paths BY DEF FilePaths
<1>2. /\ Target \in [Links -> FilePaths] /\ FirstAt \in [Nodes -> {Gone} \cup FilePaths]
      /\ Spots \in [Nodes -> SUBSET ({Gone} \cup FilePaths)]
  BY TreeAssumption
<1>3. FirstAt \in [Nodes -> {Gone} \cup Paths] BY <1>1, <1>2
<1>4. \A n \in Nodes : Spots[n] \in SUBSET ({Gone} \cup FilePaths) BY <1>2
<1> QED BY <1>1, <1>2, <1>3, <1>4 DEF Nodes

LEMMA TreeFacts ==
    /\ Gone \notin Paths /\ ConfigDir \in Paths /\ Archive \in Paths
    /\ Below(Archive, ConfigDir) /\ Len(Archive) = Len(ConfigDir) + 1
    /\ Deployed \subseteq Paths
BY TreeAssumption DEF InDir

(* The links a path goes through, one of which makes its canonical path.    *)
Through(p) == {l \in Links : Exists(l) /\ Below(p, at[l])}

CanonicalBy(p, l) == Target[l] \o SubSeq(p, Len(at[l]) + 1, Len(p))

LEMMA CanonicalIs ==
    ASSUME NEW p
    PROVE  Canonical(p) = IF Through(p) = {} THEN p
                          ELSE CanonicalBy(p, CHOOSE l \in Through(p) : TRUE)
BY DEF Canonical, Through, CanonicalBy

LEMMA CanonicalTyped ==
    ASSUME TreeTyped, NEW p \in Paths
    PROVE  Canonical(p) \in Paths
<1>1. CASE Through(p) = {} BY <1>1, CanonicalIs
<1>2. CASE Through(p) # {}
  <2>1. PICK l \in Through(p) : Canonical(p) = CanonicalBy(p, l) BY <1>2, CanonicalIs
  <2>2. l \in Links /\ at[l] \in Paths /\ Below(p, at[l]) /\ Target[l] \in Paths
    BY TreeTypes DEF Through, TreeTyped, Exists
  <2>3. Len(at[l]) \in 0..Len(p) BY <2>2, BelowFacts
  <2> QED BY <2>1, <2>2, <2>3, BelowGoesOn DEF CanonicalBy
<1> QED BY <1>1, <1>2

(* One name further on. *)
LEMMA AppendIs ==
    ASSUME NEW p \in Paths, NEW x \in Names
    PROVE  /\ Append(p, x) \in Paths /\ Append(p, x) \in FilePaths
           /\ Len(Append(p, x)) = Len(p) + 1
           /\ Below(Append(p, x), p) /\ Front(Append(p, x)) = p
<1>1. p \in Seq(Names) /\ Len(p) \in Nat BY DEF Paths
<1>2. /\ Append(p, x) \in Seq(Names) /\ Len(Append(p, x)) = Len(p) + 1
      /\ \A n \in 1..Len(p) : Append(p, x)[n] = p[n]
  BY <1>1, AppendProperties
<1>3. Len(p) <= Len(Append(p, x)) /\ \A n \in 1..Len(p) : p[n] = Append(p, x)[n]
  BY <1>1, <1>2
<1>4. IsPrefix(p, Append(p, x)) BY ONLY <1>1, <1>2, <1>3, PrefixIs
<1>5. Append(p, x) # <<>> BY <1>1, <1>2
<1>6. Front(Append(p, x)) = SubSeq(Append(p, x), 1, Len(p)) BY <1>1, <1>2 DEF Front
<1>7. SubSeq(p, 1, Len(p)) = p /\ SubSeq(p, 1, Len(p)) = SubSeq(Append(p, x), 1, Len(p))
  BY <1>1, <1>4 DEF IsPrefix
<1>8. Append(p, x) \in Paths BY <1>2 DEF Paths
<1> QED BY <1>2, <1>4, <1>5, <1>6, <1>7, <1>8 DEF Below, FilePaths

(* Where the archive leads, with the name an entry gets there. *)
LEMMA ArchivedIs ==
    ASSUME TreeTyped, NEW p \in Entries
    PROVE  \E x \in Names : Archived(p) = Append(Canonical(Archive), x)
<1>1. p \in Paths /\ Len(p) = Len(ConfigDir) + 1 /\ Len(ConfigDir) \in Nat
  BY TreeFacts, BelowFacts DEF Entries, InDir
<1>2. NameOf(p) \in Names BY <1>1 DEF Paths, NameOf, Last
<1>3. \A x \in Names : Last(Append(Archive, x)) = x
  <2> SUFFICES ASSUME NEW x \in Names PROVE Last(Append(Archive, x)) = x OBVIOUS
  <2>1. Archive \in Seq(Names) /\ Len(Archive) \in Nat BY TreeFacts DEF Paths
  <2>2. /\ Len(Append(Archive, x)) = Len(Archive) + 1
        /\ Append(Archive, x)[Len(Archive) + 1] = x
    BY <2>1, AppendProperties
  <2> QED BY <2>2 DEF Last
<1>4. Stamped[NameOf(p)] \in Names BY <1>2, ReconcileAssumption
<1>5. \/ ArchiveTarget(p) = Append(Archive, NameOf(p))
      \/ ArchiveTarget(p) = Append(Archive, Stamped[NameOf(p)])
  BY DEF ArchiveTarget
<1> QED BY <1>2, <1>3, <1>4, <1>5 DEF Archived

(* A rename moves what is below, to below. *)
LEMMA RenamedIs ==
    ASSUME TreeTyped, NEW n \in Nodes, Exists(n), NEW p \in Paths
    PROVE  /\ Renamed(n, p) \in [Nodes -> {Gone} \cup Paths]
           /\ \A m \in Nodes :
                 \/ /\ ~(Exists(m) /\ Below(at[m], at[n]))
                    /\ Renamed(n, p)[m] = at[m]
                 \/ /\ Exists(m) /\ Below(at[m], at[n])
                    /\ Renamed(n, p)[m] \in Paths
                    /\ Below(Renamed(n, p)[m], p)
<1>1. at[n] \in Paths BY DEF TreeTyped, Exists
<1>2. ASSUME NEW m \in Nodes, Exists(m) /\ Below(at[m], at[n])
      PROVE  LET new == p \o SubSeq(at[m], Len(at[n]) + 1, Len(at[m]))
             IN new \in Paths /\ Below(new, p)
  <2>1. at[m] \in Paths BY <1>2 DEF TreeTyped, Exists
  <2>2. Len(at[n]) \in 0..Len(at[m]) BY <1>1, <1>2, <2>1, BelowFacts
  <2> QED BY <2>1, <2>2, BelowGoesOn
<1>3. \A m \in Nodes : Renamed(n, p)[m] =
          IF Exists(m) /\ Below(at[m], at[n])
          THEN p \o SubSeq(at[m], Len(at[n]) + 1, Len(at[m])) ELSE at[m]
  BY DEF Renamed
<1>4. Renamed(n, p) = [m \in Nodes |-> Renamed(n, p)[m]] BY DEF Renamed
<1>5. \A m \in Nodes :
          \/ /\ ~(Exists(m) /\ Below(at[m], at[n]))
             /\ Renamed(n, p)[m] = at[m]
          \/ /\ Exists(m) /\ Below(at[m], at[n])
             /\ Renamed(n, p)[m] \in Paths
             /\ Below(Renamed(n, p)[m], p)
  BY <1>2, <1>3
<1>6. \A m \in Nodes : Renamed(n, p)[m] \in {Gone} \cup Paths
  BY <1>5 DEF TreeTyped
<1> HIDE DEF Renamed
<1>7. Renamed(n, p) \in [Nodes -> {Gone} \cup Paths]
  <2> DEFINE new == Renamed(n, p)
  <2>1. new = [m \in Nodes |-> new[m]] BY <1>4
  <2>2. \A m \in Nodes : new[m] \in {Gone} \cup Paths BY <1>6
  <2> HIDE DEF new
  <2>3. new \in [Nodes -> {Gone} \cup Paths] BY <2>1, <2>2
  <2> QED BY <2>3 DEF new
<1> QED BY <1>5, <1>7

-----------------------------------------------------------------------------
(* What is none of the run's, and changes the tree neither.                 *)
LEMMA Elsewhere ==
    ASSUME ProcessRuns \/ SystemdRuns \/ ProcessDies \/ Learns \/ Deploys \/ DeployGoesWrong
               \/ UNCHANGED vars
    PROVE  /\ UNCHANGED <<at, changes, run, known, entries, content, began>>
           /\ \/ UNCHANGED <<policy, deploy>>
              \/ /\ deploy \notin {"idle", "interrupted"}
                 /\ policy' = policy \/ policy'.rules \subseteq Deployed
<1>1. ASSUME UNCHANGED <<treeVars, deployVars, reconcileVars>>
      PROVE  UNCHANGED <<at, changes, run, known, entries, content, began, policy, deploy>>
  BY <1>1 DEF treeVars, deployVars, reconcileVars
<1>2. CASE ProcessRuns
  BY <1>1, <1>2, ProcessGoesOn DEF ProcessRuns
<1>3. CASE SystemdRuns
  BY <1>1, <1>3 DEF SystemdRuns, SystemdSteps, ReadyReceived, TouchMarker, DeathNoticed, Restart
<1>4. CASE ProcessDies BY <1>1, <1>4 DEF ProcessDies, Dies
<1>5. CASE Learns
  <2>1. PICK s, d : Observe(s, d) \/ WriteFails(s, d) BY <1>5 DEF Learns
  <2>2. UNCHANGED treeVars BY <2>1 DEF Observe, WriteFails
  <2> QED BY <1>1, <1>5, <2>2 DEF Learns
<1>6. CASE Deploys
  <2>1. UNCHANGED <<at, changes, run, known, entries, content, began>>
        /\ deploy \notin {"idle", "interrupted"}
    BY <1>6 DEF Deploys, DeploySteps, StopService, OpenConfig, CopyConfig, InstallUnit,
                ReloadUnit, RestartService, ServiceStarted, RestoreService, VerifyService,
                VerifyMarker, treeVars, reconcileVars
  <2>2. \/ policy' = policy
        \/ policy' \in {PolicyFile("installing", {}), PolicyFile("whole", Deployed)}
    BY <1>6 DEF Deploys, DeploySteps, StopService, OpenConfig, CopyConfig, InstallUnit,
                ReloadUnit, RestartService, ServiceStarted, RestoreService, VerifyService,
                VerifyMarker, treeVars
  <2> QED BY <2>1, <2>2 DEF PolicyFile
<1>7. CASE DeployGoesWrong
  <2>1. /\ UNCHANGED <<at, changes, run, known, entries, content, began>> /\ LeftByInstall
        /\ deploy \notin {"idle", "interrupted"}
    BY <1>7 DEF DeployGoesWrong, DeployFails, Interrupted, reconcileVars
  <2>2. \/ policy' = policy
        \/ policy' \in CutShort("cut", Deployed) \cup {PolicyFile("missing", {})}
    BY <2>1 DEF LeftByInstall
  <2> QED BY <2>1, <2>2 DEF PolicyFile, CutShort
<1>8. CASE UNCHANGED vars BY <1>1, <1>8 DEF vars
<1> QED BY <1>2, <1>3, <1>4, <1>5, <1>6, <1>7, <1>8

(* The entries that are yet to be dealt with, without the first.            *)
LEMMA TailOfEntries ==
    ASSUME entries \in Seq(Entries), IsInjective(entries), entries # <<>>
    PROVE  /\ entry \in Entries /\ entry \in Paths
           /\ Tail(entries) \in Seq(Entries) /\ IsInjective(Tail(entries))
           /\ ToSet(entries) = ToSet(Tail(entries)) \cup {entry}
           /\ entry \notin ToSet(Tail(entries))
<1>1. /\ Tail(entries) \in Seq(Entries) /\ IsInjective(Tail(entries))
      /\ Head(entries) \in ToSet(entries)
      /\ ToSet(Tail(entries)) = ToSet(entries) \ {Head(entries)}
  BY InjectiveTail
<1>2. ToSet(entries) \subseteq Entries BY ToSetIs
<1> QED BY <1>1, <1>2 DEF Entries, entry

-----------------------------------------------------------------------------
RunTypes ==
    /\ run \in {"plan", "write"} => entries \in Seq(Entries) /\ IsInjective(entries)
    /\ run = "write" => entries # <<>> /\ content.rules \subseteq Paths

LEMMA TypesOfRun == ASSUME TreeTyped, RunInv PROVE RunTypes
<1>1. known.rules \subseteq Paths /\ Entries \subseteq Paths BY DEF RunInv, Entries
<1>2. ASSUME run = "write" PROVE content.rules \subseteq Paths
  BY <1>1, <1>2 DEF RunInv, Grown
<1> QED BY <1>2 DEF RunInv, RunTypes

LEMMA RulesOf == \A s, r : PolicyFile(s, r).rules = r
BY DEF PolicyFile

(* What a run of reconcile does to the policy file and its own lists.       *)
LEMMA ReconcileActs ==
    ASSUME ReconcileSteps
    PROVE  /\ changes' = changes /\ known' = known
           /\ run \in {"list", "plan", "write"}
           /\ began' = began \/ began' = changes
           /\ \/ ListEntries
              \/ KeepEntry
              \/ /\ AssociateEntry
                 /\ policy'.rules = {} /\ content'.rules = policy.rules \cup {entry}
              \/ WritePolicy
              \/ MakeArchive \/ ArchiveEntry
              \/ ReconcileDone
              \/ /\ run' = "failed" /\ at' = at
                 /\ \/ policy' = policy
                    \/ run = "write" /\ policy'.rules \subseteq content.rules
<1>1. ASSUME ReconcileFails
      PROVE  policy' = policy \/ (run = "write" /\ policy'.rules \subseteq content.rules)
  <2>1. CASE run = "write"
    <3>1. policy' \in CutShort("cut", content.rules) BY <1>1, <2>1 DEF ReconcileFails
    <3> QED BY <2>1, <3>1, RulesOf DEF CutShort
  <2>2. CASE run # "write" BY <1>1, <2>2 DEF ReconcileFails
  <2> QED BY <2>1, <2>2
<1>2. ASSUME AssociateEntry
      PROVE  policy'.rules = {} /\ content'.rules = policy.rules \cup {entry}
  BY <1>2, RulesOf DEF AssociateEntry, RulesRead
<1>3. /\ changes' = changes /\ known' = known /\ run \in {"list", "plan", "write"}
      /\ began' = began \/ began' = changes
  BY DEF ReconcileSteps, ListEntries, KeepEntry, AssociateEntry, WritePolicy, MakeArchive,
         ArchiveEntry, ReconcileDone, ReconcileFails, treeVars, reconcileVars
<1>4. ReconcileFails => run' = "failed" /\ at' = at BY DEF ReconcileFails, ReconcileEnds
<1> QED BY <1>1, <1>2, <1>3, <1>4 DEF ReconcileSteps

(* The directories' paths, of which entries are listed.                     *)
LEMMA ListedIs ==
    ASSUME TreeTyped, ListEntries
    PROVE  /\ entries' \in Seq(Entries) /\ IsInjective(entries')
           /\ \A n \in Nodes : Exists(n) /\ InDir(at[n], ConfigDir) => at[n] \in ToSet(entries')
<1> DEFINE Listed == {at[n] : n \in {m \in Nodes : Exists(m) /\ InDir(at[m], ConfigDir)}}
<1>1. IsFiniteSet({m \in Nodes : Exists(m) /\ InDir(at[m], ConfigDir)})
  BY TreeAssumption, FS_Subset
<1>2. IsFiniteSet(Listed) BY <1>1, FiniteImage
<1>3. Listed \subseteq Entries BY DEF TreeTyped, Exists, Entries
<1>4. \A n \in Nodes : Exists(n) /\ InDir(at[n], ConfigDir) => at[n] \in Listed OBVIOUS
<1>5. entries' = SetToSeq(Listed) BY DEF ListEntries
<1> HIDE DEF Listed
<1>6. /\ entries' \in Seq(Listed) /\ IsInjective(entries') /\ ToSet(entries') = Listed
  BY <1>2, <1>5, SetInSequence
<1>7. entries' \in Seq(Entries) BY <1>3, <1>6
<1> QED BY <1>4, <1>6, <1>7

LEMMA MovedTyped ==
    ASSUME TreeTyped, NEW n \in Nodes, NEW p \in {Gone} \cup Paths,
           at' = IF Exists(n) /\ p # Gone THEN Renamed(n, p) ELSE [at EXCEPT ![n] = p]
    PROVE  at' \in [Nodes -> {Gone} \cup Paths]
<1>1. CASE Exists(n) /\ p # Gone BY <1>1, RenamedIs
<1>2. CASE ~(Exists(n) /\ p # Gone) BY <1>2 DEF TreeTyped
<1> QED BY <1>1, <1>2

LEMMA TypedStep ==
    ASSUME TreeTyped, RunInv, [Next]_vars
    PROVE  TreeTyped'
<1>1. CASE OthersChange
  <2>0. PICK n \in Nodes : \E p \in Spots[n] : Change(n, p) BY <1>1 DEF OthersChange
  <2>1. PICK p \in Spots[n] : Change(n, p) BY <2>0
  <2>2. p \in {Gone} \cup Paths BY TreeTypes
  <2>3. /\ changes' = changes + 1 /\ policy' = policy /\ began' = began
        /\ at' = IF Exists(n) /\ p # Gone THEN Renamed(n, p) ELSE [at EXCEPT ![n] = p]
    BY <1>1, <2>1 DEF OthersChange, Change, reconcileVars
  <2>4. at' \in [Nodes -> {Gone} \cup Paths] BY <2>2, <2>3, MovedTyped
  <2> QED BY <2>3, <2>4 DEF TreeTyped
<1>2. CASE ProcessRuns \/ SystemdRuns \/ ProcessDies \/ Learns \/ Deploys \/ DeployGoesWrong
               \/ UNCHANGED vars
  BY <1>2, Elsewhere, TreeFacts DEF TreeTyped
<1>3. CASE StartDeploy \/ StartReconcile
  BY <1>3 DEF StartDeploy, StartReconcile, BeginDeploy, BeginReconcile, treeVars, TreeTyped
<1>4. CASE Reconciles
  <2>1. ReconcileSteps BY <1>4 DEF Reconciles
  <2>2. changes' = changes /\ (began' = began \/ began' = changes) BY <2>1, ReconcileActs
  <2>3. at' \in [Nodes -> {Gone} \cup Paths]
    <3>1. CASE ArchiveEntry
      <4>1. PICK n \in Nodes : at[n] = entry /\ at' = Renamed(n, Archived(entry))
        BY <3>1 DEF ArchiveEntry
      <4>2. entry \in Entries /\ entry \in Paths
        BY <3>1, TailOfEntries DEF ArchiveEntry, RunInv
      <4>3. Exists(n) BY <4>1, <4>2, TreeFacts DEF Exists
      <4>4. Archived(entry) \in Paths BY <4>2, ArchivedIs, AppendIs, CanonicalTyped, TreeFacts
      <4> QED BY <4>1, <4>3, <4>4, RenamedIs
    <3>2. CASE MakeArchive BY <3>2, TreeFacts DEF MakeArchive, TreeTyped
    <3>3. CASE ~(ArchiveEntry \/ MakeArchive)
      <4>1. at' = at
        BY <2>1, <3>3, ReconcileActs
           DEF ListEntries, KeepEntry, AssociateEntry, WritePolicy, ReconcileDone, treeVars
      <4> QED BY <4>1 DEF TreeTyped
    <3> QED BY <3>1, <3>2, <3>3
  <2>4. policy'.rules \subseteq Paths
    <3>1. RunTypes BY TypesOfRun
    <3>2. \/ policy' = policy \/ policy'.rules = {}
          \/ run = "write" /\ policy'.rules \subseteq content.rules
      BY <2>1, ReconcileActs DEF ListEntries, KeepEntry, WritePolicy, MakeArchive, ArchiveEntry,
                                 ReconcileDone, treeVars
    <3> QED BY <3>1, <3>2 DEF RunTypes, TreeTyped
  <2> QED BY <2>2, <2>3, <2>4 DEF TreeTyped
<1> QED BY <1>1, <1>2, <1>3, <1>4 DEF Next

(* Without the first entry, and with a rule for it.                         *)
LEMMA GrownNext ==
    ASSUME RunInv, run \in {"plan", "write"}, entries # <<>>, NEW rules, Grown(rules, entries)
    PROVE  Grown(rules, Tail(entries)) /\ Grown(rules \cup {entry}, Tail(entries))
<1>1. /\ entry \in Entries /\ entry \notin ToSet(Tail(entries))
      /\ ToSet(Tail(entries)) \subseteq ToSet(entries)
  BY TailOfEntries DEF RunInv
<1> QED BY <1>1 DEF Grown

LEMMA RunStep ==
    ASSUME TreeTyped, RunInv, [Next]_vars
    PROVE  RunInv'
<1>1. CASE OthersChange
  BY <1>1 DEF OthersChange, Change, deployVars, reconcileVars, RunInv, Grown
<1>2. CASE ProcessRuns \/ SystemdRuns \/ ProcessDies \/ Learns \/ Deploys \/ DeployGoesWrong
               \/ UNCHANGED vars
  <2>1. UNCHANGED <<run, known, entries, content>> BY <1>2, Elsewhere
  <2>2. CASE UNCHANGED <<policy, deploy>> BY <2>1, <2>2 DEF RunInv, Grown
  <2>3. CASE deploy \notin {"idle", "interrupted"}
    <3>1. run = "idle" BY <2>3 DEF RunInv
    <3> QED BY <2>1, <3>1 DEF RunInv
  <2> QED BY <1>2, <2>2, <2>3, Elsewhere
<1>3. CASE StartDeploy
  <2>1. run' = "idle" /\ known' = known BY <1>3 DEF StartDeploy
  <2> QED BY <2>1 DEF RunInv
<1>4. CASE StartReconcile
  <2>1. /\ run' = "list" /\ policy' = policy /\ deploy' \in {"idle", "interrupted"}
        /\ known' = [rules |-> policy.rules, path |-> policy.state # "missing"]
    BY <1>4 DEF StartReconcile, BeginReconcile, treeVars
  <2>2. known'.rules = policy.rules BY <2>1
  <2> QED BY <2>1, <2>2 DEF RunInv, TreeTyped
<1>5. CASE Reconciles
  <2>1. ReconcileSteps /\ deploy' = deploy BY <1>5 DEF Reconciles, deployVars
  <2>2. known' = known /\ run \in {"list", "plan", "write"} BY <2>1, ReconcileActs
  <2>3. deploy' \in {"idle", "interrupted"} /\ known'.rules \subseteq Paths
    BY <2>1, <2>2 DEF RunInv
  <2>4. CASE ListEntries
    <3>1. run = "list" /\ run' = "plan" /\ policy' = policy BY <2>4 DEF ListEntries, treeVars
    <3>2. entries' \in Seq(Entries) /\ IsInjective(entries') BY <2>4, ListedIs
    <3>3. Grown(policy.rules, entries)' BY <2>2, <3>1 DEF RunInv, Grown
    <3> QED BY <2>3, <3>1, <3>2, <3>3 DEF RunInv
  <2>5. CASE KeepEntry \/ ArchiveEntry
    <3>1. /\ run = "plan" /\ run' = "plan" /\ policy' = policy
          /\ entries # <<>> /\ entries' = Tail(entries)
      BY <2>5 DEF KeepEntry, ArchiveEntry, treeVars
    <3>2. entries' \in Seq(Entries) /\ IsInjective(entries')
      BY <3>1, TailOfEntries DEF RunInv
    <3>3. Grown(policy.rules, Tail(entries)) BY <3>1, GrownNext DEF RunInv
    <3>4. Grown(policy.rules, entries)' BY <2>2, <3>1, <3>3 DEF Grown
    <3> QED BY <2>3, <3>1, <3>2, <3>4 DEF RunInv
  <2>6. CASE AssociateEntry
    <3>1. /\ run = "plan" /\ run' = "write" /\ entries # <<>> /\ entries' = entries
          /\ content'.rules = policy.rules \cup {entry}
      BY <2>6, RulesOf DEF AssociateEntry, RulesRead
    <3>2. Grown(policy.rules \cup {entry}, Tail(entries)) BY <3>1, GrownNext DEF RunInv
    <3>3. Grown(content.rules, Tail(entries))' BY <2>2, <3>1, <3>2 DEF Grown
    <3> QED BY <2>3, <3>1, <3>3 DEF RunInv
  <2>7. CASE WritePolicy
    <3>1. /\ run = "write" /\ run' = "plan" /\ policy' = content /\ entries' = Tail(entries)
      BY <2>7 DEF WritePolicy
    <3>2. entries' \in Seq(Entries) /\ IsInjective(entries')
      BY <3>1, TailOfEntries DEF RunInv
    <3>3. Grown(policy.rules, entries)' BY <2>2, <3>1 DEF RunInv, Grown
    <3> QED BY <2>3, <3>1, <3>2, <3>3 DEF RunInv
  <2>8. CASE MakeArchive
    <3>1. run = "plan" /\ UNCHANGED <<policy, run, entries, content, known>>
      BY <2>8 DEF MakeArchive, reconcileVars
    <3> QED BY <2>3, <3>1 DEF RunInv, Grown
  <2>9. CASE run' \in {"done", "failed"} BY <2>3, <2>9 DEF RunInv
  <2> QED BY <2>1, <2>4, <2>5, <2>6, <2>7, <2>8, <2>9, ReconcileActs
          DEF ReconcileDone, ReconcileEnds
<1> QED BY <1>1, <1>2, <1>3, <1>4, <1>5 DEF Next

LEMMA RunInit == Init => TreeTyped /\ RunInv
<1> SUFFICES ASSUME Init PROVE TreeTyped /\ RunInv OBVIOUS
<1>1. at = FirstAt /\ changes = 0 /\ began = 0 /\ policy.rules = Deployed
      /\ run = "idle" /\ known.rules = {}
  BY RulesOf DEF Init, TreeInit, ReconcileInit
<1>2. TreeTyped BY <1>1, TreeTypes, TreeFacts DEF TreeTyped
<1>3. RunInv BY <1>1 DEF RunInv
<1> QED BY <1>2, <1>3

LEMMA Reconciled == Spec => [](TreeTyped /\ RunInv)
<1>1. TreeTyped /\ RunInv /\ [Next]_vars => (TreeTyped /\ RunInv)' BY TypedStep, RunStep
<1> QED BY <1>1, RunInit, PTL DEF Spec

-----------------------------------------------------------------------------
(* What no loaded rule covers at an entry, none covers below it; and what   *)
(* the run has added is of other entries.                                   *)
LEMMA NotCoveredBelow ==
    ASSUME NEW rules, NEW rest, rules \subseteq Paths, known.rules \subseteq Paths,
           Grown(rules, rest), NEW e \in Entries, e \in ToSet(rest), ~Covers(known.rules, e),
           NEW p \in Paths, Below(p, e)
    PROVE  ~Covers(rules, p)
<1> SUFFICES ASSUME NEW r \in rules, Below(p, r) \/ Below(r, p) PROVE FALSE BY DEF Covers
<1>0. e \in Paths /\ r \in Paths BY DEF Entries
<1>1. Below(e, r) \/ Below(r, e) BY <1>0, BelowFacts
<1>2. CASE r \in known.rules BY <1>1, <1>2 DEF Covers
<1>3. CASE r \notin known.rules
  <2>1. r \in Entries /\ r # e BY <1>3 DEF Grown
  <2>2. Len(r) = Len(e) BY <2>1 DEF Entries, InDir
  <2> QED BY <1>0, <1>1, <2>1, <2>2, BelowFacts
<1> QED BY <1>2, <1>3

LEMMA OnlyUncoveredMoves ==
    ASSUME TreeTyped, RunInv, Reconciles, NEW n \in Nodes, at'[n] # at[n], Exists(n)
    PROVE  ~Covers(policy.rules, at[n])
<1>1. ReconcileSteps BY DEF Reconciles
<1>2. at[n] \in Paths BY DEF TreeTyped, Exists
<1>3. CASE ArchiveEntry
  <2>1. /\ run = "plan" /\ entries # <<>> /\ ~Covers(known.rules, entry)
    BY <1>3 DEF ArchiveEntry, Skipped
  <2>2. PICK e \in Nodes : at[e] = entry /\ at' = Renamed(e, Archived(entry))
    BY <1>3 DEF ArchiveEntry
  <2>3. entry \in Entries /\ entry \in Paths /\ entry \in ToSet(entries)
    BY <2>1, TailOfEntries DEF RunInv
  <2>4. Exists(e) /\ Archived(entry) \in Paths
    BY <2>2, <2>3, TreeFacts, ArchivedIs, AppendIs, CanonicalTyped DEF Exists
  <2>5. Below(at[n], entry) BY <2>2, <2>4, RenamedIs
  <2>6. Grown(policy.rules, entries) /\ policy.rules \subseteq Paths /\ known.rules \subseteq Paths
    BY <2>1 DEF RunInv, TreeTyped
  <2> QED BY <1>2, <2>1, <2>3, <2>5, <2>6, NotCoveredBelow
<1>4. CASE MakeArchive
  <2>1. PICK d \in Dirs : ~Exists(d) /\ at' = [at EXCEPT ![d] = Archive]
    BY <1>4 DEF MakeArchive
  <2> QED BY <2>1 DEF Exists, TreeTyped
<1>5. CASE at' = at BY <1>5
<1> QED
  BY <1>1, <1>3, <1>4, <1>5, ReconcileActs
     DEF ListEntries, KeepEntry, AssociateEntry, WritePolicy, ReconcileDone, treeVars

(* Whatever reconcile moves into the archive, no rule of the policy file    *)
(* covers, neither one it has loaded nor one it has added since, and none   *)
(* covers what moves along (plan_entry, move_to_archive).                   *)
THEOREM Kept == Spec => ConfiguredKept
<1>1. TreeTyped /\ RunInv /\ [Next]_vars =>
          [policy.state = "whole" /\ Reconciles =>
              \A n \in Nodes : at'[n] # at[n] /\ Exists(n) => ~Covers(policy.rules, at[n])]_vars
  BY OnlyUncoveredMoves
<1> QED BY <1>1, Reconciled, PTL DEF Spec, ConfiguredKept

-----------------------------------------------------------------------------
LEMMA CanonicalElsewhere ==
    ASSUME LinksElsewhere, TreeTyped, NEW p \in Paths
    PROVE  /\ Canonical(p) \in Paths
           /\ Canonical(p) = p \/ ~Below(Canonical(p), ConfigDir)
<1>1. CASE Through(p) = {} BY <1>1, CanonicalIs
<1>2. CASE Through(p) # {}
  <2>1. PICK l \in Through(p) : Canonical(p) = CanonicalBy(p, l) BY <1>2, CanonicalIs
  <2>2. l \in Links /\ at[l] \in Paths /\ Below(p, at[l]) /\ Target[l] \in Paths
    BY TreeTypes DEF Through, TreeTyped, Exists
  <2>3. Len(at[l]) \in 0..Len(p) BY <2>2, BelowFacts
  <2>4. Canonical(p) \in Paths /\ Below(Canonical(p), Target[l])
    BY <2>1, <2>2, <2>3, BelowGoesOn DEF CanonicalBy
  <2>5. ~Below(Canonical(p), ConfigDir) BY <2>2, <2>4, BelowFacts, TreeFacts DEF LinksElsewhere
  <2> QED BY <2>4, <2>5
<1> QED BY <1>1, <1>2

LEMMA CanonicalStays ==
    ASSUME NEW p, Through(p)' = Through(p), \A l \in Through(p) : at'[l] = at[l]
    PROVE  Canonical(p)' = Canonical(p)
<1> DEFINE ThroughPrimed == Through(p)'
           c == CHOOSE l \in Through(p) : TRUE
           d == CHOOSE l \in ThroughPrimed : TRUE
<1>1. Canonical(p)' = IF ThroughPrimed = {} THEN p
                      ELSE Target[d] \o SubSeq(p, Len(at'[d]) + 1, Len(p))
  BY DEF Canonical, Through
<1>2. CASE Through(p) = {} BY <1>1, <1>2, CanonicalIs
<1>3. CASE Through(p) # {}
  <2>1. c \in Through(p) /\ d = c BY <1>3
  <2>2. at'[d] = at[c] BY <2>1
  <2>3. Canonical(p) = CanonicalBy(p, c) BY <1>3, CanonicalIs
  <2> HIDE DEF c, d
  <2>4. Canonical(p)' = Target[d] \o SubSeq(p, Len(at'[d]) + 1, Len(p)) BY <1>1, <1>3
  <2> QED BY <2>1, <2>2, <2>3, <2>4 DEF CanonicalBy
<1> QED BY <1>2, <1>3

(* What a run of reconcile does to the tree: it makes the archive, or moves *)
(* all there is at an entry into it.                                        *)
ToArchive(e) ==
    \A m \in Nodes :
        \/ at'[m] = at[m]
        \/ /\ at'[m] \in Paths /\ Below(at'[m], Archive)
           /\ \/ ~Exists(m) /\ m \in Dirs
              \/ Below(at[m], e) /\ \A k \in Nodes : at[k] = e => at'[k] # at[k]

(* A directory in ~/.config that is there after it was there before. *)
LEMMA DirWasThere ==
    ASSUME LinksElsewhere, TreeTyped, TreeTyped', NEW e \in Entries, ToArchive(e),
           NEW n \in Nodes, Exists(n)', InDir(at[n], ConfigDir)', IsDir(at[n])',
           at'[n] # Archive
    PROVE  at'[n] = at[n] /\ Exists(n) /\ IsDir(at[n])
<1>0. e \in Paths /\ Len(e) = Len(ConfigDir) + 1 /\ Len(ConfigDir) \in Nat
  BY TreeFacts, BelowFacts DEF Entries, InDir
<1>1. PICK p \in Paths : at'[n] = p BY DEF TreeTyped, Exists
<1>2. Len(p) = Len(Archive) /\ p # Archive /\ ~Below(p, Archive)
  BY <1>1, TreeFacts, BelowFacts DEF InDir
<1>3. at[n] = p BY <1>1, <1>2 DEF ToArchive
<1>4. IsDir(p)' BY <1>1 DEF IsDir, Canonical
<1>5. ASSUME NEW l \in Links, Exists(l), Below(p, at[l]), at'[l] # at[l] PROVE FALSE
  <2>1. l \in Nodes /\ l \notin Dirs /\ at[l] \in Paths
    BY <1>5, TreeAssumption DEF Nodes, TreeTyped, Exists
  <2>2. Below(at[l], e) /\ \A k \in Nodes : at[k] = e => at'[k] # at[k]
    BY <1>5, <2>1 DEF ToArchive
  <2>3. Below(p, e) BY <1>0, <1>5, <2>1, <2>2, BelowFacts
  <2>4. Len(p) = Len(e) BY <1>0, <1>2, TreeFacts
  <2>5. p = e BY <1>0, <2>3, <2>4, BelowFacts
  <2> QED BY <1>1, <1>3, <2>2, <2>5
<1>6. ASSUME NEW l \in Links, Exists(l)', Below(p, at[l])' PROVE at'[l] = at[l]
  <2>1. l \in Nodes /\ at'[l] \in Paths /\ Below(p, at'[l])
    BY <1>6 DEF Nodes, TreeTyped, Exists, Below
  <2>2. ~Below(at'[l], Archive) BY <1>2, <2>1, BelowFacts, TreeFacts
  <2> QED BY <2>1, <2>2 DEF ToArchive
<1>7. Through(p)' = Through(p)
  <2>1. Through(p)' = {l \in Links : Exists(l)' /\ Below(p, at[l])'} BY DEF Through
  <2>2. \A l \in Links : Exists(l)' /\ Below(p, at[l])' <=> Exists(l) /\ Below(p, at[l])
    BY <1>5, <1>6 DEF Exists, Below
  <2> QED BY <2>1, <2>2 DEF Through
<1>8. \A l \in Through(p) : at'[l] = at[l] BY <1>5 DEF Through
<1>9. Canonical(p)' = Canonical(p) BY <1>7, <1>8, CanonicalStays
<1>10. PICK d \in Dirs : at'[d] = Canonical(p) BY <1>4, <1>9 DEF IsDir
<1>11. at'[d] = at[d]
  <2> SUFFICES ASSUME at'[d] # at[d] PROVE FALSE OBVIOUS
  <2>1. at'[d] \in Paths /\ Below(at'[d], Archive) BY DEF ToArchive, Nodes
  <2>2. Below(at'[d], ConfigDir) BY <2>1, TreeFacts, BelowFacts
  <2>3. Canonical(p) = p BY <1>10, <2>2, CanonicalElsewhere
  <2> QED BY <1>2, <1>10, <2>1, <2>3
<1>12. IsDir(p) BY <1>10, <1>11 DEF IsDir
<1>13. Exists(n) BY <1>1, <1>3 DEF Exists
<1> QED BY <1>1, <1>3, <1>12, <1>13

LEMMA MovesToArchive ==
    ASSUME TreeTyped, RunInv, MakeArchive \/ ArchiveEntry, Canonical(Archive) = Archive
    PROVE  /\ ToArchive(entry) /\ entry \in Entries
           /\ ArchiveEntry => \A k \in Nodes : at[k] = entry => at'[k] # at[k]
<1>1. run = "plan" /\ entries # <<>> BY DEF MakeArchive, ArchiveEntry
<1>2. entry \in Entries /\ entry \in Paths BY <1>1, TailOfEntries DEF RunInv
<1>3. CASE MakeArchive
  <2>1. PICK d \in Dirs : ~Exists(d) /\ at' = [at EXCEPT ![d] = Archive]
    BY <1>3 DEF MakeArchive
  <2>2. \A m \in Nodes : at'[m] = IF m = d THEN Archive ELSE at[m]
    BY <2>1 DEF TreeTyped
  <2>3. ToArchive(entry) BY <2>1, <2>2, TreeFacts, BelowFacts DEF ToArchive
  <2>4. ArchiveEntry => \A k \in Nodes : at[k] = entry => at'[k] # at[k]
    <3> SUFFICES ASSUME ArchiveEntry PROVE FALSE OBVIOUS
    <3>1. entries' = entries /\ entries' = Tail(entries)
      BY <1>3 DEF MakeArchive, ArchiveEntry, reconcileVars
    <3> QED BY <1>1, <3>1, TailOfEntries DEF RunInv
  <2> QED BY <1>2, <2>3, <2>4
<1>4. CASE ArchiveEntry
  <2>1. PICK e \in Nodes : at[e] = entry /\ at' = Renamed(e, Archived(entry))
    BY <1>4 DEF ArchiveEntry
  <2> DEFINE target == Archived(entry)
  <2>2. target \in Paths /\ Len(target) = Len(Archive) + 1 /\ Below(target, Archive)
    BY <1>2, ArchivedIs, AppendIs, TreeFacts
  <2> HIDE DEF target
  <2>3. Exists(e) BY <1>2, <2>1, TreeFacts DEF Exists
  <2>4. ASSUME NEW m \in Nodes
        PROVE  \/ ~(Exists(m) /\ Below(at[m], entry)) /\ at'[m] = at[m]
               \/ /\ Exists(m) /\ Below(at[m], entry)
                  /\ at'[m] \in Paths /\ Below(at'[m], target)
    BY <2>1, <2>2, <2>3, RenamedIs DEF target
  <2>5. ASSUME NEW k \in Nodes, at[k] = entry PROVE at'[k] # at[k]
    <3>1. Exists(k) /\ Below(at[k], entry)
      BY <1>2, <2>5, TreeFacts, BelowFacts DEF Exists
    <3>2. at'[k] \in Paths /\ Below(at'[k], target) BY <2>4, <3>1
    <3>3. Len(at'[k]) >= Len(Archive) + 1 BY <2>2, <3>2, BelowFacts
    <3>4. Len(entry) = Len(Archive) /\ Len(Archive) \in Nat
      BY <1>2, TreeFacts, BelowFacts DEF Entries, InDir
    <3>5. Len(at'[k]) \in Nat BY <3>2, BelowFacts
    <3>6. Len(at'[k]) # Len(entry) BY <3>3, <3>4, <3>5
    <3> QED BY <2>5, <3>6
  <2>6. ASSUME NEW m \in Nodes, at'[m] # at[m]
        PROVE  at'[m] \in Paths /\ Below(at'[m], Archive) /\ Below(at[m], entry)
    BY <2>2, <2>4, <2>6, BelowFacts, TreeFacts
  <2>7. ToArchive(entry) BY <2>5, <2>6 DEF ToArchive
  <2> QED BY <1>2, <2>5, <2>7
<1> QED BY <1>3, <1>4

LEMMA SettledNowStep ==
    ASSUME LinksElsewhere, TreeTyped, TreeTyped', RunInv, ArchiveInPlace, SettledNow, [Next]_vars
    PROVE  SettledNow'
<1>1. CASE OthersChange
  <2>1. changes' = changes + 1 /\ began' = began
    BY <1>1 DEF OthersChange, Change, reconcileVars
  <2>2. began' # changes' BY <2>1 DEF TreeTyped
  <2> QED BY <2>2 DEF SettledNow
<1>2. CASE ProcessRuns \/ SystemdRuns \/ ProcessDies \/ Learns \/ Deploys \/ DeployGoesWrong
               \/ UNCHANGED vars
  <2>1. UNCHANGED <<at, changes, run, entries, content, began>> BY <1>2, Elsewhere
  <2>2. CASE policy' = policy
    <3>1. /\ Settled(policy.rules, entries) => Settled(policy.rules, entries)'
          /\ Settled(content.rules, Tail(entries)) => Settled(content.rules, Tail(entries))'
          /\ Settled(policy.rules, <<>>) => Settled(policy.rules, <<>>)'
      BY <2>1, <2>2 DEF Settled, Exists, IsDir, Canonical
    <3> QED BY <2>1, <3>1 DEF SettledNow
  <2>3. CASE policy' # policy
    <3>1. run = "idle" BY <1>2, <2>3, Elsewhere DEF RunInv
    <3> QED BY <2>1, <3>1 DEF SettledNow
  <2> QED BY <2>2, <2>3
<1>3. CASE StartDeploy \/ StartReconcile
  <2>1. run' \in {"idle", "list"} BY <1>3 DEF StartDeploy, StartReconcile, BeginReconcile
  <2> QED BY <2>1 DEF SettledNow
<1>4. CASE Reconciles
  <2>1. ReconcileSteps BY <1>4 DEF Reconciles
  <2>2. changes' = changes /\ (began' = began \/ began' = changes) BY <2>1, ReconcileActs
  <2>3. CASE ListEntries
    <3>1. run' = "plan" /\ at' = at BY <2>3 DEF ListEntries, treeVars
    <3>2. Settled(policy.rules, entries)'
      BY <2>3, <3>1, ListedIs DEF Settled, Exists
    <3> QED BY <3>1, <3>2 DEF SettledNow
  <2>4. ASSUME began = changes, run = "plan"
        PROVE  Settled(policy.rules, entries)
    BY <2>4 DEF SettledNow
  <2>5. CASE KeepEntry
    <3>1. /\ run = "plan" /\ run' = "plan" /\ at' = at /\ policy' = policy /\ began' = began
          /\ entries # <<>> /\ entries' = Tail(entries)
      BY <2>5 DEF KeepEntry, treeVars
    <3>2. ToSet(entries) = ToSet(Tail(entries)) \cup {entry}
          /\ known.rules \subseteq policy.rules
      BY <3>1, TailOfEntries DEF RunInv, Grown
    <3>3. entry = Archive \/ ~IsDir(entry) \/ Covers(policy.rules, entry)
      BY <2>5, <3>2 DEF KeepEntry, Skipped, Covers
    <3>4. Settled(policy.rules, entries) => Settled(policy.rules, Tail(entries))
      BY <3>2, <3>3 DEF Settled
    <3>5. Settled(policy.rules, entries) => Settled(policy.rules, entries)'
      BY <3>1, <3>4 DEF Settled, Exists, IsDir, Canonical
    <3> QED BY <2>2, <2>4, <3>1, <3>5 DEF SettledNow
  <2>6. CASE AssociateEntry
    <3>1. /\ run = "plan" /\ run' = "write" /\ at' = at /\ began' = began
          /\ entries # <<>> /\ entries' = entries
      BY <2>6 DEF AssociateEntry
    <3>2. content'.rules = policy.rules \cup {entry} BY <2>6, RulesOf DEF AssociateEntry, RulesRead
    <3>3. ToSet(entries) = ToSet(Tail(entries)) \cup {entry} /\ entry \in Paths
      BY <3>1, TailOfEntries DEF RunInv
    <3>4. Covers(policy.rules \cup {entry}, entry) BY <3>3, BelowFacts DEF Covers
    <3>5. ASSUME NEW p, Covers(policy.rules, p) PROVE Covers(policy.rules \cup {entry}, p)
      BY <3>5 DEF Covers
    <3>6. Settled(policy.rules, entries)
              => Settled(policy.rules \cup {entry}, Tail(entries))
      BY <3>3, <3>4, <3>5 DEF Settled
    <3>7. Settled(policy.rules, entries) => Settled(content.rules, Tail(entries))'
      BY <3>1, <3>2, <3>6 DEF Settled, Exists, IsDir, Canonical
    <3> QED BY <2>2, <2>4, <3>1, <3>7 DEF SettledNow
  <2>7. CASE WritePolicy
    <3>1. /\ run = "write" /\ run' = "plan" /\ at' = at /\ began' = began
          /\ policy' = content /\ entries' = Tail(entries)
      BY <2>7 DEF WritePolicy
    <3>2. Settled(content.rules, Tail(entries)) => Settled(policy.rules, entries)'
      BY <3>1 DEF Settled, Exists, IsDir, Canonical
    <3> QED BY <2>2, <3>1, <3>2 DEF SettledNow
  <2>8. CASE MakeArchive \/ ArchiveEntry
    <3>1. /\ run = "plan" /\ run' = "plan" /\ began' = began /\ policy' = policy
          /\ entries # <<>>
          /\ \/ MakeArchive /\ entries' = entries
             \/ ArchiveEntry /\ entries' = Tail(entries)
      BY <2>8 DEF MakeArchive, ArchiveEntry, reconcileVars
    <3>2. ToArchive(entry) /\ entry \in Entries BY <2>8, MovesToArchive DEF ArchiveInPlace
    <3>3. ToSet(entries) = ToSet(Tail(entries)) \cup {entry}
      BY <3>1, TailOfEntries DEF RunInv
    <3>4. ASSUME Settled(policy.rules, entries) PROVE Settled(policy.rules, entries)'
      <4> SUFFICES ASSUME NEW n \in Nodes, Exists(n)', InDir(at[n], ConfigDir)', IsDir(at[n])',
                          at'[n] # Archive
                   PROVE  Covers(policy.rules, at'[n]) \/ at'[n] \in ToSet(entries')
        BY <3>1 DEF Settled, Covers
      <4>1. at'[n] = at[n] /\ Exists(n) /\ IsDir(at[n]) BY <3>2, DirWasThere
      <4>2. InDir(at[n], ConfigDir) BY <4>1
      <4>3. Covers(policy.rules, at[n]) \/ at[n] \in ToSet(entries)
        BY <3>4, <4>1, <4>2 DEF Settled
      <4>4. ArchiveEntry => at[n] # entry BY <4>1, MovesToArchive DEF ArchiveInPlace
      <4> QED BY <3>1, <3>3, <4>1, <4>3, <4>4
    <3> QED BY <2>2, <2>4, <3>1, <3>4 DEF SettledNow
  <2>9. CASE ReconcileDone
    <3>1. /\ run = "plan" /\ run' = "done" /\ at' = at /\ policy' = policy /\ began' = began
          /\ entries = <<>>
      BY <2>9 DEF ReconcileDone, ReconcileEnds, treeVars
    <3>2. Settled(policy.rules, <<>>) => Settled(policy.rules, <<>>)'
      BY <3>1 DEF Settled, Exists, IsDir, Canonical
    <3> QED BY <2>2, <2>4, <3>1, <3>2 DEF SettledNow
  <2>10. CASE run' = "failed" BY <2>10 DEF SettledNow
  <2> QED BY <2>1, <2>3, <2>5, <2>6, <2>7, <2>8, <2>9, <2>10, ReconcileActs
<1> QED BY <1>1, <1>2, <1>3, <1>4 DEF Next

(* No link comes to the archive, or to where it is, through a run: what an  *)
(* entry takes along is below the entry.                                    *)
LEMMA ArchiveWasInPlace ==
    ASSUME LinksElsewhere, TreeTyped, TreeTyped', RunInv, Reconciles, ArchiveInPlace'
    PROVE  ArchiveInPlace
<1>1. CASE at' = at BY <1>1 DEF ArchiveInPlace, Canonical, Exists
<1>2. CASE MakeArchive
  <2>1. PICK d \in Dirs : ~Exists(d) /\ at' = [at EXCEPT ![d] = Archive]
    BY <1>2 DEF MakeArchive
  <2>2. \A l \in Links : at'[l] = at[l] BY <2>1, TreeAssumption DEF TreeTyped, Nodes
  <2>3. Canonical(Archive)' = Canonical(Archive)
    <3>1. Through(Archive)' = Through(Archive) BY <2>2 DEF Through, Exists
    <3>2. \A l \in Through(Archive) : at'[l] = at[l] BY <2>2 DEF Through
    <3> QED BY <3>1, <3>2, CanonicalStays
  <2> QED BY <2>3 DEF ArchiveInPlace
<1>3. CASE ArchiveEntry
  <2> SUFFICES ASSUME ~ArchiveInPlace PROVE FALSE OBVIOUS
  <2>1. run = "plan" /\ entries # <<>> /\ entry # Archive
    BY <1>3 DEF ArchiveEntry, Skipped
  <2>2. entry \in Entries /\ entry \in Paths BY <2>1, TailOfEntries DEF RunInv
  <2>3. PICK e \in Nodes : at[e] = entry /\ at' = Renamed(e, Archived(entry))
    BY <1>3 DEF ArchiveEntry
  <2>4. Exists(e) BY <2>2, <2>3, TreeFacts DEF Exists
  <2>5. Archived(entry) \in Paths BY <2>2, ArchivedIs, AppendIs, CanonicalTyped, TreeFacts
  <2>6. PICK l \in Links : Exists(l) /\ Below(Archive, at[l])
    BY CanonicalIs DEF Through, ArchiveInPlace
  <2>7. l \in Nodes /\ at[l] \in Paths BY <2>6, TreeTypes DEF TreeTyped, Exists
  <2>8. at'[l] = at[l]
    <3> SUFFICES ASSUME at'[l] # at[l] PROVE FALSE OBVIOUS
    <3>1. Below(at[l], entry) BY <2>3, <2>4, <2>5, <2>7, RenamedIs
    <3>2. Below(Archive, entry) BY <2>2, <2>6, <2>7, <3>1, TreeFacts, BelowFacts
    <3>3. Len(Archive) = Len(entry) BY <2>2, TreeFacts DEF Entries, InDir
    <3> QED BY <2>1, <2>2, <3>2, <3>3, TreeFacts, BelowFacts
  <2> DEFINE through == {k \in Links : at'[k] # Gone /\ Below(Archive, at'[k])}
             k == CHOOSE k \in through : TRUE
  <2>9. l \in through BY <2>6, <2>8 DEF Exists
  <2>10. Canonical(Archive)' = Target[k] \o SubSeq(Archive, Len(at'[k]) + 1, Len(Archive))
    BY <2>9 DEF Canonical, Exists
  <2>11. k \in Links /\ at'[k] # Gone /\ Below(Archive, at'[k])
    <3>1. k \in through BY <2>9
    <3> QED BY <3>1
  <2> HIDE DEF through, k
  <2>12. at'[k] \in Paths /\ Target[k] \in Paths BY <2>11, TreeTypes DEF TreeTyped
  <2>13. Len(at'[k]) \in 0..Len(Archive) BY <2>11, <2>12, TreeFacts, BelowFacts
  <2>14. Below(Archive, Target[k])
    <3>1. Archive = Target[k] \o SubSeq(Archive, Len(at'[k]) + 1, Len(Archive))
      BY <2>10 DEF ArchiveInPlace
    <3>2. \A n \in 0..Len(Archive) :
              Below(Target[k] \o SubSeq(Archive, n + 1, Len(Archive)), Target[k])
      BY <2>12, TreeFacts, BelowGoesOn
    <3> QED BY <2>13, <3>1, <3>2
  <2> QED BY <2>11, <2>12, <2>14, TreeFacts, BelowFacts DEF LinksElsewhere
<1>4. ReconcileSteps BY DEF Reconciles
<1> QED
  BY <1>1, <1>2, <1>3, <1>4, ReconcileActs
     DEF ListEntries, KeepEntry, AssociateEntry, WritePolicy, ReconcileDone, treeVars

LEMMA SettledStep ==
    ASSUME LinksElsewhere, TreeTyped, TreeTyped', RunInv, SettledInv, [Next]_vars
    PROVE  SettledInv'
<1> SUFFICES ASSUME ArchiveInPlace' PROVE SettledNow' BY DEF SettledInv
<1>1. CASE OthersChange
  <2>1. changes' = changes + 1 /\ began' = began
    BY <1>1 DEF OthersChange, Change, reconcileVars
  <2>2. began' # changes' BY <2>1 DEF TreeTyped
  <2> QED BY <2>2 DEF SettledNow
<1>2. CASE ~OthersChange
  <2>1. ArchiveInPlace
    <3>1. CASE Reconciles BY <3>1, ArchiveWasInPlace
    <3>2. CASE ~Reconciles
      <4>1. at' = at
        BY <1>2, <3>2, Elsewhere
           DEF Next, StartDeploy, StartReconcile, BeginDeploy, BeginReconcile, treeVars
      <4> QED BY <4>1 DEF ArchiveInPlace, Canonical, Exists
    <3> QED BY <3>1, <3>2
  <2> QED BY <2>1, SettledNowStep DEF SettledInv
<1> QED BY <1>1, <1>2

(* If no link leads to ~/.config, above it or into it, a successful run of  *)
(* reconcile during which nothing else changed the tree leaves nothing of   *)
(* ~/.config without a rule but the archive (plan_reconcile).               *)
THEOREM Settles == LinksElsewhere => (Spec => []ReconcileSettles)
<1> SUFFICES ASSUME LinksElsewhere PROVE Spec => []ReconcileSettles OBVIOUS
<1>1. TreeTyped /\ TreeTyped' /\ RunInv /\ SettledInv /\ [Next]_vars => SettledInv'
  BY SettledStep
<1>2. Init => SettledInv
  <2>1. Init => run = "idle" BY DEF Init, ReconcileInit
  <2> QED BY <2>1 DEF SettledInv, SettledNow
<1>3. SettledInv => ReconcileSettles
  <2>1. ToSet(<<>>) = {} BY DEF ToSet
  <2> QED BY <2>1 DEF SettledInv, SettledNow, ArchiveInPlace, Settled, ReconcileSettles
<1> QED BY <1>1, <1>2, <1>3, Reconciled, PTL DEF Spec

-----------------------------------------------------------------------------
(* What the links directly in ~/.config stand for, if none leads there.     *)
Aliases ==
    {a \in [real : Paths, logical : Entries] :
        ~Below(a.real, ConfigDir) /\ ~Below(ConfigDir, a.real)}

LearnerInv ==
    /\ aliases \in Seq(Aliases)
    /\ pc # "serve" => observations = {} /\ uses = {}
    /\ pc = "serve" /\ aliases = learnerAliases =>
           /\ uses \subseteq observations
           /\ observations # {} => learned = CandidateOwnedPaths(observations)

LEMMA AliasesTyped ==
    ASSUME LinksElsewhere, TreeTyped, NEW s \in SymlinkAliases
    PROVE  s \in Seq(Aliases)
<1> DEFINE F == {l \in Links : Exists(l) /\ InDir(at[l], ConfigDir) /\ IsDir(at[l])}
<1>1. PICK f \in SetToSeqs(F) :
          s = [n \in DOMAIN f |-> [real |-> Canonical(at[f[n]]), logical |-> at[f[n]]]]
  BY DEF SymlinkAliases
<1>2. IsFiniteSet(F)
  <2>1. F \subseteq Nodes BY DEF Nodes
  <2> HIDE DEF F
  <2> QED BY <2>1, TreeAssumption, FS_Subset
<1>3. f \in [1..Cardinality(F) -> F] /\ Cardinality(F) \in Nat
  <2> HIDE DEF F
  <2> QED BY <1>1, <1>2, FS_CardinalityType DEF SetToSeqs
<1>4. ASSUME NEW l \in F
      PROVE  [real |-> Canonical(at[l]), logical |-> at[l]] \in Aliases
  <2>1. /\ l \in Links /\ l \in Nodes /\ Exists(l) /\ InDir(at[l], ConfigDir)
        /\ at[l] \in Paths
    BY DEF Nodes, TreeTyped, Exists
  <2>2. PICK p \in Paths : p = at[l] BY <2>1
  <2>3. l \in Through(p) BY <2>1, <2>2, BelowFacts DEF Through
  <2>4. PICK k \in Through(p) : Canonical(p) = CanonicalBy(p, k) BY <2>3, CanonicalIs
  <2>5. k \in Links /\ at[k] \in Paths /\ Below(p, at[k]) /\ Target[k] \in Paths
    BY TreeTypes DEF Through, TreeTyped, Exists
  <2>6. Len(at[k]) \in 0..Len(p) BY <2>5, BelowFacts
  <2>7. Canonical(p) \in Paths /\ Below(Canonical(p), Target[k])
    BY <2>4, <2>5, <2>6, BelowGoesOn DEF CanonicalBy
  <2>8. ~Below(Canonical(p), ConfigDir) /\ ~Below(ConfigDir, Canonical(p))
    BY <2>5, <2>7, BelowFacts, TreeFacts DEF LinksElsewhere
  <2>9. p \in Entries BY <2>1, <2>2 DEF Entries
  <2> QED BY <2>2, <2>7, <2>8, <2>9 DEF Aliases
<1> HIDE DEF F
<1>5. DOMAIN f = 1..Cardinality(F) /\ \A n \in 1..Cardinality(F) : f[n] \in F BY <1>3
<1>6. s \in [1..Cardinality(F) -> Aliases] BY <1>1, <1>4, <1>5
<1> QED BY <1>3, <1>6, SeqDef

(* What a step is for the learner.                                          *)
LearnerUnchanged == UNCHANGED <<pc, aliases, learnerAliases, observations, learned, uses>>

LearnerRestarts ==
    /\ pc' # "serve" /\ observations' = {} /\ uses' = {}
    /\ aliases' \in {aliases, <<>>} \cup SymlinkAliases

LearnerStarts ==
    pc # "serve" /\ UNCHANGED <<aliases, learnerAliases, observations, learned, uses>>

LEMMA LearnerSteps ==
    ASSUME [Next]_vars
    PROVE  \/ LearnerUnchanged \/ LearnerRestarts \/ LearnerStarts
           \/ \E s \in Programs, d \in Visited : Observe(s, d)
<1>1. CASE OthersChange \/ StartDeploy \/ DeployGoesWrong \/ StartReconcile \/ Reconciles
               \/ UNCHANGED vars
  BY <1>1 DEF OthersChange, Change, StartDeploy, BeginDeploy, DeployGoesWrong, DeployFails,
              Interrupted, StartReconcile, Reconciles, vars, serviceVars, processVars,
              learningVars, LearnerUnchanged
<1>2. CASE ProcessRuns
  <2>1. LearnerFollows /\ ProcessSteps BY <1>2 DEF ProcessRuns
  <2>2. \/ pc' # "serve" /\ aliases' \in {aliases, <<>>} \cup SymlinkAliases
        \/ pc = "notify" /\ UNCHANGED <<aliases, learnerAliases>> /\ pc' = "serve"
    BY <2>1 DEF ProcessSteps, ResolveScope, ReadAliases, ReadLearnerAliases, LoadPolicy,
                MarkMount, MarkDirectory, ReadChildren, NotifyReady, StartFails, NoProcess
  <2> QED BY <2>1, <2>2 DEF LearnerFollows, LearnerRestarts, LearnerStarts
<1>3. CASE SystemdRuns
  <2>1. LearnerFollows /\ SystemdSteps BY <1>3 DEF SystemdRuns
  <2>2. \/ pc' = "scope" /\ aliases' = <<>>
        \/ UNCHANGED <<pc, aliases, learnerAliases>>
    BY <2>1 DEF SystemdSteps, ReadyReceived, TouchMarker, DeathNoticed, Restart, Launch,
                processVars
  <2> QED BY <2>1, <2>2 DEF LearnerFollows, LearnerRestarts, LearnerUnchanged
<1>4. CASE ProcessDies
  BY <1>4 DEF ProcessDies, Dies, NoProcess, LearnerFollows, LearnerRestarts
<1>5. CASE Learns
  BY <1>5 DEF Learns, WriteFails, NoProcess, LearnerRestarts
<1>6. CASE Deploys
  <2>1. LearnerFollows /\ DeploySteps BY <1>6 DEF Deploys
  <2>2. \/ pc' \in {"none", "scope"} /\ aliases' = <<>>
        \/ UNCHANGED <<pc, aliases, learnerAliases>>
    BY <2>1 DEF DeploySteps, StopService, OpenConfig, CopyConfig, InstallUnit, ReloadUnit,
                RestartService, ServiceStarted, RestoreService, VerifyService, VerifyMarker,
                NoProcess, Launch, serviceVars, processVars
  <2> QED BY <2>1, <2>2 DEF LearnerFollows, LearnerRestarts, LearnerUnchanged
<1> QED BY <1>1, <1>2, <1>3, <1>4, <1>5, <1>6 DEF Next

LEMMA FirstAliasIs ==
    ASSUME NEW pairs \in Seq(Aliases), NEW p
    PROVE  \/ FirstAlias(p, pairs) = 0 /\ \A n \in 1..Len(pairs) : ~Below(p, pairs[n].real)
           \/ /\ FirstAlias(p, pairs) \in 1..Len(pairs) /\ FirstAlias(p, pairs) # 0
              /\ Below(p, pairs[FirstAlias(p, pairs)].real)
<1> DEFINE places == {n \in 1..Len(pairs) : Below(p, pairs[n].real)}
           first == FirstAlias(p, pairs)
<1>1. first = IF places = {} THEN 0 ELSE Min(places) BY DEF FirstAlias, SelectInSeq
<1>2. places \in SUBSET Nat /\ 0 \notin places OBVIOUS
<1>3. CASE places = {} BY <1>1, <1>3
<1>4. CASE places # {}
  <2>1. first \in places
    <3> HIDE DEF places, first
    <3> QED BY <1>1, <1>2, <1>4, MinIn
  <2> QED BY <1>2, <2>1
<1> QED BY <1>3, <1>4

(* The root the learner files an access under is where the policy sees it.  *)
LEMMA SameRoot ==
    ASSUME NEW pairs \in Seq(Aliases), NEW p \in Paths,
           ConfigRootForHomeOrAlias(p, pairs) # NoRoot
    PROVE  ConfigRootForHome(LogicalPath(p, pairs)) = ConfigRootForHomeOrAlias(p, pairs)
<1> DEFINE first == FirstAlias(p, pairs)
<1>0. /\ ConfigRootForHomeOrAlias(p, pairs) =
             IF ConfigRootForHome(p) # NoRoot THEN ConfigRootForHome(p)
             ELSE IF first = 0 THEN NoRoot ELSE pairs[first].logical
      /\ LogicalPath(p, pairs) =
             IF first = 0 THEN p
             ELSE pairs[first].logical \o SubSeq(p, Len(pairs[first].real) + 1, Len(p))
  BY DEF ConfigRootForHomeOrAlias, LogicalPath
<1>1. \/ first = 0
      \/ first \in 1..Len(pairs) /\ first # 0 /\ Below(p, pairs[first].real)
  BY FirstAliasIs
<1> HIDE DEF first
<1>2. \A n \in 1..Len(pairs) : pairs[n] \in Aliases BY ElementOfSeq
<1>3. CASE ConfigRootForHome(p) # NoRoot
  <2>1. Below(p, ConfigDir) BY <1>3 DEF ConfigRootForHome
  <2>2. first = 0
    <3> SUFFICES ASSUME first # 0 PROVE FALSE OBVIOUS
    <3>1. first \in 1..Len(pairs) /\ Below(p, pairs[first].real) BY <1>1
    <3>2. pairs[first].real \in Paths /\ ~Below(pairs[first].real, ConfigDir)
          /\ ~Below(ConfigDir, pairs[first].real)
      BY <1>2, <3>1 DEF Aliases
    <3> QED BY <2>1, <3>1, <3>2, BelowFacts, TreeFacts
  <2> QED BY <1>0, <1>3, <2>2
<1>4. CASE ConfigRootForHome(p) = NoRoot
  <2>1. first # 0 BY <1>0, <1>4
  <2>2. first \in 1..Len(pairs) /\ Below(p, pairs[first].real) BY <1>1, <2>1
  <2>3. pairs[first] \in Aliases BY <1>2, <2>2
  <2>4. PICK real, logical : real = pairs[first].real /\ logical = pairs[first].logical OBVIOUS
  <2>5. real \in Paths /\ logical \in Entries /\ logical \in Paths /\ Below(p, real)
    BY <2>2, <2>3, <2>4 DEF Aliases, Entries
  <2>6. Len(real) \in 0..Len(p) BY <2>5, BelowFacts
  <2> DEFINE q == logical \o SubSeq(p, Len(real) + 1, Len(p))
  <2>7. q \in Paths /\ Below(q, logical) BY <2>5, <2>6, BelowGoesOn
  <2>8. LogicalPath(p, pairs) = q BY <1>0, <2>1, <2>4
  <2> HIDE DEF q
  <2>9. Below(logical, ConfigDir) /\ Len(logical) = Len(ConfigDir) + 1
        /\ Len(ConfigDir) \in Nat
    BY <2>5, TreeFacts, BelowFacts DEF Entries, InDir
  <2>10. Below(q, ConfigDir) BY <2>5, <2>7, <2>9, BelowFacts, TreeFacts
  <2>11. q # ConfigDir
    <3>1. Len(logical) <= Len(q) BY <2>5, <2>7, BelowFacts
    <3> QED BY <2>9, <3>1
  <2>12. SubSeq(q, 1, Len(logical)) = logical
    <3>1. SubSeq(logical, 1, Len(logical)) = SubSeq(q, 1, Len(logical))
      BY <2>7 DEF Below, IsPrefix
    <3>2. SubSeq(logical, 1, Len(logical)) = logical BY <2>5 DEF Paths
    <3> QED BY <3>1, <3>2
  <2>13. ConfigRootForHome(q) = logical
    BY <2>9, <2>10, <2>11, <2>12 DEF ConfigRootForHome
  <2> QED BY <1>0, <1>4, <2>1, <2>4, <2>8, <2>13
<1> QED BY <1>3, <1>4

LEMMA ObserveKeeps ==
    ASSUME TreeTyped, LearnerInv, NEW s \in Programs, NEW d \in Visited, Observe(s, d)
    PROVE  LearnerInv'
<1> DEFINE root == ConfigRootForHomeOrAlias(at[d], learnerAliases)
           seen == observations \cup {<<s, root>>}
           used == ConfigRootForHome(LogicalPath(at[d], aliases))
<1>1. /\ root # NoRoot /\ observations' = seen /\ learned' = CandidateOwnedPaths(seen)
      /\ uses' = uses \cup {<<s, used>>}
      /\ pc = "serve" /\ UNCHANGED <<pc, aliases, learnerAliases>>
  BY DEF Observe, serviceVars, processVars
<1>2. at[d] \in Paths
  BY TreeAssumption, LearningAssumption DEF Observe, TreeTyped, Exists, Nodes
<1>3. aliases = learnerAliases => used = root
  <2> SUFFICES ASSUME aliases = learnerAliases PROVE used = root OBVIOUS
  <2>1. ConfigRootForHomeOrAlias(at[d], aliases) # NoRoot BY <1>1
  <2> QED BY <1>2, <2>1, SameRoot DEF LearnerInv
<1> HIDE DEF root, used
<1>4. learned' = CandidateOwnedPaths(observations)' BY <1>1 DEF CandidateOwnedPaths
<1> QED BY <1>1, <1>3, <1>4 DEF LearnerInv

LEMMA LearnerStep ==
    ASSUME LinksElsewhere, TreeTyped, LearnerInv, [Next]_vars
    PROVE  LearnerInv'
<1>1. CASE LearnerUnchanged
  BY <1>1 DEF LearnerUnchanged, LearnerInv, CandidateOwnedPaths
<1>2. CASE LearnerRestarts
  <2>1. aliases' \in Seq(Aliases)
    BY <1>2, AliasesTyped, EmptySeq DEF LearnerRestarts, LearnerInv
  <2> QED BY <1>2, <2>1 DEF LearnerRestarts, LearnerInv
<1>3. CASE LearnerStarts
  BY <1>3 DEF LearnerStarts, LearnerInv
<1> QED BY <1>1, <1>2, <1>3, LearnerSteps, ObserveKeeps

(* If no link leads to ~/.config, above it or into it, the learner gives a  *)
(* root to a program only if no other has used what the policy takes for    *)
(* that root (candidate_owner_for_root, logical_policy_path).               *)
THEOREM LearnedAlone == LinksElsewhere => (Spec => []LearnedOwnersAlone)
<1> SUFFICES ASSUME LinksElsewhere PROVE Spec => []LearnedOwnersAlone OBVIOUS
<1>1. TreeTyped /\ LearnerInv /\ [Next]_vars => LearnerInv' BY LearnerStep
<1>2. Init => LearnerInv
  BY EmptySeq DEF Init, ServiceInit, LearningInit, LearnerInv
<1>3. LearnerInv => LearnedOwnersAlone
  <2> SUFFICES ASSUME LearnerInv, pc = "serve", observations # {}, aliases = learnerAliases,
                      NEW l \in learned, NEW u \in uses, u[2] = l[1]
               PROVE  u[1] = l[2]
    BY DEF LearnedOwnersAlone
  <2>1. learned = CandidateOwnedPaths(observations) /\ u \in observations
    BY DEF LearnerInv
  <2>2. PICK o \in observations :
            /\ l = <<o[2], o[1]>>
            /\ \A q \in observations : q[2] = o[2] => q[1] = o[1]
    BY <2>1 DEF CandidateOwnedPaths
  <2> QED BY <2>1, <2>2
<1> QED BY <1>1, <1>2, <1>3, Reconciled, PTL DEF Spec

-----------------------------------------------------------------------------
(* Paths that are moved, and the tree they make.                            *)
(* q without its first k names, put after p. *)
Relocated(p, q, k) == p \o SubSeq(q, k + 1, Len(q))

LEMMA RelocatedIs ==
    ASSUME NEW p \in Paths, NEW q \in Paths, NEW k \in 0..Len(q)
    PROVE  /\ Relocated(p, q, k) \in Paths
           /\ Len(Relocated(p, q, k)) = Len(p) + (Len(q) - k)
           /\ \A i \in 1..Len(p) : Relocated(p, q, k)[i] = p[i]
           /\ \A i \in 1..(Len(q) - k) : Relocated(p, q, k)[Len(p) + i] = q[k + i]
<1> DEFINE u == SubSeq(q, k + 1, Len(q))
<1>1. p \in Seq(Names) /\ q \in Seq(Names) /\ Len(p) \in Nat /\ Len(q) \in Nat BY DEF Paths
<1>2. \A i \in 1..Len(q) : q[i] \in Names BY <1>1, ElementOfSeq
<1>3. /\ u \in Seq(Names) /\ Len(u) = Len(q) - k
      /\ \A i \in 1..(Len(q) - k) : u[i] = q[k + i]
  BY <1>1, <1>2, SubSeqProperties
<1> HIDE DEF u
<1>4. /\ p \o u \in Seq(Names) /\ Len(p \o u) = Len(p) + Len(u)
      /\ \A i \in 1..(Len(p) + Len(u)) :
             (p \o u)[i] = IF i <= Len(p) THEN p[i] ELSE u[i - Len(p)]
  BY <1>1, <1>3, ConcatProperties
<1>5. \A i \in 1..Len(p) : (p \o u)[i] = p[i] BY <1>1, <1>3, <1>4
<1>6. ASSUME NEW i \in 1..(Len(q) - k) PROVE (p \o u)[Len(p) + i] = q[k + i]
  <2>1. /\ Len(p) + i \in 1..(Len(p) + Len(u)) /\ ~(Len(p) + i <= Len(p))
        /\ (Len(p) + i) - Len(p) = i
    BY <1>1, <1>3
  <2> QED BY <1>3, <1>4, <2>1
<1> QED BY <1>3, <1>4, <1>5, <1>6 DEF u, Relocated, Paths

LEMMA FrontIs ==
    ASSUME NEW p \in Paths, Len(p) >= 1
    PROVE  /\ Front(p) \in Paths /\ Len(Front(p)) = Len(p) - 1
           /\ \A i \in 1..(Len(p) - 1) : Front(p)[i] = p[i]
           /\ Below(p, Front(p))
<1>1. p \in Seq(Names) /\ Len(p) \in Nat /\ \A i \in 1..Len(p) : p[i] \in Names
  BY ElementOfSeq DEF Paths
<1> DEFINE m == Len(p) - 1
<1>2. m \in 0..Len(p) BY ONLY <1>1, Len(p) >= 1
<1>3. /\ Front(p) \in Seq(Names) /\ Len(Front(p)) = Len(p) - 1
      /\ \A i \in 1..(Len(p) - 1) : Front(p)[i] = p[i]
  <2>1. /\ SubSeq(p, 1, m) \in Seq(Names) /\ Len(SubSeq(p, 1, m)) = m
        /\ \A i \in 1..m : SubSeq(p, 1, m)[i] = p[i]
    <3> HIDE DEF m
    <3> QED BY <1>1, <1>2, SubSeqProperties
  <2> QED BY <1>2, <2>1 DEF Front
<1>4. IsPrefix(Front(p), p) BY <1>1, <1>3, PrefixIs
<1> QED BY <1>3, <1>4 DEF Below, Paths

LEMMA BelowIs ==
    ASSUME NEW p \in Paths, NEW q \in Paths
    PROVE  Below(p, q) <=> Len(q) <= Len(p) /\ \A i \in 1..Len(q) : q[i] = p[i]
BY PrefixIs DEF Below, Paths

LEMMA PathsEqual ==
    ASSUME NEW p \in Paths, NEW q \in Paths, Len(p) = Len(q),
           \A i \in 1..Len(p) : p[i] = q[i]
    PROVE  p = q
BY SeqEqual DEF Paths

LEMMA RelocatedFront ==
    ASSUME NEW p \in Paths, NEW q \in Paths, NEW k \in Nat, k < Len(q)
    PROVE  Front(Relocated(p, q, k)) = Relocated(p, Front(q), k)
<1> DEFINE r == Relocated(p, q, k)
           s == Relocated(p, Front(q), k)
<1>0. Len(p) \in Nat /\ Len(q) \in Nat BY DEF Paths
<1>1. /\ Front(q) \in Paths /\ Len(Front(q)) = Len(q) - 1
      /\ \A i \in 1..(Len(q) - 1) : Front(q)[i] = q[i]
  BY <1>0, FrontIs
<1>2. /\ r \in Paths /\ Len(r) = Len(p) + (Len(q) - k)
      /\ \A i \in 1..Len(p) : r[i] = p[i]
      /\ \A i \in 1..(Len(q) - k) : r[Len(p) + i] = q[k + i]
  <2>1. k \in 0..Len(q) BY <1>0
  <2> HIDE DEF r
  <2> QED BY <2>1, RelocatedIs DEF r
<1>3. k \in 0..Len(Front(q)) BY <1>0, <1>1
<1>4. /\ s \in Paths /\ Len(s) = Len(p) + (Len(Front(q)) - k)
      /\ \A i \in 1..Len(p) : s[i] = p[i]
      /\ \A i \in 1..(Len(Front(q)) - k) : s[Len(p) + i] = Front(q)[k + i]
  BY ONLY <1>1, <1>3, RelocatedIs
<1> HIDE DEF r, s
<1>5. /\ Front(r) \in Paths /\ Len(Front(r)) = Len(r) - 1
      /\ \A i \in 1..(Len(r) - 1) : Front(r)[i] = r[i]
  <2>1. Len(r) >= 1 BY <1>0, <1>2
  <2> QED BY <1>2, <2>1, FrontIs
<1>6. ASSUME NEW i \in 1..(Len(r) - 1) PROVE r[i] = s[i]
  <2>1. CASE i <= Len(p) BY <1>0, <1>2, <1>4, <2>1
  <2>2. CASE i > Len(p)
    <3>1. /\ i - Len(p) \in 1..(Len(q) - k) /\ Len(p) + (i - Len(p)) = i
          /\ i - Len(p) \in 1..(Len(Front(q)) - k)
          /\ k + (i - Len(p)) \in 1..(Len(q) - 1)
      BY <1>0, <1>1, <1>2, <2>2
    <3>2. r[i] = q[k + (i - Len(p))] BY <1>2, <3>1
    <3>3. s[i] = Front(q)[k + (i - Len(p))] BY <1>4, <3>1
    <3> QED BY <1>1, <3>1, <3>2, <3>3
  <2> QED BY <1>0, <2>1, <2>2
<1>7. Len(s) = Len(r) - 1 BY <1>0, <1>1, <1>2, <1>4
<1>8. Front(r) = s BY <1>4, <1>5, <1>6, <1>7, PathsEqual
<1> QED BY <1>8 DEF r, s

LEMMA RelocatedEqual ==
    ASSUME NEW p \in Paths, NEW q \in Paths, NEW r \in Paths, NEW a \in Paths,
           Below(q, a), Below(r, a), Relocated(p, q, Len(a)) = Relocated(p, r, Len(a))
    PROVE  q = r
<1> DEFINE k == Len(a)
           s == Relocated(p, q, k)
<1>0. Len(p) \in Nat /\ Len(q) \in Nat /\ Len(r) \in Nat /\ k \in Nat BY DEF Paths
<1>1. /\ k <= Len(q) /\ \A i \in 1..k : a[i] = q[i]
      /\ k <= Len(r) /\ \A i \in 1..k : a[i] = r[i]
  BY BelowIs
<1>2. k \in 0..Len(q) /\ k \in 0..Len(r) BY <1>0, <1>1
<1> HIDE DEF k
<1>3. /\ Len(s) = Len(p) + (Len(q) - k)
      /\ \A i \in 1..(Len(q) - k) : s[Len(p) + i] = q[k + i]
  BY <1>2, RelocatedIs
<1>4. s = Relocated(p, r, k) BY DEF k
<1> HIDE DEF s
<1>5. /\ Len(s) = Len(p) + (Len(r) - k)
      /\ \A i \in 1..(Len(r) - k) : s[Len(p) + i] = r[k + i]
  BY <1>2, <1>4, RelocatedIs
<1>6. Len(q) = Len(r) BY <1>0, <1>3, <1>5
<1>7. ASSUME NEW i \in 1..Len(q) PROVE q[i] = r[i]
  <2>1. CASE i <= k
    <3>1. i \in 1..k BY <1>0, <2>1
    <3> QED BY <1>1, <3>1
  <2>2. CASE i > k
    <3>1. i - k \in 1..(Len(q) - k) /\ k + (i - k) = i BY <1>0, <2>2
    <3>2. s[Len(p) + (i - k)] = q[i] BY <1>3, <3>1
    <3>3. s[Len(p) + (i - k)] = r[i] BY <1>5, <1>6, <3>1
    <3> QED BY <3>2, <3>3
  <2> QED BY <1>0, <2>1, <2>2
<1> QED BY <1>6, <1>7, PathsEqual

LEMMA RelocatedWhole ==
    ASSUME NEW p \in Paths, NEW q \in Paths
    PROVE  Relocated(p, q, Len(q)) = p
<1>1. Len(p) \in Nat /\ Len(q) \in 0..Len(q) /\ Len(q) \in Nat BY DEF Paths
<1> DEFINE r == Relocated(p, q, Len(q))
<1>2. r \in Paths /\ Len(r) = Len(p) + (Len(q) - Len(q)) /\ \A i \in 1..Len(p) : r[i] = p[i]
  BY <1>1, RelocatedIs
<1> HIDE DEF r
<1>3. r = p BY <1>1, <1>2, PathsEqual
<1> QED BY <1>3 DEF r

(* A path goes on as it begins. *)
LEMMA RelocatedSelf ==
    ASSUME NEW p \in Paths, NEW q \in Paths, Below(q, p)
    PROVE  Relocated(p, q, Len(p)) = q
<1>1. Len(p) \in Nat /\ Len(q) \in Nat BY DEF Paths
<1>2. Len(p) <= Len(q) /\ \A i \in 1..Len(p) : p[i] = q[i] BY BelowIs
<1>3. Len(p) \in 0..Len(q) BY <1>1, <1>2
<1> DEFINE r == Relocated(p, q, Len(p))
<1>4. /\ r \in Paths /\ Len(r) = Len(p) + (Len(q) - Len(p))
      /\ \A i \in 1..Len(p) : r[i] = p[i]
      /\ \A i \in 1..(Len(q) - Len(p)) : r[Len(p) + i] = q[Len(p) + i]
  BY <1>3, RelocatedIs
<1> HIDE DEF r
<1>5. ASSUME NEW i \in 1..Len(r) PROVE r[i] = q[i]
  <2>1. CASE i <= Len(p) BY <1>1, <1>2, <1>4, <2>1
  <2>2. CASE i > Len(p)
    <3>1. i - Len(p) \in 1..(Len(q) - Len(p)) /\ Len(p) + (i - Len(p)) = i
      BY <1>1, <1>4, <2>2
    <3> QED BY <1>4, <3>1
  <2> QED BY <1>1, <1>4, <2>1, <2>2
<1>6. Len(r) = Len(q) BY <1>1, <1>4
<1>7. r = q BY <1>4, <1>5, <1>6, PathsEqual
<1> QED BY <1>7 DEF r

-----------------------------------------------------------------------------
Placed == [Nodes -> {Gone} \cup FilePaths]

(* All that leads to a file are directories. *)
LEMMA LeadingIn ==
    ASSUME NEW f \in Placed, IsTree(f), NEW n \in Nodes, f[n] # Gone,
           NEW k \in Nat, 1 <= k, k < Len(f[n])
    PROVE  \E d \in Dirs : f[d] = SubSeq(f[n], 1, k)
<1>0. Gone \notin Paths /\ FilePaths \subseteq Paths BY TreeFacts, TreeTypes
<1> DEFINE p == f[n]
           S == {j \in Nat : 1 <= j /\ j < Len(p) =>
                                 \E d \in Dirs : f[d] = SubSeq(p, 1, Len(p) - j)}
<1>1. p \in Paths /\ Len(p) \in Nat /\ p \in Seq(Names) /\ p = f[n]
  BY <1>0 DEF Placed, Paths
<1>2. 0 \in S OBVIOUS
<1> HIDE DEF p
<1>3. ASSUME NEW j \in Nat, j \in S PROVE j + 1 \in S
  <2> SUFFICES ASSUME j + 1 < Len(p) PROVE \E d \in Dirs : f[d] = SubSeq(p, 1, Len(p) - (j + 1))
    OBVIOUS
  <2>1. CASE j = 0
    <3>1. Len(p) # 1
      <4>1. j + 1 < Len(p) /\ j + 1 = 1 BY <2>1
      <4> QED BY <1>1, <4>1
    <3>2. \E d \in Dirs : f[d] = Front(p) BY <1>1, <3>1 DEF IsTree
    <3> QED BY <2>1, <3>2 DEF Front
  <2>2. CASE j # 0
    <3>1. PICK d \in Dirs : f[d] = SubSeq(p, 1, Len(p) - j) BY <1>1, <1>3, <2>2
    <3>2. /\ SubSeq(p, 1, Len(p) - j) \in Seq(Names)
          /\ Len(SubSeq(p, 1, Len(p) - j)) = Len(p) - j
          /\ \A i \in 1..(Len(p) - j) : SubSeq(p, 1, Len(p) - j)[i] = p[i]
      <4>1. \A i \in 1..Len(p) : p[i] \in Names BY <1>1, ElementOfSeq
      <4> QED BY <1>1, <4>1, SubSeqProperties
    <3>3. /\ f[d] \in Paths /\ f[d] # Gone /\ d \in Nodes
          /\ Len(f[d]) = Len(p) - j /\ Len(f[d]) # 1 /\ Len(f[d]) >= 1
          /\ \A i \in 1..(Len(p) - j) : f[d][i] = p[i]
      <4>1. f[d] \in Paths /\ d \in Nodes BY <3>1, <3>2 DEF Paths, Nodes
      <4>2. f[d] # Gone BY <1>0, <4>1
      <4>3. Len(p) - j # 1 /\ Len(p) - j >= 1 BY <1>1
      <4> QED BY <3>1, <3>2, <4>1, <4>2, <4>3
    <3>4. PICK e \in Dirs : f[e] = Front(f[d]) BY <3>3 DEF IsTree
    <3>5. Front(f[d]) = SubSeq(p, 1, Len(p) - (j + 1))
      <4>1. /\ Front(f[d]) \in Paths /\ Len(Front(f[d])) = Len(f[d]) - 1
            /\ \A i \in 1..(Len(f[d]) - 1) : Front(f[d])[i] = f[d][i]
        BY <3>3, FrontIs
      <4>2. /\ SubSeq(p, 1, Len(p) - (j + 1)) \in Seq(Names)
            /\ Len(SubSeq(p, 1, Len(p) - (j + 1))) = Len(p) - (j + 1)
            /\ \A i \in 1..(Len(p) - (j + 1)) : SubSeq(p, 1, Len(p) - (j + 1))[i] = p[i]
        <5>1. \A i \in 1..Len(p) : p[i] \in Names BY <1>1, ElementOfSeq
        <5> QED BY <1>1, <5>1, SubSeqProperties
      <4>3. (Len(p) - j) - 1 = Len(p) - (j + 1) BY <1>1
      <4>4. \A i \in 1..(Len(p) - (j + 1)) : Front(f[d])[i] = p[i]
        <5>1. \A i \in 1..(Len(p) - (j + 1)) : i \in 1..(Len(p) - j) BY <1>1
        <5> QED BY <3>3, <4>1, <4>3, <5>1
      <4> DEFINE s == SubSeq(p, 1, Len(p) - (j + 1))
      <4>5. s \in Paths BY <4>2 DEF Paths
      <4> HIDE DEF s
      <4>6. Len(Front(f[d])) = Len(s) /\ \A i \in 1..Len(Front(f[d])) : Front(f[d])[i] = s[i]
        BY <3>3, <4>1, <4>2, <4>3, <4>4 DEF s
      <4>7. Front(f[d]) = s BY <4>1, <4>5, <4>6, PathsEqual
      <4> QED BY <4>7 DEF s
    <3> QED BY <3>4, <3>5
  <2> QED BY <2>1, <2>2
<1>4. Len(p) - k \in S
  <2>1. Len(p) - k \in Nat BY <1>1 DEF p
  <2> HIDE DEF S
  <2> QED BY <1>2, <1>3, <2>1, Induction
<1>5. 1 <= Len(p) - k /\ Len(p) - k < Len(p) /\ Len(p) - (Len(p) - k) = k BY <1>1 DEF p
<1> QED BY <1>4, <1>5 DEF p

(* Something strictly below a path makes that path a directory's. *)
LEMMA DirAbove ==
    ASSUME NEW f \in Placed, IsTree(f), NEW n \in Nodes, f[n] # Gone,
           NEW p \in FilePaths, Below(f[n], p), f[n] # p
    PROVE  \E d \in Dirs : f[d] = p
<1>1. f[n] \in Paths /\ p \in Paths /\ p # <<>> BY TreeTypes DEF Placed, FilePaths
<1>2. Len(p) \in Nat /\ Len(f[n]) \in Nat /\ p \in Seq(Names) BY <1>1 DEF Paths
<1>3. Len(p) <= Len(f[n]) /\ Len(p) # Len(f[n]) BY <1>1, BelowFacts
<1>4. Len(p) >= 1 BY <1>1, <1>2, EmptySeq
<1>5. PICK d \in Dirs : f[d] = SubSeq(f[n], 1, Len(p)) BY <1>2, <1>3, <1>4, LeadingIn
<1>6. SubSeq(f[n], 1, Len(p)) = SubSeq(p, 1, Len(p)) /\ SubSeq(p, 1, Len(p)) = p
  BY <1>2 DEF Below, IsPrefix
<1> QED BY <1>5, <1>6

(* Nothing is below a link. *)
LEMMA NothingBelowLinks ==
    ASSUME NEW f \in Placed, IsTree(f), NEW n \in Nodes, f[n] # Gone,
           NEW l \in Links, f[l] # Gone, Below(f[n], f[l])
    PROVE  n = l
<1>1. l \in Nodes /\ f[l] \in FilePaths BY TreeTypes DEF Placed
<1>2. CASE f[n] = f[l] BY <1>1, <1>2 DEF IsTree
<1>3. CASE f[n] # f[l]
  <2>1. PICK d \in Dirs : f[d] = f[l] BY <1>1, <1>3, DirAbove
  <2>2. d = l BY <1>1, <2>1 DEF IsTree, Nodes
  <2> QED BY <2>2, TreeAssumption
<1> QED BY <1>2, <1>3

TreeInv == at \in Placed /\ IsTree(at)

(* There is room for a file at p. *)
Room(p) == p \in FilePaths /\ ~Occupied(p) /\ (Len(p) = 1 \/ \E d \in Dirs : at[d] = Front(p))

LEMMA MadeTree ==
    ASSUME TreeInv, NEW n \in Nodes, ~Exists(n), NEW p, Room(p),
           at' = [at EXCEPT ![n] = p]
    PROVE  TreeInv'
<1>1. \A m \in Nodes : at'[m] = IF m = n THEN p ELSE at[m] BY DEF TreeInv, Placed
<1>2. at' \in Placed BY DEF TreeInv, Placed, Room
<1>3. p \in Paths /\ p # Gone /\ \A m \in Nodes : at[m] # p
  BY TreeTypes, TreeFacts DEF Room, Occupied
<1>4. \A d \in Dirs : d \in Nodes BY DEF Nodes
<1>5. ASSUME NEW q \in Paths, \E d \in Dirs : at[d] = q PROVE \E d \in Dirs : at'[d] = q
  <2>1. PICK d \in Dirs : at[d] = q BY <1>5
  <2>2. d # n BY <2>1, TreeFacts DEF Exists
  <2> QED BY <1>1, <1>4, <2>1, <2>2
<1>6. ASSUME NEW m \in Nodes, at'[m] # Gone
      PROVE  /\ Len(at'[m]) = 1 \/ \E d \in Dirs : at'[d] = Front(at'[m])
             /\ \A k \in Nodes : at'[k] = at'[m] => k = m
  <2>1. at'[m] \in Paths /\ at'[m] # <<>> BY <1>2, <1>6 DEF Placed, FilePaths
  <2>2. Front(at'[m]) \in Paths
    <3>1. Len(at'[m]) >= 1 BY <2>1, EmptySeq DEF Paths
    <3> QED BY <2>1, <3>1, FrontIs
  <2>3. CASE m = n
    <3>1. at'[m] = p BY <1>1, <2>3
    <3>2. Len(p) = 1 \/ \E d \in Dirs : at[d] = Front(p) BY DEF Room
    <3> QED BY <1>1, <1>3, <1>5, <2>2, <2>3, <3>1, <3>2
  <2>4. CASE m # n
    <3>1. at'[m] = at[m] /\ at[m] # Gone BY <1>1, <1>6, <2>4
    <3>2. /\ Len(at[m]) = 1 \/ \E d \in Dirs : at[d] = Front(at[m])
          /\ \A k \in Nodes : at[k] = at[m] => k = m
      BY <3>1 DEF TreeInv, IsTree
    <3> QED BY <1>1, <1>3, <1>5, <2>2, <3>1, <3>2
  <2> QED BY <2>3, <2>4
<1> QED BY <1>2, <1>6 DEF TreeInv, IsTree

LEMMA RemovedTree ==
    ASSUME TreeInv, NEW n \in Nodes, Exists(n),
           \A m \in Nodes \ {n} : Exists(m) => ~Below(at[m], at[n]),
           at' = [at EXCEPT ![n] = Gone]
    PROVE  TreeInv'
<1>1. \A m \in Nodes : at'[m] = IF m = n THEN Gone ELSE at[m] BY DEF TreeInv, Placed
<1>2. at' \in Placed BY DEF TreeInv, Placed
<1>3. ASSUME NEW m \in Nodes, at'[m] # Gone
      PROVE  /\ Len(at'[m]) = 1 \/ \E d \in Dirs : at'[d] = Front(at'[m])
             /\ \A k \in Nodes : at'[k] = at'[m] => k = m
  <2>1. m # n /\ at'[m] = at[m] /\ at[m] # Gone BY <1>1, <1>3
  <2>2. /\ Len(at[m]) = 1 \/ \E d \in Dirs : at[d] = Front(at[m])
        /\ \A k \in Nodes : at[k] = at[m] => k = m
    BY <2>1 DEF TreeInv, IsTree
  <2>3. at[m] \in Paths /\ Len(at[m]) >= 1
    <3>1. at[m] \in Paths /\ at[m] # <<>> BY <2>1 DEF TreeInv, Placed, FilePaths
    <3> QED BY <3>1, EmptySeq DEF Paths
  <2>4. ASSUME NEW d \in Dirs, at[d] = Front(at[m]) PROVE at'[d] = Front(at[m])
    <3>1. Below(at[m], Front(at[m])) BY <2>3, FrontIs
    <3>2. d # n BY <2>1, <2>4, <3>1 DEF Exists
    <3> QED BY <1>1, <2>4, <3>2 DEF Nodes
  <2>5. Len(at'[m]) = 1 \/ \E d \in Dirs : at'[d] = Front(at'[m]) BY <2>1, <2>2, <2>4
  <2> QED BY <1>1, <1>3, <2>1, <2>2, <2>5
<1> QED BY <1>2, <1>3 DEF TreeInv, IsTree

(* What moves with n, to where. *)
LEMMA RenamedGoes ==
    ASSUME TreeInv, NEW n \in Nodes, Exists(n), NEW p \in FilePaths
    PROVE  \A m \in Nodes :
               Renamed(n, p)[m] = IF Exists(m) /\ Below(at[m], at[n])
                                  THEN Relocated(p, at[m], Len(at[n])) ELSE at[m]
BY DEF Renamed, Relocated

LEMMA RenamedTree ==
    ASSUME TreeInv, NEW n \in Nodes, Exists(n), NEW p, Room(p), ~Below(p, at[n]),
           at' = Renamed(n, p)
    PROVE  TreeInv'
<1> DEFINE Moves(m) == Exists(m) /\ Below(at[m], at[n])
<1>1. p \in FilePaths /\ p \in Paths BY TreeTypes DEF Room
<1>2. \A m \in Nodes :
          at'[m] = IF Moves(m) THEN Relocated(p, at[m], Len(at[n])) ELSE at[m]
  BY <1>1, RenamedGoes
<1>3. \A m \in Nodes : Exists(m) => at[m] \in Paths /\ at[m] \in FilePaths /\ Len(at[m]) >= 1
  <2> SUFFICES ASSUME NEW m \in Nodes, Exists(m)
               PROVE  at[m] \in Paths /\ at[m] \in FilePaths /\ Len(at[m]) >= 1
    OBVIOUS
  <2>1. at[m] \in Paths /\ at[m] \in FilePaths /\ at[m] # <<>>
    BY DEF TreeInv, Placed, FilePaths, Exists
  <2> QED BY <2>1, EmptySeq DEF Paths
<1>4. at[n] \in Paths /\ Len(at[n]) \in Nat /\ Len(at[n]) >= 1 /\ Len(p) \in Nat
  BY <1>1, <1>3, BelowFacts
<1>5. ASSUME NEW m \in Nodes, Moves(m)
      PROVE  /\ Len(at[n]) \in 0..Len(at[m]) /\ Len(at[m]) \in Nat
             /\ at'[m] = Relocated(p, at[m], Len(at[n]))
             /\ at'[m] \in Paths /\ Below(at'[m], p)
  <2>1. at[m] \in Paths BY <1>3, <1>5
  <2>2. Len(at[n]) \in 0..Len(at[m]) /\ Len(at[m]) \in Nat BY <1>4, <1>5, <2>1, BelowFacts
  <2>3. at'[m] = Relocated(p, at[m], Len(at[n])) BY <1>2, <1>5
  <2>4. /\ Relocated(p, at[m], Len(at[n])) \in Paths
        /\ Below(Relocated(p, at[m], Len(at[n])), p)
    BY <1>1, <2>1, <2>2, BelowGoesOn DEF Relocated
  <2> QED BY <2>2, <2>3, <2>4
<1>6. \A m \in Nodes : ~Moves(m) => at'[m] = at[m] BY <1>2
<1>7. p # <<>> /\ Gone \notin Paths BY <1>1, TreeFacts DEF FilePaths
<1>8. ASSUME NEW m \in Nodes, Moves(m) PROVE at'[m] # Gone /\ at'[m] \in FilePaths
  <2>1. at'[m] \in Paths /\ Below(at'[m], p) BY <1>5, <1>8
  <2>2. Len(p) >= 1 /\ Len(at'[m]) >= Len(p) /\ Len(at'[m]) \in Nat
    BY <1>1, <1>4, <1>7, <2>1, BelowFacts, EmptySeq DEF Paths
  <2>3. at'[m] # <<>> BY <1>4, <2>2
  <2> QED BY <1>7, <2>1, <2>3 DEF FilePaths
<1>9. at' \in Placed
  <2>1. ASSUME NEW m \in Nodes PROVE at'[m] \in {Gone} \cup FilePaths
    BY <1>6, <1>8 DEF TreeInv, Placed
  <2>2. at' = [m \in Nodes |-> at'[m]] BY DEF Renamed
  <2> QED BY <2>1, <2>2 DEF Placed
<1>10. ~\E m \in Nodes : Exists(m) /\ Below(at[m], p)
  <2> SUFFICES ASSUME NEW m \in Nodes, Exists(m), Below(at[m], p) PROVE FALSE OBVIOUS
  <2>1. at[m] # p BY DEF Room, Occupied
  <2>2. \E d \in Dirs : at[d] = p BY <1>1, <2>1, DirAbove DEF TreeInv, Exists
  <2> QED BY <2>2 DEF Room, Occupied, Nodes
<1>11. ASSUME NEW m \in Nodes, at'[m] # Gone
       PROVE  /\ Len(at'[m]) = 1 \/ \E d \in Dirs : at'[d] = Front(at'[m])
              /\ \A k \in Nodes : at'[k] = at'[m] => k = m
  <2>1. CASE Moves(m)
    <3>1. /\ at'[m] = Relocated(p, at[m], Len(at[n])) /\ Below(at'[m], p)
          /\ at[m] \in Paths /\ Below(at[m], at[n]) /\ Exists(m)
      BY <1>3, <1>5, <2>1
    <3>2. ASSUME NEW k \in Nodes, at'[k] = at'[m] PROVE k = m
      <4>1. CASE Moves(k)
        <5>1. at'[k] = Relocated(p, at[k], Len(at[n])) /\ at[k] \in Paths /\ Below(at[k], at[n])
          BY <1>3, <1>5, <4>1
        <5>2. at[k] = at[m] BY <1>1, <1>4, <3>1, <3>2, <5>1, RelocatedEqual
        <5> QED BY <3>1, <5>2 DEF TreeInv, IsTree, Exists
      <4>2. CASE ~Moves(k)
        <5>1. at[k] = at'[m] BY <1>6, <3>2, <4>2
        <5>2. Exists(k) /\ Below(at[k], p) BY <1>11, <3>1, <5>1 DEF Exists
        <5> QED BY <1>10, <5>2
      <4> QED BY <4>1, <4>2
    <3>3. Len(at'[m]) = 1 \/ \E d \in Dirs : at'[d] = Front(at'[m])
      <4>1. CASE at[m] = at[n]
        <5>1. at'[m] = p BY <1>1, <1>4, <3>1, <4>1, RelocatedWhole
        <5>2. CASE Len(p) = 1 BY <5>1, <5>2
        <5>3. CASE \E d \in Dirs : at[d] = Front(p)
          <6>1. PICK d \in Dirs : at[d] = Front(p) BY <5>3
          <6>2. d \in Nodes BY DEF Nodes
          <6>3. Len(p) >= 1 BY <1>1, <1>4, <1>7, EmptySeq DEF Paths
          <6>4. Front(p) \in Paths /\ Below(p, Front(p)) BY <1>1, <6>3, FrontIs
          <6>5. ~Moves(d) BY <1>1, <1>4, <6>1, <6>4, BelowFacts
          <6>6. at'[d] = Front(p) BY <1>6, <6>1, <6>2, <6>5
          <6> QED BY <5>1, <6>6
        <5> QED BY <5>2, <5>3 DEF Room
      <4>2. CASE at[m] # at[n]
        <5>1. Len(at[n]) < Len(at[m]) /\ Len(at[m]) \in Nat
          BY <1>4, <3>1, <4>2, BelowFacts
        <5>2. PICK d \in Dirs : at[d] = Front(at[m])
          <6>1. Len(at[m]) # 1
            <7>1. /\ Len(at[n]) \in Nat /\ Len(at[n]) >= 1 /\ Len(at[m]) \in Nat
                  /\ Len(at[n]) < Len(at[m])
              BY <1>4, <5>1
            <7>2. \A i, j \in Nat : i >= 1 /\ i < j => j # 1 OBVIOUS
            <7> QED BY <7>1, <7>2
          <6> QED BY <3>1, <6>1 DEF TreeInv, IsTree, Exists
        <5>3. d \in Nodes BY DEF Nodes
        <5>4. /\ Front(at[m]) \in Paths /\ Len(Front(at[m])) = Len(at[m]) - 1
              /\ Below(at[m], Front(at[m]))
          BY <1>4, <3>1, <5>1, FrontIs
        <5>5. Below(Front(at[m]), at[n])
          <6>1. Below(Front(at[m]), at[n]) \/ Below(at[n], Front(at[m]))
            BY <1>4, <3>1, <5>4, BelowFacts
          <6>2. CASE Below(at[n], Front(at[m]))
            <7>1. Len(Front(at[m])) <= Len(at[n]) BY <1>4, <5>4, <6>2, BelowFacts
            <7>2. Len(Front(at[m])) = Len(at[n]) BY <1>4, <5>1, <5>4, <7>1
            <7>3. Front(at[m]) = at[n] BY <1>4, <5>4, <6>2, <7>2, BelowFacts
            <7> QED BY <1>4, <7>3, BelowFacts
          <6> QED BY <6>1, <6>2
        <5>6. Exists(d) BY <1>7, <5>2, <5>4 DEF Exists
        <5>7. at'[d] = Relocated(p, Front(at[m]), Len(at[n])) BY <1>2, <5>2, <5>3, <5>5, <5>6
        <5>8. Front(at'[m]) = Relocated(p, Front(at[m]), Len(at[n]))
          BY <1>1, <1>4, <3>1, <5>1, RelocatedFront
        <5> QED BY <5>7, <5>8
      <4> QED BY <4>1, <4>2
    <3> QED BY <3>2, <3>3
  <2>2. CASE ~Moves(m)
    <3>1. at'[m] = at[m] /\ Exists(m) BY <1>6, <1>11, <2>2 DEF Exists
    <3>2. at[m] \in Paths /\ Len(at[m]) >= 1 BY <1>3, <3>1
    <3>3. ASSUME NEW k \in Nodes, at'[k] = at'[m] PROVE k = m
      <4>1. CASE Moves(k)
        <5>1. Below(at[m], p) BY <1>5, <3>1, <3>3, <4>1
        <5> QED BY <1>10, <3>1, <5>1
      <4>2. CASE ~Moves(k)
        <5>1. at[k] = at[m] BY <1>6, <3>1, <3>3, <4>2
        <5> QED BY <3>1, <5>1 DEF TreeInv, IsTree, Exists
      <4> QED BY <4>1, <4>2
    <3>4. Len(at'[m]) = 1 \/ \E d \in Dirs : at'[d] = Front(at'[m])
      <4>1. CASE Len(at[m]) = 1 BY <3>1, <4>1
      <4>2. CASE \E d \in Dirs : at[d] = Front(at[m])
        <5>1. PICK d \in Dirs : at[d] = Front(at[m]) BY <4>2
        <5>2. d \in Nodes BY DEF Nodes
        <5>3. Front(at[m]) \in Paths /\ Below(at[m], Front(at[m])) BY <3>2, FrontIs
        <5>4. ~Moves(d) BY <1>4, <2>2, <3>1, <3>2, <5>1, <5>3, BelowFacts
        <5>5. at'[d] = Front(at'[m]) BY <1>6, <3>1, <5>1, <5>2, <5>4
        <5> QED BY <5>5
      <4> QED BY <3>1, <4>1, <4>2 DEF TreeInv, IsTree, Exists
    <3> QED BY <3>3, <3>4
  <2> QED BY <2>1, <2>2
<1> QED BY <1>9, <1>11 DEF TreeInv, IsTree

(* Two files of one directory have the same path but for the name. *)
LEMMA FrontOfEntry ==
    ASSUME NEW p \in Paths, NEW q \in Paths, InDir(p, q)
    PROVE  Front(p) = q /\ p \in FilePaths
<1>1. Len(p) = Len(q) + 1 /\ Len(q) \in Nat /\ Len(p) \in Nat BY DEF InDir, Paths
<1>2. Front(p) = SubSeq(p, 1, Len(q)) BY <1>1 DEF Front
<1>3. SubSeq(q, 1, Len(q)) = SubSeq(p, 1, Len(q)) BY DEF InDir, Below, IsPrefix
<1>4. SubSeq(q, 1, Len(q)) = q BY DEF Paths
<1>5. p # <<>> BY <1>1
<1> QED BY <1>2, <1>3, <1>4, <1>5 DEF FilePaths

LEMMA TreeStep ==
    ASSUME TreeInv, TreeTyped, RunInv, [Next]_vars
    PROVE  TreeInv'
<1>1. CASE at' = at BY <1>1 DEF TreeInv
<1>2. CASE OthersChange
  <2>0. PICK n \in Nodes : \E p \in Spots[n] : Change(n, p) BY <1>2 DEF OthersChange
  <2>1. PICK p \in Spots[n] : Change(n, p) BY <2>0
  <2>2. p \in {Gone} \cup FilePaths /\ p # at[n] BY <2>1, TreeTypes DEF Change
  <2>3. CASE p = Gone
    <3>1. Exists(n) /\ at' = [at EXCEPT ![n] = Gone] BY <2>1, <2>2, <2>3 DEF Change, Exists
    <3>2. \A m \in Nodes \ {n} : Exists(m) => ~Below(at[m], at[n]) BY <2>1, <2>3 DEF Change
    <3> QED BY <3>1, <3>2, RemovedTree
  <2>4. CASE p # Gone
    <3>1. Room(p) BY <2>1, <2>2, <2>4 DEF Change, Room
    <3>2. CASE Exists(n)
      <4>1. at' = Renamed(n, p) /\ ~Below(p, at[n]) BY <2>1, <2>4, <3>2 DEF Change
      <4> QED BY <3>1, <3>2, <4>1, RenamedTree
    <3>3. CASE ~Exists(n)
      <4>1. at' = [at EXCEPT ![n] = p] BY <2>1, <3>3 DEF Change
      <4> QED BY <3>1, <3>3, <4>1, MadeTree
    <3> QED BY <3>2, <3>3
  <2> QED BY <2>3, <2>4
<1>3. CASE Reconciles /\ at' # at
  <2>1. MakeArchive \/ ArchiveEntry
    BY <1>3, ReconcileActs
       DEF Reconciles, ListEntries, KeepEntry, AssociateEntry, WritePolicy, ReconcileDone, treeVars
  <2>2. run = "plan" /\ entries # <<>> BY <2>1 DEF MakeArchive, ArchiveEntry
  <2>3. entry \in Entries /\ entry \in Paths BY <2>2, TailOfEntries DEF RunInv
  <2>4. CASE MakeArchive
    <3>1. PICK d \in Dirs : ~Exists(d) /\ at' = [at EXCEPT ![d] = Archive]
      BY <2>4 DEF MakeArchive
    <3>2. PICK n \in Nodes : at[n] = entry BY <2>4 DEF MakeArchive, Occupied
    <3>3. Len(entry) = Len(ConfigDir) + 1 /\ Front(entry) = ConfigDir
      BY <2>3, TreeFacts, FrontOfEntry DEF Entries, InDir
    <3>4. InDir(Archive, ConfigDir) BY TreeFacts DEF InDir
    <3>5. Len(Archive) = Len(entry) /\ Front(Archive) = ConfigDir /\ Archive \in FilePaths
      BY <3>3, <3>4, TreeFacts, FrontOfEntry
    <3>6. at[n] # Gone BY <2>3, <3>2, TreeFacts
    <3>7. Len(entry) = 1 \/ \E e \in Dirs : at[e] = Front(entry)
      BY <3>2, <3>6 DEF TreeInv, IsTree
    <3>8. Room(Archive) BY <2>4, <3>3, <3>5, <3>7 DEF MakeArchive, Room
    <3> QED BY <3>1, <3>8, MadeTree DEF Nodes
  <2>5. CASE ArchiveEntry
    <3>1. PICK n \in Nodes : at[n] = entry /\ at' = Renamed(n, Archived(entry))
      BY <2>5 DEF ArchiveEntry
    <3>2. PICK x \in Names : Archived(entry) = Append(Canonical(Archive), x)
      BY <2>3, ArchivedIs
    <3>3. Canonical(Archive) \in Paths BY CanonicalTyped, TreeFacts
    <3>4. Archived(entry) \in FilePaths /\ Front(Archived(entry)) = Canonical(Archive)
      BY <3>2, <3>3, AppendIs
    <3>5. \E d \in Dirs : at[d] = Canonical(Archive) BY <2>5 DEF ArchiveEntry, IsDir
    <3>6. Room(Archived(entry)) BY <2>5, <3>4, <3>5 DEF ArchiveEntry, Room
    <3>7. ~Below(Archived(entry), at[n]) BY <2>5, <3>1 DEF ArchiveEntry
    <3>8. Exists(n) BY <2>3, <3>1, TreeFacts DEF Exists
    <3> QED BY <3>1, <3>6, <3>7, <3>8, RenamedTree
  <2> QED BY <2>1, <2>4, <2>5
<1>4. CASE StartDeploy \/ StartReconcile
  BY <1>1, <1>4 DEF StartDeploy, StartReconcile, BeginDeploy, BeginReconcile, treeVars
<1> QED BY <1>1, <1>2, <1>3, <1>4, Elsewhere DEF Next

(* Whatever is made, renamed, removed and archived, the files stay a tree:  *)
(* each has a place of its own, in a directory (Change, MakeArchive,        *)
(* ArchiveEntry).                                                           *)
THEOREM Trees == Spec => []TreeInv
<1>1. Init => TreeInv
  BY TreeAssumption, TreeTypes DEF Init, TreeInit, TreeInv, Placed
<1>2. TreeInv /\ (TreeTyped /\ RunInv) /\ [Next]_vars => TreeInv' BY TreeStep
<1> QED BY <1>1, <1>2, Reconciled, PTL DEF Spec

-----------------------------------------------------------------------------
(* The scope and what is found through its links.                           *)
Wanted(a, paths) == \E p \in ToSet(paths) : Below(a.logical, p)

ScopeSteps(G, S, paths, pairs) ==
    /\ G \in [0..Len(pairs) -> Seq(S)]
    /\ G[0] = paths
    /\ \A m \in 1..Len(pairs) :
           G[m] = IF pairs[m].real \in ToSet(G[m - 1]) \/ ~Wanted(pairs[m], paths) THEN G[m - 1]
                  ELSE Append(G[m - 1], pairs[m].real)
    /\ ExpandScope(paths, pairs) = G[Len(pairs)]

LEMMA ExpandScopeSteps ==
    ASSUME NEW S, NEW paths \in Seq(S), NEW X, \A a \in X : a.real \in S,
           NEW pairs \in Seq(X)
    PROVE  \E G : ScopeSteps(G, S, paths, pairs)
<1> DEFINE n == Len(pairs)
           f == [p \in Seq(S) \X X |->
                    IF p[2].real \in ToSet(p[1]) \/ ~Wanted(p[2], paths) THEN p[1]
                    ELSE Append(p[1], p[2].real)]
           rec(h) == [t \in SUBSET (1..n) |-> IF t = {} THEN paths ELSE
                        IF \/ pairs[Max(t)].real \in ToSet(h[t \ {Max(t)}])
                           \/ ~Wanted(pairs[Max(t)], paths)
                        THEN h[t \ {Max(t)}]
                        ELSE Append(h[t \ {Max(t)}], pairs[Max(t)].real)]
           iter == CHOOSE h : h = rec(h)
<1>1. n \in Nat /\ DOMAIN pairs = 1..n /\ \A m \in 1..n : pairs[m] \in X
  BY LenProperties, ElementOfSeq
<1>2. f \in [Seq(S) \X X -> Seq(S)]
  <2>1. \A p \in Seq(S) \X X : p[1] \in Seq(S) /\ p[2] \in X OBVIOUS
  <2>2. \A r \in Seq(S), e \in S : Append(r, e) \in Seq(S) BY AppendProperties
  <2> QED BY <2>1, <2>2
<1>3. \A r \in Seq(S), e \in X :
          f[r, e] = IF e.real \in ToSet(r) \/ ~Wanted(e, paths) THEN r ELSE Append(r, e.real)
  OBVIOUS
<1> HIDE DEF f, n
<1>4. \A t \in SUBSET (1..n) : t # {} => pairs[Max(t)] \in X /\ t \ {Max(t)} \in SUBSET (1..n)
  BY <1>1, MaxIn
<1>5. PICK g \in [SUBSET (1..n) -> Seq(S)] : FoldsThrough(g, SUBSET (1..n), paths, f, pairs)
  BY <1>1, <1>2, FoldDefined
<1>6. g = rec(g)
  <2>1. ASSUME NEW t \in SUBSET (1..n) PROVE g[t] = rec(g)[t]
    <3>1. t # {} => g[t \ {Max(t)}] \in Seq(S) BY <1>4
    <3> QED BY <1>3, <1>4, <1>5, <3>1 DEF FoldsThrough
  <2> QED BY <2>1
<1>7. iter = rec(iter)
  <2> HIDE DEF rec
  <2> QED BY <1>6
<1>8. iter[{}] = paths /\ FoldsWhere(iter, SUBSET (1..n), Seq(S), f, pairs)
  <2> HIDE DEF iter
  <2>1. iter[{}] = paths BY <1>7
  <2>2. ASSUME NEW t \in SUBSET (1..n), t # {}, iter[t \ {Max(t)}] \in Seq(S)
        PROVE  iter[t] = f[iter[t \ {Max(t)}], pairs[Max(t)]]
    <3>1. iter[t] = IF \/ pairs[Max(t)].real \in ToSet(iter[t \ {Max(t)}])
                       \/ ~Wanted(pairs[Max(t)], paths)
                    THEN iter[t \ {Max(t)}]
                    ELSE Append(iter[t \ {Max(t)}], pairs[Max(t)].real)
      BY <1>7, <2>2
    <3> HIDE DEF rec
    <3>2. pairs[Max(t)] \in X BY <1>4, <2>2
    <3> QED BY <1>3, <2>2, <3>1, <3>2
  <2> QED BY <2>1, <2>2 DEF FoldsWhere
<1>9. ExpandScope(paths, pairs) = iter[1..n]
  BY <1>1 DEF ExpandScope, FoldLeft, MapThenFoldSet, Wanted
<1> HIDE DEF iter
<1>10. PICK G \in [0..n -> Seq(S)] :
         /\ G[0] = paths
         /\ \A m \in 1..n : G[m] = f[G[m - 1], pairs[m]]
         /\ iter[1..n] = G[n]
  <2> HIDE DEF rec
  <2>1. FoldsAlong(iter, n, Seq(S), paths, f, pairs)
    BY ONLY <1>1, <1>2, <1>8, FoldSteps
  <2> QED BY <2>1 DEF FoldsAlong
<1>11. \A m \in 1..n :
           G[m] = IF pairs[m].real \in ToSet(G[m - 1]) \/ ~Wanted(pairs[m], paths) THEN G[m - 1]
                  ELSE Append(G[m - 1], pairs[m].real)
  <2> SUFFICES ASSUME NEW m \in 1..n
               PROVE  G[m] = IF pairs[m].real \in ToSet(G[m - 1]) \/ ~Wanted(pairs[m], paths)
                             THEN G[m - 1] ELSE Append(G[m - 1], pairs[m].real)
    OBVIOUS
  <2>1. m - 1 \in 0..n /\ pairs[m] \in X BY <1>1, Upto
  <2>2. G[m - 1] \in Seq(S) BY <2>1
  <2>3. G[m] = f[G[m - 1], pairs[m]] BY <1>10
  <2> QED BY <1>3, <2>1, <2>2, <2>3
<1> QED BY <1>9, <1>10, <1>11 DEF n, ScopeSteps

(* What the first m of the links add. *)
Found(paths, pairs, m) == {pairs[k].real : k \in {j \in 1..m : Wanted(pairs[j], paths)}}

LEMMA ExpandScopeIs ==
    ASSUME NEW S, NEW paths \in Seq(S), NEW X, \A a \in X : a.real \in S,
           NEW pairs \in Seq(X)
    PROVE  /\ ExpandScope(paths, pairs) \in Seq(S)
           /\ ToSet(ExpandScope(paths, pairs)) = ToSet(paths) \cup Found(paths, pairs, Len(pairs))
<1> DEFINE n == Len(pairs)
<1>1. PICK G : ScopeSteps(G, S, paths, pairs) BY ExpandScopeSteps
<1>2. /\ G[0] = paths /\ ExpandScope(paths, pairs) = G[n] /\ n \in Nat
      /\ \A m \in 0..n : G[m] \in Seq(S)
      /\ \A m \in 1..n :
             G[m] = IF pairs[m].real \in ToSet(G[m - 1]) \/ ~Wanted(pairs[m], paths) THEN G[m - 1]
                    ELSE Append(G[m - 1], pairs[m].real)
  BY <1>1, LenProperties DEF ScopeSteps
<1>3. \A m \in 1..n : pairs[m].real \in S BY ElementOfSeq
<1> HIDE DEF n
<1> DEFINE Far(m) == ToSet(G[m]) = ToSet(paths) \cup Found(paths, pairs, m)
           T == {m \in Nat : m <= n => Far(m)}
<1>4. Far(0) BY <1>2 DEF Found
<1>5. ASSUME NEW m \in Nat, m + 1 <= n, Far(m) PROVE Far(m + 1)
  <2>1. m + 1 \in 1..n /\ m \in 0..n /\ (m + 1) - 1 = m BY <1>2, <1>5, Successor
  <2> DEFINE e == pairs[m + 1].real
  <2>2. G[m] \in Seq(S) /\ e \in S BY <1>2, <1>3, <2>1
  <2>3. G[m + 1] = IF e \in ToSet(G[m]) \/ ~Wanted(pairs[m + 1], paths) THEN G[m]
                   ELSE Append(G[m], e)
    BY <1>2, <2>1
  <2>4. ToSet(Append(G[m], e)) = ToSet(G[m]) \cup {e} 
    <3> HIDE DEF e
    <3> QED BY <2>2, ToSetAppend
  <2>5. Found(paths, pairs, m + 1) = Found(paths, pairs, m)
                                     \cup (IF Wanted(pairs[m + 1], paths) THEN {e} ELSE {})
    <3>1. 1..(m + 1) = (1..m) \cup {m + 1} OBVIOUS
    <3> QED BY <3>1 DEF Found
  <2> QED BY <1>5, <2>3, <2>4, <2>5
<1>6. Nat \subseteq T
  <2>1. 0 \in T BY <1>4
  <2>2. ASSUME NEW m \in Nat, m \in T PROVE m + 1 \in T
    <3> SUFFICES ASSUME m + 1 <= n PROVE Far(m + 1) OBVIOUS
    <3>1. m <= n BY <1>2
    <3>2. Far(m) BY <2>2, <3>1
    <3> QED BY <1>5, <3>2
  <2> HIDE DEF T
  <2> QED BY <2>1, <2>2, Induction
<1>7. Far(n) BY <1>2, <1>6
<1>8. n \in 0..n BY <1>2
<1> QED BY <1>2, <1>7, <1>8 DEF n

-----------------------------------------------------------------------------
(* What is marked, and what is still ahead.                                 *)
(* No link has moved since the process started. *)
Held == moved \cap Links = {}

(* What the process may mark: nothing that a link leads through. *)
Plain(p) == p \in FilePaths /\ Through(p) = {}

WatchedLink(l) == Exists(l) /\ InDir(at[l], ConfigDir) /\ BelowRoot(at[l])

ScopeOf(q) ==
    \/ \E r \in ToSet(Roots) : q = Canonical(r)
    \/ pc # "aliases" /\ \E l \in Links : WatchedLink(l) /\ q = Target[l]

BelowScope(q) == \E p \in ToSet(scope) : Below(q, p)

(* The scope is the roots and what the links lead to. *)
ScopeInv ==
    /\ scope \in Seq(FilePaths)
    /\ excluded = Canonical(Archive)
    /\ \A p \in ToSet(scope) : Plain(p) /\ ScopeOf(p)
    /\ \A r \in ToSet(Roots) : Canonical(r) \in ToSet(scope)
    /\ pc # "aliases" =>
           \A l \in Links, d \in Dirs \ moved :
               WatchedLink(l) /\ Exists(d) /\ Below(at[d], Target[l]) =>
                   Target[l] \in ToSet(scope)

Walking == pc \in {"mark", "children", "notify", "serve"}

(* The paths that are yet to be marked, or to be read. *)
Ahead == ToSet(trees) \cup ToSet(todo)

InReach(p) == ~IsExcluded(p) /\ BelowScope(p)

(* A directory that stays is marked, or the walk has yet to come to it. *)
GuardInv ==
    /\ todo \in Seq(FilePaths)
    /\ \A p \in Ahead : Plain(p) /\ InReach(p)
    /\ pc = "children" => Plain(current) /\ InReach(current)
    /\ \A d \in marked : d \in Dirs /\ (d \notin moved => Exists(d) /\ InReach(at[d]))
    /\ \A d \in Dirs \ (moved \cup marked) : Exists(d) /\ InReach(at[d]) =>
           \/ \E p \in Ahead : Below(at[d], p)
           \/ pc = "children" /\ Below(at[d], current) /\ at[d] # current

AuditInv ==
    /\ \A p \in ToSet(trees) : p \in ToSet(scope)
    /\ \A p \in ToSet(scope) : p \in ToSet(trees) \/ MountOf(p) \in marked

WalkInv ==
    /\ pc \in {"scope", "aliases", "learner", "policy"} =>
           trees = <<>> /\ todo = <<>> /\ marked = {}
    /\ pc \in {"notify", "serve"} => trees = <<>> /\ todo = <<>>
    /\ pc = "mark" => trees # <<>> \/ todo # <<>>
    /\ mode # "guard" => todo = <<>> /\ pc # "children"
    /\ Held /\ pc \notin {"none", "scope"} => ScopeInv
    /\ Held /\ Walking =>
           trees \in Seq(FilePaths) /\ (IF mode = "guard" THEN GuardInv ELSE AuditInv)

-----------------------------------------------------------------------------
(* Directories have a path without links, and links lead where they say.    *)
LEMMA ExistsIs ==
    ASSUME TreeInv, NEW n \in Nodes, Exists(n)
    PROVE  at[n] \in FilePaths /\ at[n] \in Paths
BY TreeTypes DEF TreeInv, Placed, Exists

LEMMA DirPlain ==
    ASSUME TreeInv, NEW d \in Dirs, Exists(d)
    PROVE  Plain(at[d])
<1>1. d \in Nodes /\ at[d] \in FilePaths BY ExistsIs DEF Nodes
<1>2. ASSUME NEW l \in Through(at[d]) PROVE FALSE
  <2>1. l \in Links /\ Exists(l) /\ Below(at[d], at[l]) BY <1>2 DEF Through
  <2>2. d = l BY <1>1, <2>1, NothingBelowLinks DEF TreeInv, Exists
  <2> QED BY <2>1, <2>2, TreeAssumption
<1> QED BY <1>1, <1>2 DEF Plain

LEMMA PlainCanonical == ASSUME NEW p, Plain(p) PROVE Canonical(p) = p
BY CanonicalIs DEF Plain

LEMMA DirCanonical ==
    ASSUME TreeTyped, TreeInv, NEW p \in Paths, IsDir(p)
    PROVE  Plain(Canonical(p)) /\ \E d \in Dirs : at[d] = Canonical(p) /\ Exists(d)
<1>1. PICK d \in Dirs : at[d] = Canonical(p) BY DEF IsDir
<1>2. Exists(d) BY <1>1, CanonicalTyped, TreeFacts DEF Exists
<1>3. Plain(at[d]) BY <1>2, DirPlain
<1> QED BY <1>1, <1>2, <1>3

LEMMA LinkCanonical ==
    ASSUME TreeInv, NEW l \in Links, Exists(l)
    PROVE  Canonical(at[l]) = Target[l]
<1>1. l \in Nodes /\ at[l] \in Paths /\ Target[l] \in Paths BY ExistsIs, TreeTypes
<1>2. l \in Through(at[l]) BY <1>1, BelowFacts DEF Through
<1>3. ASSUME NEW k \in Through(at[l]) PROVE k = l
  <2>1. k \in Links /\ Exists(k) /\ Below(at[l], at[k]) BY DEF Through
  <2> QED BY <1>1, <2>1, NothingBelowLinks DEF TreeInv, Exists
<1>4. (CHOOSE k \in Through(at[l]) : TRUE) = l BY <1>2, <1>3
<1>5. Canonical(at[l]) = CanonicalBy(at[l], l) BY <1>2, <1>4, CanonicalIs
<1> QED BY <1>1, <1>5, RelocatedWhole DEF CanonicalBy, Relocated

(* A directory at a path without links is the only one there. *)
LEMMA DirAtIs ==
    ASSUME TreeInv, NEW p, Plain(p), IsDir(p)
    PROVE  DirAt(p) \in Dirs /\ at[DirAt(p)] = p /\ \A d \in Dirs : at[d] = p => d = DirAt(p)
<1>1. Canonical(p) = p BY PlainCanonical
<1>2. DirAt(p) \in Dirs /\ at[DirAt(p)] = p BY <1>1 DEF IsDir, DirAt
<1>3. p # Gone BY TreeTypes, TreeFacts DEF Plain
<1> QED BY <1>2, <1>3 DEF TreeInv, IsTree, Nodes

(* The directories in a directory, by their places. *)
LEMMA ChildrenAre ==
    ASSUME TreeInv, NEW p, Plain(p)
    PROVE  /\ IsFiniteSet(ChildDirectories(p))
           /\ ChildDirectories(p) =
                  {at[d] : d \in {e \in Dirs : Exists(e) /\ InDir(at[e], p) /\ ~IsExcluded(at[e])}}
<1> DEFINE E == {e \in Dirs : Exists(e) /\ InDir(at[e], p)}
           g == [d \in E |-> p \o SubSeq(at[d], Len(at[d]), Len(at[d]))]
<1>1. Canonical(p) = p /\ p \in Paths /\ Len(p) \in Nat
  BY PlainCanonical, TreeTypes, BelowFacts DEF Plain
<1>2. ASSUME NEW d \in E PROVE p \o SubSeq(at[d], Len(at[d]), Len(at[d])) = at[d]
  <2>1. d \in Nodes /\ Exists(d) /\ InDir(at[d], p) BY DEF Nodes
  <2>2. at[d] \in Paths /\ Below(at[d], p) /\ Len(at[d]) = Len(p) + 1
    BY <2>1, ExistsIs DEF InDir
  <2>3. Relocated(p, at[d], Len(p)) = at[d] BY <1>1, <2>2, RelocatedSelf
  <2> QED BY <2>2, <2>3 DEF Relocated
<1>3. IsFiniteSet(E)
  <2>1. E \subseteq Nodes BY DEF Nodes
  <2> HIDE DEF E
  <2> QED BY <2>1, TreeAssumption, FS_Subset
<1>4. \A d \in E : g[d] = at[d] BY <1>2
<1>5. ChildDirectories(p) = {q \in {g[d] : d \in E} : ~IsExcluded(q)}
  BY <1>1 DEF ChildDirectories
<1> HIDE DEF g
<1>6. IsFiniteSet({g[d] : d \in E})
  <2> HIDE DEF E
  <2> QED BY <1>3, FiniteImage
<1>7. IsFiniteSet(ChildDirectories(p))
  <2>1. ChildDirectories(p) \subseteq {g[d] : d \in E} BY <1>5
  <2> QED BY <1>6, <2>1, FS_Subset
<1>8. ChildDirectories(p) =
          {at[d] : d \in {e \in Dirs : Exists(e) /\ InDir(at[e], p) /\ ~IsExcluded(at[e])}}
  BY <1>4, <1>5
<1> QED BY <1>7, <1>8

(* What is strictly below a path is below a directory in it. *)
LEMMA BelowEntry ==
    ASSUME TreeInv, NEW d \in Dirs, Exists(d), NEW p \in FilePaths, Below(at[d], p), at[d] # p
    PROVE  \E e \in Dirs : Exists(e) /\ InDir(at[e], p) /\ Below(at[d], at[e])
<1>1. d \in Nodes /\ at[d] \in Paths /\ p \in Paths BY ExistsIs, TreeTypes DEF Nodes
<1>2. Len(p) \in Nat /\ Len(at[d]) \in Nat /\ Len(p) <= Len(at[d]) /\ Len(p) # Len(at[d])
  BY <1>1, BelowFacts
<1> DEFINE k == Len(p) + 1
           q == SubSeq(at[d], 1, k)
<1>3. k \in Nat /\ k \in 0..Len(at[d]) /\ 1 <= k /\ (k < Len(at[d]) \/ k = Len(at[d])) BY <1>2
<1> HIDE DEF k
<1>4. /\ q \in Paths /\ Len(q) = k /\ \A i \in 1..k : q[i] = at[d][i]
      /\ k = Len(at[d]) => q = at[d]
  BY <1>1, <1>3, ElementOfSeq, SubSeqProperties, PrefixSteps DEF Paths
<1>5. \E e \in Dirs : at[e] = q
  <2>1. CASE k < Len(at[d]) BY <1>1, <1>3, <2>1, LeadingIn DEF TreeInv, Exists
  <2>2. CASE k = Len(at[d]) BY <1>4, <2>2
  <2> QED BY <1>3, <2>1, <2>2
<1> HIDE DEF q
<1>6. Below(at[d], q)
  <2>1. Len(q) <= Len(at[d]) /\ \A i \in 1..Len(q) : q[i] = at[d][i] BY <1>3, <1>4
  <2> QED BY <1>1, <1>4, <2>1, BelowIs
<1>7. Below(q, p)
  <2>1. Below(q, p) \/ Below(p, q) BY <1>1, <1>4, <1>6, BelowFacts
  <2>2. ~Below(p, q)
    <3>1. Len(q) = Len(p) + 1 BY <1>4 DEF k
    <3>2. ~(Len(q) <= Len(p)) BY <1>2, <3>1
    <3> QED BY <1>1, <1>4, <3>2, BelowFacts
  <2> QED BY <2>1, <2>2
<1>8. PICK e \in Dirs : at[e] = q BY <1>5
<1>9. Exists(e) BY <1>4, <1>8, TreeFacts DEF Exists
<1> QED BY <1>4, <1>6, <1>7, <1>8, <1>9 DEF InDir, k

-----------------------------------------------------------------------------
(* The scope, from its making on.                                           *)
LEMMA LinksStay ==
    ASSUME \A l \in Links : at'[l] = at[l], NEW p
    PROVE  Through(p)' = Through(p) /\ Canonical(p)' = Canonical(p) /\ (Plain(p)' <=> Plain(p))
<1>1. Through(p)' = Through(p) BY DEF Through, Exists
<1>2. Canonical(p)' = Canonical(p)
  <2>1. \A l \in Through(p) : at'[l] = at[l] BY DEF Through
  <2> QED BY <1>1, <2>1, CanonicalStays
<1> QED BY <1>1, <1>2 DEF Plain

LEMMA RootsStay ==
    ASSUME \A l \in Links : at'[l] = at[l]
    PROVE  /\ \A q : BelowRoot(q)' <=> BelowRoot(q)
           /\ \A l \in Links : WatchedLink(l)' <=> WatchedLink(l)
<1>1. ASSUME NEW q PROVE BelowRoot(q)' <=> BelowRoot(q)
  <2>1. \A r : Canonical(r)' = Canonical(r) BY LinksStay
  <2> QED BY <2>1 DEF BelowRoot
<1>2. ASSUME NEW l \in Links PROVE WatchedLink(l)' <=> WatchedLink(l)
  <2>1. \A r : Canonical(r)' = Canonical(r) BY LinksStay
  <2> QED BY <2>1 DEF WatchedLink, BelowRoot, Exists
<1> QED BY <1>1, <1>2

(* It stays right as long as no link moves. *)
LEMMA ScopeKeeps ==
    ASSUME ScopeInv, UNCHANGED <<scope, excluded>>, moved \subseteq moved',
           \A l \in Links : at'[l] = at[l],
           \A d \in Dirs \ moved' : at'[d] = at[d],
           pc = "aliases" <=> pc' = "aliases"
    PROVE  ScopeInv'
<1>1. \A p : Canonical(p)' = Canonical(p) /\ (Plain(p)' <=> Plain(p)) BY LinksStay
<1>2. \A l \in Links : WatchedLink(l)' <=> WatchedLink(l) BY RootsStay
<1>3. \A q : ScopeOf(q)' <=> ScopeOf(q) BY <1>1, <1>2 DEF ScopeOf
<1>4. ASSUME pc' # "aliases", NEW l \in Links, NEW d \in Dirs \ moved', WatchedLink(l)',
             at'[d] # Gone, Below(at'[d], Target[l])
      PROVE  Target[l] \in ToSet(scope)
  <2>1. d \in Dirs \ moved /\ at'[d] = at[d] OBVIOUS
  <2>2. WatchedLink(l) /\ Exists(d) /\ Below(at[d], Target[l]) BY <1>2, <1>4, <2>1 DEF Exists
  <2> QED BY <1>4, <2>1, <2>2 DEF ScopeInv
<1> QED BY <1>1, <1>3, <1>4 DEF ScopeInv, Exists

LEMMA RootsTyped ==
    /\ \A r \in ToSet(Roots) : r \in FilePaths /\ r \in Paths
    /\ \E r : r \in ToSet(Roots)
<1>1. Roots \in Seq(FilePaths) /\ Roots # <<>> BY ServiceAssumption
<1>2. ToSet(Roots) \subseteq FilePaths BY <1>1, ToSetIs
<1>3. Head(Roots) \in ToSet(Roots) BY <1>1, ToSetHead
<1> QED BY <1>2, <1>3, TreeTypes

LEMMA ScopeResolved ==
    ASSUME TreeTyped, TreeInv, ResolveScope
    PROVE  ScopeInv'
<1>1. at' = at /\ pc' = "aliases" /\ excluded' = Canonical(Archive)
      /\ scope' = [n \in DOMAIN Roots |-> Canonical(Roots[n])]
      /\ \A r \in ToSet(Roots) : IsDir(r)
  BY DEF ResolveScope, treeVars
<1>2. \A p : Canonical(p)' = Canonical(p) /\ (Plain(p)' <=> Plain(p)) BY <1>1, LinksStay
<1>3. \A r \in ToSet(Roots) : Plain(Canonical(r)) /\ Canonical(r) \in FilePaths
  BY <1>1, RootsTyped, DirCanonical DEF Plain
<1>4. /\ DOMAIN Roots = 1..Len(Roots) /\ Len(Roots) \in Nat
      /\ \A n \in 1..Len(Roots) : Roots[n] \in ToSet(Roots)
      /\ \A r \in ToSet(Roots) : \E n \in 1..Len(Roots) : r = Roots[n]
  <2>1. Roots \in Seq(FilePaths) BY ServiceAssumption
  <2> QED BY <2>1, LenProperties DEF ToSet
<1>5. scope' \in Seq(FilePaths) BY <1>1, <1>3, <1>4
<1>6. \A p \in ToSet(scope') : \E r \in ToSet(Roots) : p = Canonical(r) BY <1>1, <1>4 DEF ToSet
<1>7. \A r \in ToSet(Roots) : Canonical(r) \in ToSet(scope') BY <1>1, <1>4 DEF ToSet
<1>8. ASSUME NEW p \in ToSet(scope') PROVE Plain(p)' /\ ScopeOf(p)'
  <2>1. PICK r \in ToSet(Roots) : p = Canonical(r) BY <1>6
  <2>2. Plain(p)' BY <1>2, <1>3, <2>1
  <2>3. ScopeOf(p)' BY <1>2, <2>1 DEF ScopeOf
  <2> QED BY <2>2, <2>3
<1> QED BY <1>1, <1>2, <1>5, <1>7, <1>8 DEF ScopeInv

(* What reading the links adds is what they lead to. *)
LEMMA AliasElements ==
    ASSUME TreeTyped, TreeInv, NEW paths \in Seq(FilePaths), NEW s \in SymlinkAliases
    PROVE  /\ ExpandScope(paths, s) \in Seq(FilePaths)
           /\ ToSet(ExpandScope(paths, s)) = ToSet(paths) \cup
                  {Target[l] : l \in {k \in Links :
                      /\ Exists(k) /\ InDir(at[k], ConfigDir) /\ IsDir(at[k])
                      /\ \E p \in ToSet(paths) : Below(at[k], p)}}
<1> DEFINE F == {l \in Links : Exists(l) /\ InDir(at[l], ConfigDir) /\ IsDir(at[l])}
           X == [real : FilePaths, logical : Paths]
<1>1. PICK f \in SetToSeqs(F) :
          s = [n \in DOMAIN f |-> [real |-> Canonical(at[f[n]]), logical |-> at[f[n]]]]
  BY DEF SymlinkAliases
<1>2. IsFiniteSet(F)
  <2>1. F \subseteq Nodes BY DEF Nodes
  <2> HIDE DEF F
  <2> QED BY <2>1, TreeAssumption, FS_Subset
<1>3. f \in Seq(F) /\ ToSet(f) = F
  <2> HIDE DEF F
  <2> QED BY <1>1, <1>2, OrdersOf
<1>4. \A l \in F : Canonical(at[l]) = Target[l] /\ Target[l] \in FilePaths /\ at[l] \in Paths
  BY LinkCanonical, TreeTypes, ExistsIs
<1>5. DOMAIN f = 1..Len(f) /\ Len(f) \in Nat /\ \A n \in 1..Len(f) : f[n] \in F
  <2> HIDE DEF F
  <2> QED BY <1>3, LenProperties, ElementOfSeq
<1>6. /\ \A n \in 1..Len(f) : s[n].real = Target[f[n]] /\ s[n].logical = at[f[n]] /\ s[n] \in X
      /\ s \in [1..Len(f) -> X]
  BY <1>1, <1>4, <1>5
<1>7. s \in Seq(X) /\ Len(s) = Len(f)
  <2> HIDE DEF X
  <2> QED BY <1>5, <1>6
<1>8. \A l \in F : \E n \in 1..Len(f) : l = f[n]
  <2> HIDE DEF F
  <2> QED BY <1>3, <1>5 DEF ToSet
<1>9. Found(paths, s, Len(s)) =
          {Target[l] : l \in {k \in F : \E p \in ToSet(paths) : Below(at[k], p)}}
  <2> HIDE DEF F, X
  <2>1. ASSUME NEW q \in Found(paths, s, Len(s))
        PROVE  q \in {Target[l] : l \in {k \in F : \E p \in ToSet(paths) : Below(at[k], p)}}
    <3>1. PICK n \in 1..Len(f) : q = s[n].real /\ Wanted(s[n], paths)
      BY <1>7 DEF Found
    <3> QED BY <1>5, <1>6, <3>1 DEF Wanted
  <2>2. ASSUME NEW l \in F, \E p \in ToSet(paths) : Below(at[l], p)
        PROVE  Target[l] \in Found(paths, s, Len(s))
    <3>1. PICK n \in 1..Len(f) : l = f[n] BY <1>8
    <3>2. s[n].real = Target[l] /\ s[n].logical = at[l] BY <1>6, <3>1
    <3>3. Wanted(s[n], paths) BY <2>2, <3>2 DEF Wanted
    <3> QED BY <1>7, <3>2, <3>3 DEF Found
  <2> QED BY <2>1, <2>2
<1>10. /\ ExpandScope(paths, s) \in Seq(FilePaths)
       /\ ToSet(ExpandScope(paths, s)) = ToSet(paths) \cup Found(paths, s, Len(s))
  <2>1. \A a \in X : a.real \in FilePaths OBVIOUS
  <2> HIDE DEF X
  <2> QED BY <1>7, <2>1, ExpandScopeIs
<1> QED BY <1>9, <1>10

LEMMA ScopeExpanded ==
    ASSUME TreeTyped, TreeInv, ScopeInv, ReadAliases
    PROVE  ScopeInv'
<1> DEFINE L == {k \in Links : /\ Exists(k) /\ InDir(at[k], ConfigDir) /\ IsDir(at[k])
                               /\ \E p \in ToSet(scope) : Below(at[k], p)}
<1>1. at' = at /\ pc = "aliases" /\ pc' # "aliases" /\ UNCHANGED <<excluded, moved>>
  BY DEF ReadAliases, treeVars
<1>2. \A p : Canonical(p)' = Canonical(p) /\ (Plain(p)' <=> Plain(p)) BY <1>1, LinksStay
<1>3. \A l \in Links : WatchedLink(l)' <=> WatchedLink(l) BY <1>1, RootsStay
<1>4. scope' \in Seq(FilePaths) /\ ToSet(scope') = ToSet(scope) \cup {Target[l] : l \in L}
  <2>1. scope' = ExpandScope(scope, aliases') /\ aliases' \in SymlinkAliases
    BY DEF ReadAliases
  <2> QED BY <2>1, AliasElements DEF ScopeInv
<1>5. \A q : (\E p \in ToSet(scope) : Below(q, p)) <=> BelowRoot(q)
  BY <1>1 DEF ScopeInv, ScopeOf, BelowRoot
<1>6. ASSUME NEW l \in L PROVE WatchedLink(l) /\ Plain(Target[l])
  <2>1. WatchedLink(l) BY <1>5 DEF WatchedLink
  <2>2. at[l] \in Paths /\ Canonical(at[l]) = Target[l] BY ExistsIs, TreeTypes, LinkCanonical
  <2> QED BY <2>1, <2>2, DirCanonical
<1>7. ASSUME NEW p \in ToSet(scope') PROVE Plain(p)' /\ ScopeOf(p)'
  <2>1. CASE p \in ToSet(scope)
    <3>1. Plain(p) /\ \E r \in ToSet(Roots) : p = Canonical(r) BY <1>1, <2>1 DEF ScopeInv, ScopeOf
    <3> QED BY <1>2, <3>1 DEF ScopeOf
  <2>2. CASE p \notin ToSet(scope)
    <3>1. PICK l \in L : p = Target[l] BY <1>4, <2>2
    <3> QED BY <1>1, <1>2, <1>3, <1>6, <3>1 DEF ScopeOf
  <2> QED BY <2>1, <2>2
<1>8. ASSUME NEW l \in Links, NEW d \in Dirs, WatchedLink(l), Exists(d), Below(at[d], Target[l])
      PROVE  Target[l] \in ToSet(scope')
  <2>1. Exists(l) /\ InDir(at[l], ConfigDir) /\ \E p \in ToSet(scope) : Below(at[l], p)
    BY <1>5, <1>8 DEF WatchedLink
  <2>2. \E e \in Dirs : at[e] = Target[l]
    BY <1>8, TreeTypes, DirAbove DEF TreeInv, Exists, Nodes
  <2>3. IsDir(at[l]) BY <2>1, <2>2, LinkCanonical DEF IsDir
  <2> QED BY <1>4, <2>1, <2>3
<1>9. \A r \in ToSet(Roots) : Canonical(r)' \in ToSet(scope') BY <1>2, <1>4 DEF ScopeInv
<1>10. excluded' = Canonical(Archive)' BY <1>1, <1>2 DEF ScopeInv
<1>11. ASSUME NEW l \in Links, NEW d \in Dirs \ moved', WatchedLink(l)', at'[d] # Gone,
              Below(at'[d], Target[l])
       PROVE  Target[l] \in ToSet(scope')
  BY <1>1, <1>3, <1>8, <1>11 DEF Exists
<1> HIDE DEF L
<1> QED BY <1>4, <1>7, <1>9, <1>10, <1>11 DEF ScopeInv, Exists

-----------------------------------------------------------------------------
(* The walk.                                                                *)

(* What others do while it goes on takes from it what they move. *)
LEMMA WalkWaits ==
    ASSUME WalkInv, UNCHANGED <<pc, mode, scope, excluded, trees, todo, current, marked>>,
           moved \subseteq moved', \A n \in Nodes : at'[n] # at[n] => n \in moved'
    PROVE  WalkInv'
<1> SUFFICES ASSUME Held' 
             PROVE  /\ pc \notin {"none", "scope"} => ScopeInv'
                    /\ Walking => /\ trees \in Seq(FilePaths)
                                  /\ IF mode = "guard" THEN GuardInv' ELSE AuditInv'
  BY DEF WalkInv, Walking
<1>1. /\ Held
      /\ \A l \in Links : at'[l] = at[l]
      /\ \A d \in Dirs \ moved' : at'[d] = at[d] /\ d \in Dirs \ moved
  BY DEF Held, Nodes
<1>2. ASSUME pc \notin {"none", "scope"} PROVE ScopeInv'
  BY <1>1, <1>2, ScopeKeeps DEF WalkInv
<1>3. \A p : /\ (Plain(p)' <=> Plain(p)) /\ (InReach(p)' <=> InReach(p))
             /\ (BelowScope(p)' <=> BelowScope(p))
  BY <1>1, LinksStay DEF InReach, IsExcluded, BelowScope
<1>4. ASSUME Walking, mode = "guard" PROVE GuardInv'
  <2>1. GuardInv BY <1>1, <1>4 DEF WalkInv
  <2>2. Ahead' = Ahead BY DEF Ahead
  <2>3. ASSUME NEW d \in marked
        PROVE  d \in Dirs /\ (d \notin moved' => at'[d] # Gone /\ InReach(at[d])')
    <3>1. d \in Dirs BY <2>1 DEF GuardInv
    <3>2. ASSUME d \notin moved' PROVE at'[d] # Gone /\ InReach(at[d])'
      <4>1. at'[d] = at[d] /\ d \notin moved BY <1>1, <3>1, <3>2
      <4>2. Exists(d) /\ InReach(at[d]) BY <2>1, <4>1 DEF GuardInv
      <4> QED BY <4>1, <4>2 DEF Exists, InReach, IsExcluded, BelowScope
    <3> QED BY <3>1, <3>2
  <2>4. ASSUME NEW d \in Dirs \ (moved' \cup marked), at'[d] # Gone, InReach(at[d])'
        PROVE  \/ \E p \in Ahead : Below(at'[d], p)
               \/ pc = "children" /\ Below(at'[d], current) /\ at'[d] # current
    <3>1. at'[d] = at[d] /\ d \in Dirs \ (moved \cup marked) BY <1>1
    <3>2. Exists(d) /\ InReach(at[d])
      BY <2>4, <3>1 DEF Exists, InReach, IsExcluded, BelowScope
    <3> QED BY <2>1, <3>1, <3>2 DEF GuardInv
  <2> QED BY <1>3, <2>1, <2>2, <2>3, <2>4 DEF GuardInv, Exists
<1>5. ASSUME Walking, mode # "guard" PROVE AuditInv'
  BY <1>1, <1>5 DEF WalkInv, AuditInv
<1>6. Walking => trees \in Seq(FilePaths) BY <1>1 DEF WalkInv
<1> QED BY <1>2, <1>4, <1>5, <1>6

(* No walk, or one that has not begun. *)
LEMMA WalkEnds == ASSUME NoProcess PROVE WalkInv'
<1>1. pc' = "none" /\ todo' = <<>> BY DEF NoProcess
<1> QED BY <1>1 DEF WalkInv, Walking

LEMMA WalkBegins == ASSUME Launch PROVE WalkInv'
<1>1. pc' = "scope" /\ trees' = <<>> /\ todo' = <<>> /\ marked' = {} BY DEF Launch
<1> QED BY <1>1 DEF WalkInv, Walking

LEMMA BeforeWalk ==
    ASSUME WalkInv, TreeTyped, TreeInv, ResolveScope \/ ReadAliases \/ ReadLearnerAliases
    PROVE  WalkInv'
<1>1. /\ pc \in {"scope", "aliases", "learner"} /\ pc' \in {"aliases", "learner", "policy"}
      /\ UNCHANGED <<at, moved, mode, trees, todo, marked>>
  BY DEF ResolveScope, ReadAliases, ReadLearnerAliases, treeVars
<1>2. ASSUME Held PROVE ScopeInv'
  <2>1. CASE ResolveScope BY <2>1, ScopeResolved
  <2>2. CASE ReadAliases
    <3>1. ScopeInv BY <1>2, <2>2 DEF WalkInv, ReadAliases
    <3> QED BY <2>2, <3>1, ScopeExpanded
  <2>3. CASE ReadLearnerAliases
    <3>1. /\ ScopeInv /\ pc = "learner" /\ pc' = "policy" /\ UNCHANGED <<scope, excluded>>
      BY <1>2, <2>3 DEF WalkInv, ReadLearnerAliases
    <3> QED BY <1>1, <3>1, ScopeKeeps
  <2> QED BY <2>1, <2>2, <2>3
<1> QED BY <1>1, <1>2 DEF WalkInv, Walking, Held

(* The excluded path as the walk goes by it. *)
LEMMA ExcludedTyped ==
    ASSUME TreeTyped, ScopeInv
    PROVE  excluded \in Paths /\ \A p \in ToSet(scope) : p \in FilePaths /\ p \in Paths
<1>1. excluded \in Paths BY CanonicalTyped, TreeFacts DEF ScopeInv
<1>2. ToSet(scope) \subseteq FilePaths BY ToSetIs DEF ScopeInv
<1> QED BY <1>1, <1>2, TreeTypes

LEMMA WalkLoads ==
    ASSUME WalkInv, TreeTyped, TreeInv, LoadPolicy
    PROVE  WalkInv'
<1>1. /\ pc = "policy" /\ pc' = (IF trees' = <<>> THEN "notify" ELSE "mark")
      /\ UNCHANGED <<at, moved, mode, scope, excluded, todo, current, marked>>
      /\ trees' = IF mode = "guard" THEN Without(scope, {p \in ToSet(scope) : IsExcluded(p)})
                  ELSE scope
  BY DEF LoadPolicy, treeVars
<1>2. todo = <<>> /\ marked = {} BY <1>1 DEF WalkInv
<1> SUFFICES ASSUME Held
             PROVE  /\ ScopeInv' /\ trees' \in Seq(FilePaths)
                    /\ IF mode = "guard" THEN GuardInv' ELSE AuditInv'
  BY <1>1, <1>2 DEF WalkInv, Walking, Held
<1>3. ScopeInv BY <1>1 DEF WalkInv
<1>4. ScopeInv' BY <1>1, <1>3, ScopeKeeps
<1>5. CASE mode = "guard"
  <2> DEFINE gone == {p \in ToSet(scope) : IsExcluded(p)}
  <2>1. trees' \in Seq(FilePaths) /\ ToSet(trees') = ToSet(scope) \ gone
    BY <1>1, <1>3, <1>5, SieveElements DEF ScopeInv
  <2>2. Ahead' = ToSet(scope) \ gone BY <1>1, <1>2, <2>1, ToSetNone DEF Ahead
  <2>3. ASSUME NEW p \in Ahead' PROVE Plain(p)' /\ InReach(p)'
    <3>1. p \in ToSet(scope) /\ ~IsExcluded(p) BY <2>2
    <3>2. Plain(p) /\ p \in Paths BY <1>3, <3>1, ExcludedTyped DEF ScopeInv
    <3>3. InReach(p) BY <3>1, <3>2, BelowFacts DEF InReach, BelowScope
    <3> QED BY <1>1, <3>2, <3>3, LinksStay DEF InReach, IsExcluded, BelowScope
  <2>4. ASSUME NEW d \in Dirs, Exists(d), InReach(at[d])
        PROVE  \E p \in Ahead' : Below(at[d], p)
    <3>1. PICK p \in ToSet(scope) : Below(at[d], p) BY <2>4 DEF InReach, BelowScope
    <3>2. at[d] \in Paths BY <2>4, ExistsIs DEF Nodes
    <3>3. ~IsExcluded(p)
      BY <1>3, <2>4, <3>1, <3>2, ExcludedTyped, BelowFacts DEF InReach, IsExcluded
    <3> QED BY <2>2, <3>1, <3>3
  <2>5. todo' \in Seq(FilePaths) BY <1>1, <1>2, EmptySeq
  <2>6. ASSUME NEW d \in Dirs, at'[d] # Gone, InReach(at[d])'
        PROVE  \E p \in Ahead' : Below(at'[d], p)
    BY <1>1, <2>4, <2>6 DEF Exists, InReach, IsExcluded, BelowScope
  <2>7. GuardInv' BY <1>1, <1>2, <2>3, <2>5, <2>6 DEF GuardInv, Exists
  <2> QED BY <1>4, <1>5, <2>1, <2>7
<1>6. CASE mode # "guard"
  <2>1. trees' = scope BY <1>1, <1>6
  <2>2. AuditInv' BY <1>1, <2>1 DEF AuditInv
  <2> QED BY <1>3, <1>4, <1>6, <2>1, <2>2 DEF ScopeInv
<1> QED BY <1>5, <1>6

LEMMA WalkMount ==
    ASSUME WalkInv, TreeTyped, TreeInv, MarkMount
    PROVE  WalkInv'
<1>1. /\ pc = "mark" /\ mode # "guard" /\ trees' = Tail(trees)
      /\ pc' = (IF trees' = <<>> THEN "notify" ELSE "mark")
      /\ marked' = marked \cup {MountOf(Canonical(Head(trees)))}
      /\ UNCHANGED <<at, moved, mode, scope, excluded, todo, current>>
  BY DEF MarkMount, treeVars
<1>2. todo = <<>> /\ trees # <<>> BY <1>1 DEF WalkInv
<1> SUFFICES ASSUME Held PROVE ScopeInv' /\ trees' \in Seq(FilePaths) /\ AuditInv'
  BY <1>1, <1>2 DEF WalkInv, Walking, Held
<1>3. ScopeInv /\ AuditInv /\ trees \in Seq(FilePaths) BY <1>1 DEF WalkInv, Walking
<1>4. ScopeInv' BY <1>1, <1>3, ScopeKeeps
<1>5. /\ Head(trees) \in ToSet(trees) /\ Tail(trees) \in Seq(FilePaths)
      /\ ToSet(trees) = ToSet(Tail(trees)) \cup {Head(trees)}
  BY <1>2, <1>3, ToSetHead
<1>6. Canonical(Head(trees)) = Head(trees)
  BY <1>3, <1>5, PlainCanonical DEF ScopeInv, AuditInv
<1>7. AuditInv' BY <1>1, <1>3, <1>5, <1>6 DEF AuditInv
<1> QED BY <1>1, <1>4, <1>5, <1>7

LEMMA NextIs ==
    ASSUME trees \in Seq(FilePaths), todo \in Seq(FilePaths), trees # <<>> \/ todo # <<>>,
           MarkDirectory
    PROVE  /\ NextPath \in Ahead /\ Ahead = Ahead' \cup {NextPath}
           /\ trees' \in Seq(FilePaths) /\ todo' \in Seq(FilePaths)
<1>1. CASE todo # <<>>
  <2>1. NextPath = Last(todo) /\ todo' = Front(todo) /\ trees' = trees
    BY <1>1 DEF NextPath, MarkDirectory
  <2> QED BY <1>1, <2>1, ToSetLast DEF Ahead
<1>2. CASE todo = <<>>
  <2>1. NextPath = Head(trees) /\ trees' = Tail(trees) /\ todo' = todo /\ trees # <<>>
    BY <1>2 DEF NextPath, MarkDirectory
  <2> QED BY <2>1, ToSetHead DEF Ahead
<1> QED BY <1>1, <1>2

LEMMA WalkMarks ==
    ASSUME WalkInv, TreeTyped, TreeInv, MarkDirectory
    PROVE  WalkInv'
<1>1. /\ pc = "mark" /\ pc' = "children" /\ mode = "guard" /\ IsDir(NextPath)
      /\ marked' = marked \cup {DirAt(NextPath)} /\ current' = NextPath
      /\ UNCHANGED <<at, moved, mode, scope, excluded>>
  BY DEF MarkDirectory, treeVars
<1> SUFFICES ASSUME Held PROVE ScopeInv' /\ trees' \in Seq(FilePaths) /\ GuardInv'
  BY <1>1 DEF WalkInv, Walking, Held
<1>2. /\ ScopeInv /\ GuardInv /\ trees \in Seq(FilePaths) /\ todo \in Seq(FilePaths)
      /\ trees # <<>> \/ todo # <<>>
  BY <1>1 DEF WalkInv, Walking, GuardInv
<1>3. ScopeInv' BY <1>1, <1>2, ScopeKeeps
<1>4. /\ NextPath \in Ahead /\ Ahead = Ahead' \cup {NextPath}
      /\ trees' \in Seq(FilePaths) /\ todo' \in Seq(FilePaths)
  BY <1>2, NextIs
<1>0. PICK q, e : q = NextPath /\ e = DirAt(NextPath) OBVIOUS
<1>5. Plain(q) /\ InReach(q) BY <1>0, <1>2, <1>4 DEF GuardInv
<1>6. e \in Dirs /\ at[e] = q /\ \A d \in Dirs : at[d] = q => d = e
  BY <1>0, <1>1, <1>5, DirAtIs
<1>7. Exists(e) BY <1>5, <1>6, TreeTypes, TreeFacts DEF Plain, Exists
<1>8. marked' = marked \cup {e} /\ current' = q /\ Ahead = Ahead' \cup {q} BY <1>0, <1>1, <1>4
<1>9. \A p : (Plain(p)' <=> Plain(p)) /\ (InReach(p)' <=> InReach(p))
  BY <1>1, LinksStay DEF InReach, IsExcluded, BelowScope
<1>10. ASSUME NEW d \in marked'
       PROVE  d \in Dirs /\ (d \notin moved => Exists(d) /\ InReach(at[d]))
  <2>1. CASE d = e BY <1>5, <1>6, <1>7, <2>1
  <2>2. CASE d # e BY <1>2, <1>8, <2>2 DEF GuardInv
  <2> QED BY <2>1, <2>2
<1>11. ASSUME NEW d \in Dirs \ (moved \cup marked'), Exists(d), InReach(at[d])
       PROVE  (\E p \in Ahead' : Below(at[d], p)) \/ (Below(at[d], q) /\ at[d] # q)
  <2>1. d \in Dirs \ (moved \cup marked) /\ d # e BY <1>8
  <2>2. PICK p \in Ahead : Below(at[d], p) BY <1>1, <1>2, <1>11, <2>1 DEF GuardInv
  <2>3. at[d] # q BY <1>6, <2>1
  <2> QED BY <1>8, <2>2, <2>3
<1>12. \A d : Exists(d)' <=> Exists(d) BY <1>1 DEF Exists
<1>13. \A d : InReach(at[d])' <=> InReach(at[d]) BY <1>1 DEF InReach, IsExcluded, BelowScope
<1>14. GuardInv'
  <2>1. \A p \in Ahead' : Plain(p)' /\ InReach(p)' BY <1>2, <1>8, <1>9 DEF GuardInv
  <2>2. Plain(current)' /\ InReach(current)'
    <3>1. Plain(q)' /\ InReach(q)' BY <1>5, <1>9
    <3> QED BY <1>1, <1>8, <3>1 DEF Plain, Through, InReach, IsExcluded, BelowScope
  <2>3. \A d \in marked' : d \in Dirs /\ (d \notin moved' => Exists(d)' /\ InReach(at[d])')
    BY <1>1, <1>10, <1>12, <1>13
  <2>4. \A d \in Dirs \ (moved' \cup marked') : Exists(d)' /\ InReach(at[d])' =>
            \/ \E p \in Ahead' : Below(at'[d], p)
            \/ pc' = "children" /\ Below(at'[d], current') /\ at'[d] # current'
    BY <1>1, <1>8, <1>11, <1>12, <1>13
  <2> QED BY <1>4, <2>1, <2>2, <2>3, <2>4 DEF GuardInv
<1> QED BY <1>3, <1>4, <1>14

LEMMA WalkReads ==
    ASSUME WalkInv, TreeTyped, TreeInv, ReadChildren
    PROVE  WalkInv'
<1>1. /\ pc = "children" /\ pc' = (IF todo' = <<>> /\ trees = <<>> THEN "notify" ELSE "mark")
      /\ mode = "guard"
      /\ UNCHANGED <<at, moved, mode, scope, excluded, trees, marked>>
  BY DEF ReadChildren, WalkInv, treeVars
<1>0. PICK s \in SetToSeqs(ChildDirectories(current)) : todo' = todo \o s BY DEF ReadChildren
<1> SUFFICES ASSUME Held PROVE ScopeInv' /\ trees' \in Seq(FilePaths) /\ GuardInv'
  BY <1>1 DEF WalkInv, Walking, Held
<1>2. /\ ScopeInv /\ GuardInv /\ trees \in Seq(FilePaths) /\ todo \in Seq(FilePaths)
      /\ Plain(current) /\ InReach(current)
  BY <1>1 DEF WalkInv, Walking, GuardInv
<1>3. ScopeInv' BY <1>1, <1>2, ScopeKeeps
<1> DEFINE C == ChildDirectories(current)
<1>4. /\ IsFiniteSet(C)
      /\ C = {at[d] : d \in {e \in Dirs : Exists(e) /\ InDir(at[e], current) /\ ~IsExcluded(at[e])}}
  BY <1>2, ChildrenAre
<1>5. ASSUME NEW p \in C PROVE Plain(p) /\ InReach(p) /\ p \in FilePaths
  <2>1. PICK e \in Dirs : /\ p = at[e] /\ Exists(e) /\ InDir(at[e], current)
                          /\ ~IsExcluded(at[e])
    BY <1>4
  <2>2. Plain(p) BY <2>1, DirPlain
  <2>3. PICK r \in ToSet(scope) : Below(current, r) BY <1>2 DEF InReach, BelowScope
  <2>4. p \in Paths /\ current \in Paths /\ r \in Paths
    BY <1>2, <2>2, <2>3, ExcludedTyped, TreeTypes DEF Plain
  <2>5. Below(p, r) BY <2>1, <2>3, <2>4, BelowFacts DEF InDir
  <2> QED BY <2>1, <2>2, <2>3, <2>5 DEF InReach, BelowScope, Plain
<1>6. s \in Seq(C) /\ ToSet(s) = C
  <2>1. s \in SetToSeqs(C) BY <1>0
  <2> HIDE DEF C
  <2> QED BY <1>4, <2>1, OrdersOf
<1> HIDE DEF C
<1>7. s \in Seq(FilePaths) 
  <2>1. C \subseteq FilePaths BY <1>5
  <2> QED BY <1>6, <2>1
<1>8. todo' \in Seq(FilePaths) /\ Ahead' = Ahead \cup C
  <2>1. todo' \in Seq(FilePaths) /\ ToSet(todo') = ToSet(todo) \cup ToSet(s)
    BY <1>0, <1>2, <1>7, ToSetConcat
  <2> QED BY <1>1, <1>6, <2>1 DEF Ahead
<1>9. ASSUME NEW d \in Dirs \ (moved \cup marked), Exists(d), InReach(at[d])
      PROVE  \E p \in Ahead' : Below(at[d], p)
  <2>1. CASE \E p \in Ahead : Below(at[d], p) BY <1>8, <2>1
  <2>2. CASE Below(at[d], current) /\ at[d] # current
    <3>1. PICK e \in Dirs : Exists(e) /\ InDir(at[e], current) /\ Below(at[d], at[e])
      BY <1>2, <1>9, <2>2, BelowEntry DEF Plain
    <3>2. at[d] \in Paths /\ at[e] \in Paths BY <1>9, <3>1, ExistsIs DEF Nodes
    <3>3. ~IsExcluded(at[e])
      BY <1>2, <1>9, <3>1, <3>2, ExcludedTyped, BelowFacts DEF InReach, IsExcluded
    <3>4. at[e] \in C BY <1>4, <3>1, <3>3
    <3> QED BY <1>8, <3>1, <3>4
  <2> QED BY <1>2, <1>9, <2>1, <2>2 DEF GuardInv
<1>10. \A p : (Plain(p)' <=> Plain(p)) /\ (InReach(p)' <=> InReach(p))
  BY <1>1, LinksStay DEF InReach, IsExcluded, BelowScope
<1>11. \A d : (Exists(d)' <=> Exists(d)) /\ (InReach(at[d])' <=> InReach(at[d]))
  BY <1>1 DEF Exists, InReach, IsExcluded, BelowScope
<1>12. GuardInv'
  <2>1. \A p \in Ahead' : Plain(p)' /\ InReach(p)'
    BY <1>2, <1>5, <1>8, <1>10 DEF GuardInv
  <2>2. pc' # "children" BY <1>1
  <2>3. \A d \in marked' : d \in Dirs /\ (d \notin moved' => Exists(d)' /\ InReach(at[d])')
    BY <1>1, <1>2, <1>11 DEF GuardInv
  <2>4. \A d \in Dirs \ (moved' \cup marked') : Exists(d)' /\ InReach(at[d])' =>
            \E p \in Ahead' : Below(at'[d], p)
    BY <1>1, <1>9, <1>11
  <2> QED BY <1>8, <2>1, <2>2, <2>3, <2>4 DEF GuardInv
<1> QED BY <1>1, <1>2, <1>3, <1>12

LEMMA WalkDone ==
    ASSUME WalkInv, NotifyReady
    PROVE  WalkInv'
<1>1. /\ pc = "notify" /\ pc' = "serve"
      /\ UNCHANGED <<at, moved, mode, scope, excluded, trees, todo, current, marked>>
  BY DEF NotifyReady, treeVars
<1>2. trees = <<>> /\ todo = <<>> BY <1>1 DEF WalkInv
<1> SUFFICES ASSUME Held
             PROVE  /\ ScopeInv' /\ trees \in Seq(FilePaths)
                    /\ IF mode = "guard" THEN GuardInv' ELSE AuditInv'
  BY <1>1, <1>2 DEF WalkInv, Walking, Held
<1>3. /\ ScopeInv /\ trees \in Seq(FilePaths)
      /\ IF mode = "guard" THEN GuardInv ELSE AuditInv
  BY <1>1 DEF WalkInv, Walking
<1>4. ScopeInv' BY <1>1, <1>3, ScopeKeeps
<1>5. CASE mode = "guard"
  <2>1. \A p : (Plain(p)' <=> Plain(p)) /\ (InReach(p)' <=> InReach(p))
    BY <1>1, LinksStay DEF InReach, IsExcluded, BelowScope
  <2>2. \A d : (Exists(d)' <=> Exists(d)) /\ (InReach(at[d])' <=> InReach(at[d]))
    BY <1>1 DEF Exists, InReach, IsExcluded, BelowScope
  <2>3. Ahead' = Ahead BY <1>1 DEF Ahead
  <2>4. GuardInv' BY <1>1, <1>3, <1>5, <2>1, <2>2, <2>3 DEF GuardInv
  <2> QED BY <1>3, <1>4, <1>5, <2>4
<1>6. CASE mode # "guard"
  <2>1. AuditInv' BY <1>1, <1>3, <1>6 DEF AuditInv
  <2> QED BY <1>3, <1>4, <1>6, <2>1
<1> QED BY <1>5, <1>6

LEMMA WalkStep ==
    ASSUME WalkInv, TreeTyped, TreeInv, [Next]_vars
    PROVE  WalkInv'
<1>1. ASSUME UNCHANGED <<pc, mode, scope, excluded, trees, todo, current, marked, moved, at>>
      PROVE  WalkInv'
  BY <1>1, WalkWaits
<1>2. CASE OthersChange \/ Reconciles
  <2>1. /\ UNCHANGED <<pc, mode, scope, excluded, trees, todo, current, marked>>
        /\ moved' = IF pc = "none" THEN moved ELSE moved \cup {n \in Nodes : at'[n] # at[n]}
    BY <1>2 DEF OthersChange, Reconciles
  <2>2. CASE pc = "none" BY <2>1, <2>2 DEF WalkInv, Walking
  <2>3. CASE pc # "none"
    <3>1. moved \subseteq moved' /\ \A n \in Nodes : at'[n] # at[n] => n \in moved'
      BY <2>1, <2>3
    <3> QED BY <2>1, <3>1, WalkWaits
  <2> QED BY <2>2, <2>3
<1>3. CASE ProcessRuns
  <2>1. ProcessSteps BY <1>3 DEF ProcessRuns
  <2>2. StartFails => NoProcess BY DEF StartFails
  <2> QED
    BY <2>1, <2>2, BeforeWalk, WalkLoads, WalkMount, WalkMarks, WalkReads, WalkDone, WalkEnds
       DEF ProcessSteps
<1>4. CASE SystemdRuns
  <2>1. SystemdSteps BY <1>4 DEF SystemdRuns
  <2>2. CASE Restart BY <2>2, WalkBegins DEF Restart
  <2>3. CASE ReadyReceived \/ TouchMarker \/ DeathNoticed
    BY <1>1, <2>3 DEF ReadyReceived, TouchMarker, DeathNoticed, treeVars, processVars
  <2> QED BY <2>1, <2>2, <2>3 DEF SystemdSteps
<1>5. CASE ProcessDies BY <1>5, WalkEnds DEF ProcessDies, Dies
<1>6. CASE Learns
  <2>1. PICK s, d : Observe(s, d) \/ WriteFails(s, d) BY <1>6 DEF Learns
  <2>2. CASE Observe(s, d)
    BY <1>1, <2>2 DEF Observe, treeVars, serviceVars, processVars
  <2>3. CASE WriteFails(s, d) BY <2>3, WalkEnds DEF WriteFails
  <2> QED BY <2>1, <2>2, <2>3
<1>7. CASE Deploys
  <2>1. DeploySteps BY <1>7 DEF Deploys
  <2>2. CASE StopService BY <2>2, WalkEnds DEF StopService
  <2>3. CASE Launch BY <2>3, WalkBegins
  <2>4. CASE ~StopService /\ ~Launch
    <3>1. UNCHANGED <<at, processVars>>
      BY <2>1, <2>4 DEF DeploySteps, OpenConfig, CopyConfig, InstallUnit, ReloadUnit,
            RestartService, ServiceStarted, RestoreService, VerifyService, VerifyMarker,
            treeVars, serviceVars
    <3> QED BY <1>1, <3>1 DEF processVars
  <2> QED BY <2>2, <2>3, <2>4
<1>8. CASE StartDeploy \/ DeployGoesWrong \/ StartReconcile
  <2>1. UNCHANGED <<at, processVars>>
    BY <1>8 DEF StartDeploy, BeginDeploy, DeployGoesWrong, DeployFails, Interrupted,
          LeftByInstall, StartReconcile, BeginReconcile, treeVars, serviceVars
  <2> QED BY <1>1, <2>1 DEF processVars
<1>9. CASE UNCHANGED vars
  BY <1>1, <1>9 DEF vars, treeVars, serviceVars, processVars
<1> QED BY <1>2, <1>3, <1>4, <1>5, <1>6, <1>7, <1>8, <1>9 DEF Next

LEMMA WalkInit == Init => WalkInv
<1> SUFFICES ASSUME Init PROVE WalkInv OBVIOUS
<1>1. pc = "scope" /\ trees = <<>> /\ todo = <<>> /\ marked = {}
  BY DEF Init, ServiceInit
<1> QED BY <1>1 DEF WalkInv, Walking

(* The top-level directory of a path is that of any path it is below. *)
LEMMA SameMount ==
    ASSUME NEW p \in FilePaths, NEW q \in FilePaths, Below(p, q)
    PROVE  MountOf(p) = MountOf(q)
<1>1. p \in Paths /\ q \in Paths /\ Len(q) \in Nat BY TreeTypes, BelowFacts
<1>2. Len(q) >= 1 BY <1>1, EmptySeq DEF FilePaths, Paths
<1>3. q[1] = p[1]
  <2>1. 1 \in 1..Len(q) BY <1>1, <1>2
  <2> QED BY <1>1, <2>1, BelowIs
<1> QED BY <1>3 DEF MountOf

LEMMA MarksRight ==
    ASSUME TreeTyped, TreeInv, WalkInv
    PROVE  MarkedExactly
<1> SUFFICES ASSUME pc = "serve", Held
             PROVE  /\ \A d \in Dirs \ moved : Exists(d) => (Watched(d) <=> ShouldBeWatched(d))
                    /\ mode = "audit" => \A d \in Dirs : Exists(d) =>
                           (BelowRoot(at[d]) /\ ~Below(at[d], Canonical(Archive)) => Watched(d))
  BY DEF MarkedExactly, Held
<1>1. /\ ScopeInv /\ trees = <<>> /\ todo = <<>>
      /\ IF mode = "guard" THEN GuardInv ELSE AuditInv
  BY DEF WalkInv, Walking
<1>2. \A q : IsExcluded(q) <=> Below(q, Canonical(Archive)) BY <1>1 DEF ScopeInv, IsExcluded
<1>4. \A q : BelowRoot(q) => BelowScope(q) BY <1>1 DEF ScopeInv, BelowRoot, BelowScope
<1>5. ASSUME NEW d \in Dirs, Exists(d), InReach(at[d])
      PROVE  ShouldBeWatched(d)
  <2>1. PICK p \in ToSet(scope) : Below(at[d], p) BY <1>5 DEF InReach, BelowScope
  <2>2. ScopeOf(p) BY <1>1 DEF ScopeInv
  <2>3. CASE \E r \in ToSet(Roots) : p = Canonical(r)
    BY <1>2, <1>5, <2>1, <2>3 DEF ShouldBeWatched, BelowRoot, InReach
  <2>4. CASE \E l \in Links : WatchedLink(l) /\ p = Target[l]
    BY <1>2, <1>5, <2>1, <2>4 DEF ShouldBeWatched, WatchedLink, InReach
  <2> QED BY <2>2, <2>3, <2>4 DEF ScopeOf
<1>6. ASSUME NEW d \in Dirs \ moved, Exists(d), ShouldBeWatched(d)
      PROVE  InReach(at[d])
  <2>1. ~IsExcluded(at[d]) BY <1>2, <1>6 DEF ShouldBeWatched
  <2>2. CASE BelowRoot(at[d]) BY <1>4, <2>1, <2>2 DEF InReach
  <2>3. CASE ~BelowRoot(at[d])
    <3>1. PICK l \in Links : WatchedLink(l) /\ Below(at[d], Target[l])
      BY <1>6, <2>3 DEF ShouldBeWatched, WatchedLink
    <3>2. Target[l] \in ToSet(scope) BY <1>1, <1>6, <3>1 DEF ScopeInv
    <3> QED BY <2>1, <3>1, <3>2 DEF InReach, BelowScope
  <2> QED BY <2>2, <2>3
<1>7. CASE mode = "guard"
  <2>1. GuardInv /\ Ahead = {} BY <1>1, <1>7, ToSetNone DEF Ahead
  <2>2. ASSUME NEW d \in Dirs \ moved, Exists(d) PROVE d \in marked <=> InReach(at[d])
    <3>1. d \in marked => InReach(at[d]) BY <2>1 DEF GuardInv
    <3>2. InReach(at[d]) => d \in marked BY <2>1, <2>2 DEF GuardInv
    <3> QED BY <3>1, <3>2
  <2> QED BY <1>5, <1>6, <1>7, <2>2 DEF Watched
<1>8. CASE mode # "guard"
  <2>1. AuditInv /\ ToSet(trees) = {} BY <1>1, <1>8, ToSetNone
  <2>2. ASSUME NEW d \in Dirs, Exists(d) PROVE Watched(d) <=> InReach(at[d])
    <3>1. Watched(d) => InReach(at[d]) BY <1>8 DEF Watched, InReach, BelowScope
    <3>2. ASSUME InReach(at[d]) PROVE MountOf(at[d]) \in marked
      <4>1. PICK p \in ToSet(scope) : Below(at[d], p) BY <3>2 DEF InReach, BelowScope
      <4>2. p \in FilePaths /\ at[d] \in FilePaths
        BY <1>1, <2>2, ExcludedTyped, ExistsIs DEF Nodes
      <4>3. MountOf(p) = MountOf(at[d]) BY <4>1, <4>2, SameMount
      <4> QED BY <2>1, <4>3 DEF AuditInv
    <3> QED BY <1>8, <3>1, <3>2 DEF Watched, InReach, BelowScope
  <2>3. ASSUME NEW d \in Dirs, Exists(d), BelowRoot(at[d]), ~Below(at[d], Canonical(Archive))
        PROVE  Watched(d)
    BY <1>2, <1>4, <2>2, <2>3 DEF InReach
  <2> QED BY <1>5, <1>6, <2>2, <2>3
<1> QED BY <1>7, <1>8

(* Once the service is ready, and as long as no link has moved since it     *)
(* started, it watches of the directories that have stayed exactly those    *)
(* below a root or what a link leads to, and not in the archive             *)
(* (mark_path_trees, mark_path_tree, expand_scope_with_aliases).            *)
THEOREM Marks == Spec => []MarkedExactly
<1>1. WalkInv /\ (TreeTyped /\ RunInv) /\ TreeInv /\ [Next]_vars => WalkInv' BY WalkStep
<1>2. (TreeTyped /\ RunInv) /\ TreeInv /\ WalkInv => MarkedExactly BY MarksRight
<1> QED BY <1>1, <1>2, WalkInit, Reconciled, Trees, PTL DEF Spec
=============================================================================
