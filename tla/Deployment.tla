------------------------------ MODULE Deployment ------------------------------
(****************************************************************************)
(* deploy.sh: the service is stopped, the repository's policy and the unit  *)
(* of the selected mode are installed, the service is started again and     *)
(* what it has become is verified.                                          *)
(****************************************************************************)
EXTENDS Service

VARIABLES
    unitFile,  \* the mode of the installed unit file, or "cut"
    deploy,    \* the step deploy.sh is at
    selected   \* --mode

deployVars == <<unitFile, deploy, selected>>

DeployInit == unitFile = unit /\ deploy = "idle" /\ selected = "audit"

BeginDeploy(m) ==
    /\ deploy' = "stop" /\ selected' = m
    /\ UNCHANGED <<treeVars, serviceVars, unitFile>>

(* Variant: the service runs on while its policy is replaced. *)
LeaveRunning ==
    /\ deploy = "stop"
    /\ deploy' = "config"
    /\ UNCHANGED <<treeVars, serviceVars, unitFile, selected>>

StopService ==
    /\ deploy = "stop"
    /\ service' = "stopped" /\ marker' = FALSE
    /\ NoProcess
    /\ deploy' = "config"
    /\ UNCHANGED <<treeVars, unit, restarted, deaths, unitFile, selected>>

(* install removes the old file, makes a new one and copies. *)
OpenConfig ==
    /\ deploy = "config"
    /\ policy' = PolicyFile("installing", {})
    /\ deploy' = "copy"
    /\ UNCHANGED <<at, changes, serviceVars, unitFile, selected>>

(* Variant: a copy that ends early goes unnoticed. *)
CopyUnchecked ==
    /\ deploy = "copy"
    /\ policy' \in CutShort("cut", Deployed) \cup {PolicyFile("whole", Deployed)}
    /\ deploy' = "unit"
    /\ UNCHANGED <<at, changes, serviceVars, unitFile, selected>>

CopyConfig ==
    /\ deploy = "copy"
    /\ policy' = PolicyFile("whole", Deployed)
    /\ deploy' = "unit"
    /\ UNCHANGED <<at, changes, serviceVars, unitFile, selected>>

(* Nobody reads the unit file before the reload: its copy is one step, and  *)
(* may fail or be interrupted in this place.                                *)
InstallUnit ==
    /\ deploy = "unit"
    /\ unitFile' = selected
    /\ deploy' = "reload"
    /\ UNCHANGED <<treeVars, serviceVars, selected>>

ReloadUnit ==
    /\ deploy = "reload"
    /\ unit' = unitFile
    /\ deploy' = "restart"
    /\ UNCHANGED <<treeVars, processVars, service, marker, restarted, deaths,
                   unitFile, selected>>

(* systemctl restart, of a service that is stopped, waits for its start. *)
RestartService ==
    /\ deploy = "restart"
    /\ restarted' = FALSE
    /\ Launch
    /\ deploy' = "wait"
    /\ UNCHANGED <<treeVars, unit, marker, deaths, unitFile, selected>>

ServiceStarted ==
    /\ deploy = "wait" /\ service = "active"
    /\ deploy' = "verify"
    /\ UNCHANGED <<treeVars, serviceVars, unitFile, selected>>

(* What install leaves of the policy or the unit file when it ends early. *)
LeftByInstall ==
    /\ IF deploy = "copy"
       THEN policy' \in CutShort("cut", Deployed) \cup {PolicyFile("missing", {})}
       ELSE UNCHANGED policy
    /\ IF deploy = "unit"
       THEN unitFile' \in {unitFile, selected, "cut"}
       ELSE UNCHANGED unitFile

(* A command fails, of those after the trap is set. *)
DeployFails ==
    /\ deploy \in {"config", "copy", "unit", "reload", "restart", "wait"}
    /\ deploy = "wait" => service = "restarting"
    /\ LeftByInstall
    /\ deploy' = "restore"
    /\ UNCHANGED <<at, changes, serviceVars, selected>>

(* Variant: nothing is done after a failure. *)
GiveUp ==
    /\ deploy = "restore"
    /\ deploy' = "failed"
    /\ UNCHANGED <<treeVars, serviceVars, unitFile, selected>>

(* restore_service_after_failed_install: systemctl start, which finds the   *)
(* service stopped or about to be restarted.                                *)
RestoreService ==
    /\ deploy = "restore"
    /\ IF service \in {"stopped", "restarting"}
       THEN restarted' = FALSE /\ Launch
       ELSE UNCHANGED <<processVars, service, restarted>>
    /\ deploy' = "failed"
    /\ UNCHANGED <<treeVars, unit, marker, deaths, unitFile, selected>>

(* verify_service: active, the mode of the loaded unit, a main process, no  *)
(* restart; then the marker.                                                *)
VerifyService ==
    /\ deploy = "verify"
    /\ deploy' = IF service = "active" /\ unit = selected /\ pc # "none" /\ ~restarted
                 THEN "marker" ELSE "failed"
    /\ UNCHANGED <<treeVars, serviceVars, unitFile, selected>>

VerifyMarker ==
    /\ deploy = "marker"
    /\ deploy' = IF marker = (selected = "guard") THEN "done" ELSE "failed"
    /\ UNCHANGED <<treeVars, serviceVars, unitFile, selected>>

(* The script itself is killed: no trap runs. *)
Interrupted ==
    /\ deploy \notin {"idle", "done", "failed", "interrupted"}
    /\ LeftByInstall
    /\ deploy' = "interrupted"
    /\ UNCHANGED <<at, changes, serviceVars, selected>>

DeploySteps ==
    \/ StopService \/ OpenConfig \/ CopyConfig \/ InstallUnit \/ ReloadUnit
    \/ RestartService \/ ServiceStarted \/ RestoreService \/ VerifyService
    \/ VerifyMarker
=============================================================================
