------------------------- MODULE VSphereController -------------------------
(***************************************************************************)
(* VSphereController.sync and what it interacts with: the ClusterCSIDriver *)
(* object (management state and conditions) with the informer cache it is  *)
(* read through, the CSIDriver object and the node plugin, the operand     *)
(* controllers that sync starts, vCenter, and the process itself, which    *)
(* exits on removal, may crash, and is restarted by the kubelet.           *)
(*                                                                         *)
(* One action per stretch of sync between two points where the rest of the *)
(* world can step in.  Time is abstract: the exponential back-off of the   *)
(* environment checker is a gate that a check closes and that opens again  *)
(* (EnvironmentChecker has the clock, the delays and the timers).          *)
(***************************************************************************)
EXTENDS ClusterChecks

CONSTANTS
  Envs,         \* what VCenterChecker and NodeChecker may report
  Logins,       \* how logging in to vCenter may go
  ForeignDriver,\* TRUE: somebody may install a driver of his own
  MaxChanges    \* bound on changes of the world and on failures

LoginOutcome == {"ok", "unreachable", "badSecret", "badConfig"}

ASSUME EnvsAssumption ==
  /\ Envs \subseteq ClusterCheckResult
  /\ MakeClusterCheckResultPass \in Envs
ASSUME LoginsAssumption == "ok" \in Logins /\ Logins \subseteq LoginOutcome
ASSUME ForeignDriverAssumption == ForeignDriver \in BOOLEAN
ASSUME MaxChangesAssumption == MaxChanges \in Nat

ManagementState == {"Managed", "Unmanaged", "Removed"}

(* The conditions this operator owns on ClusterCSIDriver.status:           *)
(*   checkDegraded  VMwareVSphereOperatorCheckDegraded                     *)
(*   upgradeable    VMwareVSphereControllerUpgradeable                     *)
(*   disabled       VMwareVSphereControllerDisabled                        *)
(*   syncDegraded   VMwareVSphereControllerDegraded, set by library-go     *)
(*   scDegraded     VMwareVSphereDriverStorageClassControllerDegraded      *)
Conditions ==
  [checkDegraded : {"absent", "True", "False"},
   upgradeable   : {"absent", "True", "False", "Unknown"},
   scDegraded    : {"absent", "True", "False"},
   disabled : BOOLEAN, syncDegraded : BOOLEAN]

NoConditions ==
  [checkDegraded |-> "absent", upgradeable |-> "absent", scDegraded |-> "absent",
   disabled |-> FALSE, syncDegraded |-> FALSE]

VARIABLES
  \* the API server
  managementState,  \* ClusterCSIDriver.spec.managementState
  conditions,       \* ClusterCSIDriver.status.conditions
  csiDriver,        \* the CSIDriver object: notfound, annotated, unannotated
  nodePlugin,       \* the node DaemonSet runs and is registered on CSINodes
  storageClass,     \* the StorageClass exists
  \* informer caches of the process
  seen,             \* the operator lister: management state and conditions
  seenDriver,       \* the CSIDriver lister
  seenNode,         \* the CSINode lister
  \* outside
  login,            \* how logging in to vCenter goes
  env,              \* what the vCenter and node checks find
  changes,          \* changes and failures so far, bounded by MaxChanges
  \* the process
  up,
  currentManagmentState,
  operandControllerStarted,
  vCenterConnectionStatus,
  gate,             \* now.After(nextCheck): open or closed
  queued,           \* the controller's key is in the work queue
  pc,               \* where sync is
  opStatus,         \* the conditions sync read when it began
  result            \* the connection result, then the check result

apiVars   == <<managementState, conditions, csiDriver, nodePlugin, storageClass>>
cacheVars == <<seen, seenDriver, seenNode>>
worldVars == <<login, env>>
procVars  == <<up, currentManagmentState, operandControllerStarted,
               vCenterConnectionStatus>>
syncVars  == <<pc, opStatus, result>>
vars == <<apiVars, cacheVars, worldVars, changes, procVars, gate, queued, syncVars>>

Undecided == Result(CheckActionPass, "")

Init ==
  /\ managementState = "Managed" /\ conditions = NoConditions
  /\ csiDriver = "notfound" /\ nodePlugin = FALSE /\ storageClass = FALSE
  /\ seen = [managementState |-> managementState, conditions |-> conditions]
  /\ seenDriver = "notfound" /\ seenNode = FALSE
  /\ login \in Logins /\ env \in Envs /\ changes = 0
  /\ up = TRUE /\ currentManagmentState = "" /\ operandControllerStarted = FALSE
  /\ vCenterConnectionStatus = FALSE
  /\ gate = "open" /\ queued = TRUE
  /\ pc = "idle" /\ opStatus = NoConditions /\ result = Undecided

----------------------------------------------------------------------------
(* A change of the world, or a failure, out of the budget. *)
Disturb == changes < MaxChanges /\ changes' = changes + 1

(* v1helpers.UpdateStatus(f): nothing is written if the lister's copy is   *)
(* already what f makes of it.  (It may still be written, when only the    *)
(* message or the reason differ.)  A write acts on the live object, since  *)
(* a stale copy ends in a conflict and a retry.                            *)
UpdateStatus(f(_)) ==
  \/ conditions' = f(conditions)
  \/ f(seen.conditions) = seen.conditions /\ UNCHANGED conditions

(* The conditions updateConditions wants. *)
NewConditions(c, res, upgradeStatus, blockCSIDriverInstall, started) ==
  [c EXCEPT
     !.checkDegraded = IF res.action = CheckActionDegrade THEN "True" ELSE "False",
     !.upgradeable   = upgradeStatus,
     !.disabled      = ~started /\ blockCSIDriverInstall]

updateConditions(res, upgradeStatus, blockCSIDriverInstall, started) ==
  UpdateStatus(LAMBDA c :
    NewConditions(c, res, upgradeStatus, blockCSIDriverInstall, started))

hasErrorConditions(c) ==
  \/ c.checkDegraded = "True" \/ c.syncDegraded \/ c.scDegraded = "True"
  \/ c.upgradeable = "False"

(* What blockUpgradeOrDegradeCluster writes as Upgradeable for each cluster *)
(* status but "pass".                                                       *)
UpgradeStatusOf(clusterStatus) ==
  IF clusterStatus = "upgrades_unknown" THEN "Unknown" ELSE "False"

----------------------------------------------------------------------------
(* The steps of sync.  At(label) is where it stands, Goto(label) where it  *)
(* goes; "done" and "error" are its two ways to return.                    *)

At(label) == up /\ pc = label

Goto(label) == pc' = label

(* A call to the API server fails: sync returns the error. *)
SyncError == Disturb /\ Goto("error")

(* The key is taken from the queue and sync reads the operator lister. *)
TakeKey(state) ==
  /\ At("idle") /\ queued
  /\ seen.managementState = state
  /\ queued' = FALSE

(* Mutant: the management state is remembered before it is looked at. *)
SyncUnmanagedRemembers ==
  /\ TakeKey("Unmanaged")
  /\ currentManagmentState' = "Unmanaged"
  /\ Goto("done")
  /\ UNCHANGED <<apiVars, cacheVars, worldVars, changes, up, operandControllerStarted,
                 vCenterConnectionStatus, gate, opStatus, result>>

SyncUnmanaged ==
  /\ TakeKey("Unmanaged")
  /\ Goto("done")
  /\ UNCHANGED <<apiVars, cacheVars, worldVars, changes, procVars, gate, opStatus, result>>

(* The process ends; nothing it holds in memory survives. *)
ProcessEnds ==
  /\ up' = FALSE
  /\ currentManagmentState' = "" /\ operandControllerStarted' = FALSE
  /\ vCenterConnectionStatus' = FALSE
  /\ gate' = "open" /\ queued' = TRUE
  /\ pc' = "idle" /\ opStatus' = NoConditions /\ result' = Undecided

(* Removed, in a process that has managed the driver: os.Exit(0). *)
SyncExit ==
  /\ At("idle") /\ queued
  /\ seen.managementState = "Removed" /\ currentManagmentState = "Managed"
  /\ ProcessEnds
  /\ UNCHANGED <<apiVars, cacheVars, worldVars, changes>>

(* Mutant: the removal does not wait for a new process. *)
SyncRemovedAtOnce ==
  /\ TakeKey("Removed")
  /\ opStatus' = seen.conditions
  /\ Goto("removeOperands")
  /\ UNCHANGED <<apiVars, cacheVars, worldVars, changes, procVars, gate, result>>

SyncRemoved ==
  /\ TakeKey("Removed")
  /\ currentManagmentState # "Managed"
  /\ opStatus' = seen.conditions
  /\ Goto("removeOperands")
  /\ UNCHANGED <<apiVars, cacheVars, worldVars, changes, procVars, gate, result>>

(* Managed: a driver this operator installed earlier is started even if    *)
(* checks are failing; then the cloud config is loaded.                    *)
SyncManaged ==
  /\ TakeKey("Managed")
  /\ currentManagmentState' = "Managed"
  /\ opStatus' = seen.conditions
  /\ operandControllerStarted' = (operandControllerStarted \/ seenDriver = "annotated")
  /\ Goto(IF login = "badConfig" THEN "error" ELSE "login")
  /\ UNCHANGED <<apiVars, cacheVars, worldVars, changes, up, vCenterConnectionStatus,
                 gate, result>>

(* loginToVCenter, and the reset of the back-off when the connection is     *)
(* back.  A config that went bad after it was loaded does no harm.          *)
ConnectionResult ==
  CASE login \in {"ok", "badConfig"} -> MakeClusterCheckResultPass
    [] login = "unreachable" ->
         Result(CheckActionBlockUpgradeOrDegrade, "vsphere_connection_failed")
    [] login = "badSecret" -> MakeClusterDegradedError("openshift_api_error")

loginToVCenter ==
  /\ At("login")
  /\ result' = ConnectionResult
  /\ gate' = IF /\ ~Failed(ConnectionResult)
                /\ hasErrorConditions(opStatus)
                /\ ~vCenterConnectionStatus
             THEN "open" ELSE gate
  /\ vCenterConnectionStatus' = ~Failed(ConnectionResult)
  /\ Goto("connection")
  /\ UNCHANGED <<apiVars, cacheVars, worldVars, changes, up, currentManagmentState,
                 operandControllerStarted, queued, opStatus>>

(* Mutant: a failure is not reported once the operands run. *)
blockInSilence(onward) ==
  LET status == CheckClusterStatus(result, seenDriver)[1]
  IN  /\ Goto(IF status # "pass" /\ BlocksInstall(status) THEN "done" ELSE onward)
      /\ UNCHANGED <<conditions, changes>>

(* blockUpgradeOrDegradeCluster(result): report a failure in the           *)
(* conditions, and go on unless it blocks the installation.                *)
blockUpgradeOrDegradeCluster(onward) ==
  LET status == CheckClusterStatus(result, seenDriver)
  IN  IF status[1] = "pass"
      THEN Goto(onward) /\ UNCHANGED <<conditions, changes>>
      ELSE \/ /\ updateConditions(status[2], UpgradeStatusOf(status[1]),
                                  BlocksInstall(status[1]), operandControllerStarted)
              /\ Goto(IF BlocksInstall(status[1]) THEN "done" ELSE onward)
              /\ UNCHANGED changes
           \/ SyncError /\ UNCHANGED conditions

(* installCSIDriver: the connection result, ... *)
DecideConnection ==
  /\ At("connection")
  /\ blockUpgradeOrDegradeCluster("secret")
  /\ UNCHANGED <<managementState, csiDriver, nodePlugin, storageClass, cacheVars,
                 worldVars, procVars, gate, queued, opStatus, result>>

(* ... the secret with the driver's config, ... *)
createCSISecret ==
  /\ At("secret")
  /\ \/ Goto("check") /\ UNCHANGED changes
     \/ SyncError
  /\ UNCHANGED <<apiVars, cacheVars, worldVars, procVars, gate, queued, opStatus, result>>

(* Mutant: no check is taken for a passed check. *)
SkippedIsPassed ==
  /\ At("check") /\ gate = "closed"
  /\ updateConditions(MakeClusterCheckResultPass, "True", FALSE, operandControllerStarted)
  /\ Goto(IF operandControllerStarted THEN "storageclass" ELSE "done")
  /\ UNCHANGED <<managementState, csiDriver, nodePlugin, storageClass, cacheVars, worldVars,
                 changes, procVars, gate, queued, opStatus, result>>

(* ... the checks, which are skipped while the gate is closed, ... *)
SkipChecks ==
  /\ At("check") /\ gate = "closed"
  /\ Goto(IF operandControllerStarted THEN "storageclass" ELSE "done")
  /\ UNCHANGED <<apiVars, cacheVars, worldVars, changes, procVars, gate, queued,
                 opStatus, result>>

runClusterCheck ==
  LET overall == OverallResult(
        CheckExistingDriver(seenDriver, IF seenNode THEN "registered" ELSE "none") \o <<env>>)
  IN  /\ At("check") /\ gate = "open"
      /\ gate' = "closed"
      /\ result' = IF overall.action > CheckActionPass
                   THEN overall ELSE MakeClusterCheckResultPass
      /\ Goto("decide")
      /\ UNCHANGED <<apiVars, cacheVars, worldVars, changes, procVars, queued, opStatus>>

(* ... their result, ... *)
DecideCheck ==
  /\ At("decide")
  /\ blockUpgradeOrDegradeCluster("install")
  /\ UNCHANGED <<managementState, csiDriver, nodePlugin, storageClass, cacheVars,
                 worldVars, procVars, gate, queued, opStatus, result>>

(* ... and, if nothing blocks it, the start of the operand controllers.    *)
(* Only a pass gets here with blockUpgrade FALSE.                          *)
blockUpgrade == result.action # CheckActionPass

(* Mutant: conditions are written only when the operands are started. *)
installReportsOnce ==
  /\ At("install")
  /\ operandControllerStarted' = TRUE
  /\ IF operandControllerStarted THEN UNCHANGED conditions
     ELSE updateConditions(result, IF blockUpgrade THEN "False" ELSE "True", FALSE, TRUE)
  /\ Goto("storageclass")
  /\ UNCHANGED <<managementState, csiDriver, nodePlugin, storageClass, cacheVars, changes,
                 worldVars, up, currentManagmentState, vCenterConnectionStatus, gate,
                 queued, opStatus, result>>

installCSIDriver ==
  /\ At("install")
  /\ operandControllerStarted' = TRUE
  /\ \/ /\ updateConditions(result, IF blockUpgrade THEN "False" ELSE "True", FALSE, TRUE)
        /\ Goto("storageclass") /\ UNCHANGED changes
     \/ SyncError /\ UNCHANGED conditions
  /\ UNCHANGED <<managementState, csiDriver, nodePlugin, storageClass, cacheVars,
                 worldVars, up, currentManagmentState, vCenterConnectionStatus, gate,
                 queued, opStatus, result>>

(* storageClassController.Sync: a failure inside it becomes a condition;   *)
(* only failing to write the conditions is an error.                       *)
SyncStorageClass ==
  /\ At("storageclass")
  /\ \/ /\ storageClass' = TRUE
        /\ UpdateStatus(LAMBDA c : [c EXCEPT !.scDegraded = "False"])
        /\ Goto("done") /\ UNCHANGED changes
     \/ /\ Disturb /\ UNCHANGED storageClass
        /\ UpdateStatus(LAMBDA c : [c EXCEPT !.scDegraded = "True"])
        /\ Goto("done")
     \/ SyncError /\ storageClass' \in {TRUE, storageClass} /\ UNCHANGED conditions
  /\ UNCHANGED <<managementState, csiDriver, nodePlugin, cacheVars, worldVars, procVars,
                 gate, queued, opStatus, result>>

(* removeOperands: every asset is tried; one failure fails the sync. *)
removeOperands ==
  /\ At("removeOperands")
  /\ \/ /\ csiDriver' = "notfound" /\ nodePlugin' = FALSE
        /\ Goto("removeConditions") /\ UNCHANGED changes
     \/ /\ csiDriver' \in {"notfound", csiDriver}
        /\ nodePlugin' \in {FALSE, nodePlugin}
        /\ SyncError
  /\ UNCHANGED <<managementState, conditions, storageClass, cacheVars, worldVars,
                 procVars, gate, queued, opStatus, result>>

(* Mutant: the conditions of the StorageClass controller are forgotten. *)
WithoutOwn(c, snapshot) ==
  [c EXCEPT
     !.checkDegraded = IF snapshot.checkDegraded = "absent" THEN @ ELSE "absent",
     !.upgradeable   = IF snapshot.upgradeable = "absent" THEN @ ELSE "absent",
     !.disabled      = TRUE]

(* SyncRemove deletes the StorageClass; removeConditions removes what the  *)
(* snapshot of the status holds, and adds Disabled.                        *)
Without(c, snapshot) ==
  [c EXCEPT
     !.checkDegraded = IF snapshot.checkDegraded = "absent" THEN @ ELSE "absent",
     !.upgradeable   = IF snapshot.upgradeable = "absent" THEN @ ELSE "absent",
     !.scDegraded    = IF snapshot.scDegraded = "absent" THEN @ ELSE "absent",
     !.disabled      = TRUE]

removeConditions ==
  /\ At("removeConditions")
  /\ \/ /\ storageClass' = FALSE
        /\ UpdateStatus(LAMBDA c : Without(c, opStatus))
        /\ Goto("done") /\ UNCHANGED changes
     \/ /\ SyncError
        /\ storageClass' \in {FALSE, storageClass} /\ UNCHANGED conditions
  /\ UNCHANGED <<managementState, csiDriver, nodePlugin, cacheVars, worldVars, procVars,
                 gate, queued, opStatus, result>>

(* library-go's reconcile: an error is reported as Degraded and the key is *)
(* queued again, otherwise Degraded is cleared; clearing it may fail.      *)
SyncReturns(label, degraded) ==
  /\ At(label)
  /\ \/ /\ conditions' = [conditions EXCEPT !.syncDegraded = degraded]
        /\ queued' = (queued \/ degraded)
        /\ UNCHANGED changes
     \/ Disturb /\ queued' = TRUE /\ UNCHANGED conditions
  /\ pc' = "idle" /\ opStatus' = NoConditions /\ result' = Undecided
  /\ UNCHANGED <<managementState, csiDriver, nodePlugin, storageClass, cacheVars,
                 worldVars, procVars, gate>>

reconcile == SyncReturns("done", FALSE) \/ SyncReturns("error", TRUE)

Sync ==
  \/ SyncUnmanaged \/ SyncExit \/ SyncRemoved \/ SyncManaged
  \/ loginToVCenter \/ DecideConnection \/ createCSISecret
  \/ SkipChecks \/ runClusterCheck \/ DecideCheck \/ installCSIDriver
  \/ SyncStorageClass \/ removeOperands \/ removeConditions \/ reconcile

----------------------------------------------------------------------------
(* The operand controllers, running since runConditionalController: they   *)
(* create their assets while Managed and delete them when Removed.         *)

ApplyCSIDriver ==
  /\ up /\ operandControllerStarted
  /\ \/ seen.managementState = "Managed" /\ csiDriver' = "annotated"
     \/ seen.managementState = "Removed" /\ csiDriver' = "notfound"
  /\ csiDriver' # csiDriver
  /\ UNCHANGED <<managementState, conditions, nodePlugin, storageClass, cacheVars,
                 worldVars, changes, procVars, gate, queued, syncVars>>

ApplyNodeDaemonSet ==
  /\ up /\ operandControllerStarted
  /\ \/ seen.managementState = "Managed" /\ nodePlugin' = TRUE
     \/ seen.managementState = "Removed" /\ nodePlugin' = FALSE
  /\ nodePlugin' # nodePlugin
  /\ UNCHANGED <<managementState, conditions, csiDriver, storageClass, cacheVars,
                 worldVars, changes, procVars, gate, queued, syncVars>>

----------------------------------------------------------------------------
(* Informers, timers and the kubelet.                                      *)

(* A change of ClusterCSIDriver reaches the lister, and queues the key. *)
ObserveOperator ==
  /\ up
  /\ seen' = [managementState |-> managementState, conditions |-> conditions]
  /\ seen' # seen
  /\ queued' = TRUE
  /\ UNCHANGED <<apiVars, seenDriver, seenNode, worldVars, changes, procVars, gate, syncVars>>

(* The CSIDriver and CSINode listers are not among the informers of the    *)
(* controller: it neither waits for them nor is it woken by them.          *)
ObserveStorage ==
  /\ up
  /\ \/ seenDriver' = csiDriver /\ UNCHANGED seenNode
     \/ seenNode' = nodePlugin /\ UNCHANGED seenDriver
  /\ <<seenDriver', seenNode'>> # <<seenDriver, seenNode>>
  /\ UNCHANGED <<apiVars, seen, worldVars, changes, procVars, gate, queued, syncVars>>

(* Time passes nextCheck. *)
GateOpens ==
  /\ up /\ gate = "closed" /\ gate' = "open"
  /\ UNCHANGED <<apiVars, cacheVars, worldVars, changes, procVars, queued, syncVars>>

(* The timer of a check, or the periodic resync. *)
Wake ==
  /\ up /\ ~queued /\ queued' = TRUE
  /\ UNCHANGED <<apiVars, cacheVars, worldVars, changes, procVars, gate, syncVars>>

(* A new process: the operator lister is waited for, the storage listers   *)
(* start empty.                                                            *)
Restart ==
  /\ ~up /\ up' = TRUE
  /\ seen' = [managementState |-> managementState, conditions |-> conditions]
  /\ seenDriver' = "notfound" /\ seenNode' = FALSE
  /\ UNCHANGED <<apiVars, worldVars, changes, currentManagmentState,
                 operandControllerStarted, vCenterConnectionStatus, gate, queued, syncVars>>

----------------------------------------------------------------------------
(* What users, vCenter and luck may do, at most MaxChanges times.          *)

Crash ==
  /\ up /\ Disturb /\ ProcessEnds
  /\ UNCHANGED <<apiVars, cacheVars, worldVars>>

SetManagementState ==
  /\ Disturb
  /\ \E m \in ManagementState \ {managementState} : managementState' = m
  /\ UNCHANGED <<conditions, csiDriver, nodePlugin, storageClass, cacheVars, worldVars,
                 procVars, gate, queued, syncVars>>

VCenterChanges ==
  /\ Disturb
  /\ \/ login' \in Logins \ {login} /\ UNCHANGED env
     \/ env' \in Envs \ {env} /\ UNCHANGED login
  /\ UNCHANGED <<apiVars, cacheVars, procVars, gate, queued, syncVars>>

InstallForeignDriver ==
  /\ ForeignDriver /\ Disturb
  /\ csiDriver = "notfound" /\ csiDriver' = "unannotated"
  /\ UNCHANGED <<managementState, conditions, nodePlugin, storageClass, cacheVars,
                 worldVars, procVars, gate, queued, syncVars>>

World == Crash \/ SetManagementState \/ VCenterChanges \/ InstallForeignDriver

Next ==
  \/ Sync \/ ApplyCSIDriver \/ ApplyNodeDaemonSet
  \/ ObserveOperator \/ ObserveStorage \/ GateOpens \/ Wake \/ Restart
  \/ World

(* The worker of the controller runs whenever it can, informers catch up,  *)
(* timers fire, the kubelet restarts the container; nothing bad need ever  *)
(* happen.                                                                 *)
Fairness ==
  /\ WF_vars(Sync)
  /\ WF_vars(ApplyCSIDriver) /\ WF_vars(ApplyNodeDaemonSet)
  /\ WF_vars(ObserveOperator) /\ WF_vars(ObserveStorage)
  /\ WF_vars(GateOpens) /\ WF_vars(Wake) /\ WF_vars(Restart)

Spec == Init /\ [][Next]_vars /\ Fairness

----------------------------------------------------------------------------
(* Properties.                                                             *)

(* Every variable has its type. *)
TypeOK ==
  /\ managementState \in ManagementState /\ conditions \in Conditions
  /\ csiDriver \in {"notfound", "annotated", "unannotated"}
  /\ nodePlugin \in BOOLEAN /\ storageClass \in BOOLEAN
  /\ seen \in [managementState : ManagementState, conditions : Conditions]
  /\ seenDriver \in {"notfound", "annotated", "unannotated"} /\ seenNode \in BOOLEAN
  /\ login \in Logins /\ env \in Envs /\ changes \in 0 .. MaxChanges
  /\ up \in BOOLEAN /\ currentManagmentState \in {"", "Managed"}
  /\ operandControllerStarted \in BOOLEAN /\ vCenterConnectionStatus \in BOOLEAN
  /\ gate \in {"open", "closed"} /\ queued \in BOOLEAN
  /\ pc \in {"idle", "login", "connection", "secret", "check", "decide", "install",
             "storageclass", "removeOperands", "removeConditions", "done", "error"}
  /\ opStatus \in Conditions /\ result \in ClusterCheckResult

(* removeOperands never races the operand controllers of its own process:  *)
(* a process that has started them exits instead of removing (os.Exit) and *)
(* leaves the removal to a fresh one.                                      *)
RemovalIsExclusive ==
  pc \in {"removeOperands", "removeConditions"} => ~operandControllerStarted

(* The driver is on its way in only when the merged result of the checks   *)
(* neither blocks the installation nor degrades the cluster, whatever the  *)
(* CSIDriver cache showed at each of the steps in between.  (That the      *)
(* merge itself may hide such a result is a matter of CompositeCheck.)     *)
InstallOnlyIfNotBlocked ==
  pc = "install" =>
    result.action \notin {CheckActionBlockUpgradeDriverInstall, CheckActionDegrade}

(* VMwareVSphereOperatorCheckDegraded is sticky: it goes away only by the  *)
(* removal of the operator, or by a verdict reached while logged in (or,   *)
(* if vCenter cannot be reached, when our driver is not installed any      *)
(* more).  In particular a sync that skips the checks leaves it alone.     *)
DegradedIsSticky ==
  [][ conditions.checkDegraded = "True" /\ conditions'.checkDegraded # "True" =>
        \/ pc = "removeConditions"
        \/ pc \in {"decide", "install"} /\ result.action # CheckActionDegrade
        \/ /\ pc = "connection" /\ seenDriver # "annotated"
           /\ result.status = "vsphere_connection_failed" ]_vars

(* Nothing stands in the way of the driver. *)
HealthyWorld ==
  /\ managementState = "Managed" /\ login = "ok"
  /\ env = MakeClusterCheckResultPass
  /\ csiDriver # "unannotated"

Installed ==
  /\ operandControllerStarted /\ csiDriver = "annotated" /\ nodePlugin /\ storageClass
  /\ conditions = [checkDegraded |-> "False", upgradeable |-> "True",
                   scDegraded |-> "False", disabled |-> FALSE, syncDegraded |-> FALSE]

(* The node plugin of an earlier installation runs, its CSIDriver object   *)
(* is gone, and this process has not started the operands.                 *)
Orphaned == csiDriver = "notfound" /\ nodePlugin /\ ~operandControllerStarted

(* "if driver was previously started, then start it even if checks are     *)
(* failing": once users, vCenter and luck let it, the driver gets          *)
(* installed for good and the conditions say so, whatever crashes, failed  *)
(* writes, stale caches and removals came before.                          *)
DriverGetsInstalled == <>[]HealthyWorld => <>[]Installed

(* The same but for the orphaned node plugin. *)
DriverGetsInstalledUnlessOrphaned ==
  <>[](HealthyWorld /\ ~Orphaned) => <>[]Installed

(* Removal completes: if the management state stays Removed, the operands  *)
(* and the StorageClass are gone for good, the conditions are removed and  *)
(* Disabled is set.                                                        *)
Removed ==
  /\ csiDriver = "notfound" /\ ~nodePlugin /\ ~storageClass
  /\ conditions = [NoConditions EXCEPT !.disabled = TRUE]

RemovalCompletes == <>[](managementState = "Removed") => <>[]Removed

(* A failure that stays is reported and stays reported: with our driver    *)
(* installed, a lost vCenter or a failing check ends in Upgradeable=False, *)
(* and in Degraded unless the check only blocks upgrades.                  *)
Verdict ==
  CheckClusterStatus(IF Failed(ConnectionResult) THEN ConnectionResult ELSE env, "annotated")

FailureIsReported ==
  \A d \in BOOLEAN :
    <>[](/\ managementState = "Managed" /\ csiDriver = "annotated"
         /\ login # "badConfig" /\ Verdict[1] # "pass"
         /\ (Verdict[1] = "degraded") = d)
    => <>[](/\ conditions.upgradeable = "False"
            /\ (conditions.checkDegraded = "True") = d)

=============================================================================
