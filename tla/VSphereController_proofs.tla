---------------------- MODULE VSphereController_proofs ----------------------
(* Proofs of safety properties of VSphereController, for every family of   *)
(* environments and logins and any number of changes and failures.         *)
EXTENDS VSphereController, TLAPS

(* The labels of sync behind the test of the management state. *)
Removing == {"removeOperands", "removeConditions"}
Managing == {"login", "connection", "secret", "check", "decide", "install", "storageclass"}

(* currentManagmentState tells the two branches of sync apart: the operand *)
(* controllers run, and the managed branch is under way, only in a process *)
(* that has seen Managed; the other branch only in one that has not.       *)
ExclusionInv ==
  /\ operandControllerStarted => currentManagmentState = "Managed"
  /\ pc \in Managing => currentManagmentState = "Managed"
  /\ pc \in Removing => currentManagmentState # "Managed"

(* A result that blocks the installation has a status that does. *)
LEMMA BlockedStatus ==
  ASSUME NEW r, NEW driver,
         r.action \in {CheckActionBlockUpgradeDriverInstall, CheckActionDegrade}
  PROVE  /\ CheckClusterStatus(r, driver)[1] # "pass"
         /\ BlocksInstall(CheckClusterStatus(r, driver)[1])
<1> USE DEF CheckActionPass, CheckActionBlockUpgrade, CheckActionBlockUpgradeDriverInstall,
            CheckActionBlockUpgradeOrDegrade, CheckActionDegrade
<1>1. CASE r.action = CheckActionDegrade
  <2>1. CheckClusterStatus(r, driver) = <<"degraded", r>>
    BY <1>1 DEF CheckClusterStatus
  <2> QED
    BY <2>1 DEF BlocksInstall
<1>2. CASE r.action = CheckActionBlockUpgradeDriverInstall
  <2>1. CheckClusterStatus(r, driver) = <<"installation_blocked", r>>
    BY <1>2 DEF CheckClusterStatus
  <2> QED
    BY <2>1 DEF BlocksInstall
<1> QED
  BY <1>1, <1>2

(* The first sync has not begun. *)
LEMMA InitInv == Init => ExclusionInv /\ InstallOnlyIfNotBlocked
BY DEF Init, ExclusionInv, Managing, Removing, InstallOnlyIfNotBlocked

(* Every step keeps the two branches of sync apart. *)
LEMMA NextExclusion == ExclusionInv /\ [Next]_vars => ExclusionInv'
<1> SUFFICES ASSUME ExclusionInv, [Next]_vars PROVE ExclusionInv'
  OBVIOUS
<1> USE DEF ExclusionInv, Managing, Removing, At, Goto, procVars, syncVars
<1>1. CASE SyncUnmanaged
  BY <1>1 DEF SyncUnmanaged, TakeKey
<1>2. CASE SyncExit
  BY <1>2 DEF SyncExit, ProcessEnds
<1>3. CASE SyncRemoved
  BY <1>3 DEF SyncRemoved, TakeKey
<1>4. CASE SyncManaged
  BY <1>4 DEF SyncManaged, TakeKey
<1>5. CASE loginToVCenter
  BY <1>5 DEF loginToVCenter
<1>6. CASE DecideConnection
  BY <1>6 DEF DecideConnection, blockUpgradeOrDegradeCluster, SyncError
<1>7. CASE createCSISecret
  BY <1>7 DEF createCSISecret, SyncError
<1>8. CASE SkipChecks
  BY <1>8 DEF SkipChecks
<1>9. CASE runClusterCheck
  BY <1>9 DEF runClusterCheck
<1>10. CASE DecideCheck
  BY <1>10 DEF DecideCheck, blockUpgradeOrDegradeCluster, SyncError
<1>11. CASE installCSIDriver
  BY <1>11 DEF installCSIDriver, SyncError
<1>12. CASE SyncStorageClass
  BY <1>12 DEF SyncStorageClass, SyncError
<1>13. CASE removeOperands
  BY <1>13 DEF removeOperands, SyncError
<1>14. CASE removeConditions
  BY <1>14 DEF removeConditions, SyncError
<1>15. CASE reconcile
  BY <1>15 DEF reconcile, SyncReturns
<1>16. CASE ApplyCSIDriver \/ ApplyNodeDaemonSet
  BY <1>16 DEF ApplyCSIDriver, ApplyNodeDaemonSet
<1>17. CASE ObserveOperator \/ ObserveStorage \/ GateOpens \/ Wake \/ Restart
  BY <1>17 DEF ObserveOperator, ObserveStorage, GateOpens, Wake, Restart
<1>18. CASE Crash
  BY <1>18 DEF Crash, ProcessEnds
<1>19. CASE SetManagementState \/ VCenterChanges \/ InstallForeignDriver
  BY <1>19 DEF SetManagementState, VCenterChanges, InstallForeignDriver
<1>20. CASE UNCHANGED vars
  BY <1>20 DEF vars
<1> QED
  BY <1>1, <1>2, <1>3, <1>4, <1>5, <1>6, <1>7, <1>8, <1>9, <1>10, <1>11, <1>12, <1>13,
     <1>14, <1>15, <1>16, <1>17, <1>18, <1>19, <1>20 DEF Next, Sync, World

(* Only DecideCheck leads to "install", and nothing else touches the       *)
(* result until sync is past it.                                           *)
LEMMA NextInstall == InstallOnlyIfNotBlocked /\ [Next]_vars => InstallOnlyIfNotBlocked'
<1> SUFFICES ASSUME InstallOnlyIfNotBlocked, [Next]_vars, pc' = "install"
             PROVE  result'.action \notin {CheckActionBlockUpgradeDriverInstall, CheckActionDegrade}
  BY DEF InstallOnlyIfNotBlocked
<1> USE DEF At, Goto, syncVars
<1>1. CASE DecideCheck
  <2>1. /\ result' = result
        /\ LET status == CheckClusterStatus(result, seenDriver)[1]
           IN  status = "pass" \/ ~BlocksInstall(status)
    BY <1>1 DEF DecideCheck, blockUpgradeOrDegradeCluster, SyncError
  <2> QED
    BY <2>1, BlockedStatus
<1>2. CASE pc = "install" /\ result' = result
  BY <1>2 DEF InstallOnlyIfNotBlocked
<1>3. ~Sync => pc = "install" /\ result' = result
  BY DEF Next, World, ApplyCSIDriver, ApplyNodeDaemonSet, ObserveOperator, ObserveStorage,
         GateOpens, Wake, Restart, Crash, ProcessEnds, SetManagementState, VCenterChanges,
         InstallForeignDriver, vars
<1>4. Sync => DecideCheck
  BY DEF Sync, SyncUnmanaged, SyncExit, SyncRemoved, SyncManaged, TakeKey, ProcessEnds,
         loginToVCenter, DecideConnection, createCSISecret, SkipChecks, runClusterCheck,
         installCSIDriver, SyncStorageClass, removeOperands, removeConditions, reconcile,
         SyncReturns, SyncError, blockUpgradeOrDegradeCluster
<1> QED
  BY <1>1, <1>2, <1>3, <1>4

----------------------------------------------------------------------------
(* The conditions. *)

(* Where sync decides on the connection it has a result of loginToVCenter. *)
LoginResults ==
  {MakeClusterCheckResultPass, MakeClusterDegradedError("openshift_api_error"),
   Result(CheckActionBlockUpgradeOrDegrade, "vsphere_connection_failed")}

ConditionsInv ==
  /\ conditions \in Conditions
  /\ login \in LoginOutcome /\ operandControllerStarted \in BOOLEAN
  /\ pc = "connection" => result \in LoginResults

(* The Degraded conditions of library-go and of the StorageClass           *)
(* controller leave checkDegraded alone.                                   *)
LEMMA OtherConditions ==
  ASSUME NEW c \in Conditions
  PROVE  /\ \A v \in {"True", "False"} :
              /\ [c EXCEPT !.scDegraded = v] \in Conditions
              /\ [c EXCEPT !.scDegraded = v].checkDegraded = c.checkDegraded
         /\ \A v \in BOOLEAN :
              /\ [c EXCEPT !.syncDegraded = v] \in Conditions
              /\ [c EXCEPT !.syncDegraded = v].checkDegraded = c.checkDegraded
  BY DEF Conditions

LEMMA ConditionsRemoved ==
  ASSUME NEW c \in Conditions, NEW snapshot
  PROVE  Without(c, snapshot) \in Conditions
  BY DEF Conditions, Without

(* A status other than a pass is reported with a result that degrades the  *)
(* cluster if the result of the check does.                                *)
LEMMA DegradeIsReported ==
  ASSUME NEW r, NEW driver, r.action = CheckActionDegrade
  PROVE  CheckClusterStatus(r, driver) = <<"degraded", r>>
  BY DEF CheckClusterStatus, CheckActionPass, CheckActionBlockUpgrade,
         CheckActionBlockUpgradeDriverInstall, CheckActionBlockUpgradeOrDegrade,
         CheckActionDegrade

(* What blockUpgradeOrDegradeCluster does to the conditions. *)
LEMMA BlockEffect ==
  ASSUME conditions \in Conditions, operandControllerStarted \in BOOLEAN,
         NEW onward, blockUpgradeOrDegradeCluster(onward),
         NEW s, s = CheckClusterStatus(result, seenDriver)[1],
         NEW r, r = CheckClusterStatus(result, seenDriver)[2]
  PROVE  /\ conditions' \in Conditions
         /\ s = "pass" \/ r.action = CheckActionDegrade =>
              conditions' = conditions \/ conditions'.checkDegraded = "True"
<1> DEFINE u == UpgradeStatusOf(s)
           b == BlocksInstall(s)
           new == NewConditions(conditions, r, u, b, operandControllerStarted)
<1>1. /\ conditions' = conditions \/ conditions' = new
      /\ s = "pass" => conditions' = conditions
  BY DEF blockUpgradeOrDegradeCluster, updateConditions, UpdateStatus, SyncError
<1>2. u \in {"True", "False", "Unknown"} /\ b \in BOOLEAN
  BY DEF UpgradeStatusOf, BlocksInstall
<1> HIDE DEF u, b
<1>3. /\ new \in Conditions
      /\ r.action = CheckActionDegrade => new.checkDegraded = "True"
  BY <1>2 DEF NewConditions, Conditions
<1> QED
  BY <1>1, <1>3

(* The same at the two places that call it. *)
LEMMA ConnectionEffect ==
  ASSUME ConditionsInv, DecideConnection
  PROVE  /\ conditions' \in Conditions
         /\ conditions.checkDegraded = "True" /\ conditions'.checkDegraded # "True" =>
              /\ seenDriver # "annotated"
              /\ result.status = "vsphere_connection_failed"
<1> DEFINE s == CheckClusterStatus(result, seenDriver)[1]
           r == CheckClusterStatus(result, seenDriver)[2]
<1>1. /\ conditions' \in Conditions
      /\ s = "pass" \/ r.action = CheckActionDegrade =>
           conditions' = conditions \/ conditions'.checkDegraded = "True"
  BY BlockEffect DEF DecideConnection, ConditionsInv
<1>2. result \in LoginResults
  BY DEF ConditionsInv, DecideConnection, At
<1>3. CASE result = MakeClusterCheckResultPass
  <2>1. s = "pass"
    BY <1>3 DEF MakeClusterCheckResultPass, Result, CheckClusterStatus, CheckActionPass,
         CheckActionBlockUpgrade, CheckActionBlockUpgradeDriverInstall,
         CheckActionBlockUpgradeOrDegrade, CheckActionDegrade
  <2> QED
    BY <1>1, <2>1
<1>4. CASE result = MakeClusterDegradedError("openshift_api_error")
  <2>1. result.action = CheckActionDegrade
    BY <1>4 DEF MakeClusterDegradedError, Result
  <2>2. r = result
    BY <2>1, DegradeIsReported
  <2> QED
    BY <1>1, <2>1, <2>2
<1>5. CASE result = Result(CheckActionBlockUpgradeOrDegrade, "vsphere_connection_failed")
  <2>1. /\ result.status = "vsphere_connection_failed"
        /\ CheckClusterStatus(result, seenDriver) = BlockUpgradeOrDegrade(result, seenDriver)
    BY <1>5 DEF Result, CheckClusterStatus, CheckActionPass,
         CheckActionBlockUpgrade, CheckActionBlockUpgradeDriverInstall,
         CheckActionBlockUpgradeOrDegrade, CheckActionDegrade
  <2>2. seenDriver = "annotated" => r.action = CheckActionDegrade
    BY <2>1 DEF BlockUpgradeOrDegrade, MakeClusterDegradedError, Result
  <2> QED
    BY <1>1, <2>1, <2>2
<1> QED
  BY <1>1, <1>2, <1>3, <1>4, <1>5 DEF LoginResults

LEMMA CheckEffect ==
  ASSUME ConditionsInv, DecideCheck
  PROVE  /\ conditions' \in Conditions
         /\ conditions.checkDegraded = "True" /\ conditions'.checkDegraded # "True" =>
              result.action # CheckActionDegrade
<1>1. /\ conditions' \in Conditions
      /\ CheckClusterStatus(result, seenDriver)[2].action = CheckActionDegrade =>
           conditions' = conditions \/ conditions'.checkDegraded = "True"
  BY BlockEffect DEF DecideCheck, ConditionsInv
<1>2. result.action = CheckActionDegrade => CheckClusterStatus(result, seenDriver)[2] = result
  BY DegradeIsReported
<1> QED
  BY <1>1, <1>2

LEMMA InstallEffect ==
  ASSUME ConditionsInv, installCSIDriver
  PROVE  /\ conditions' \in Conditions
         /\ conditions.checkDegraded = "True" /\ conditions'.checkDegraded # "True" =>
              result.action # CheckActionDegrade
<1> DEFINE u == IF blockUpgrade THEN "False" ELSE "True"
<1>1. \/ conditions' = conditions
      \/ conditions' = NewConditions(conditions, result, u, FALSE, TRUE)
  BY DEF installCSIDriver, updateConditions, UpdateStatus, SyncError
<1>2. u \in {"True", "False", "Unknown"}
  OBVIOUS
<1> HIDE DEF u
<1>3. /\ NewConditions(conditions, result, u, FALSE, TRUE) \in Conditions
      /\ result.action = CheckActionDegrade =>
           NewConditions(conditions, result, u, FALSE, TRUE).checkDegraded = "True"
  BY <1>2 DEF NewConditions, Conditions, ConditionsInv
<1> QED
  BY <1>1, <1>3 DEF ConditionsInv

(* The steps that leave VMwareVSphereOperatorCheckDegraded alone although  *)
(* they write conditions.                                                  *)
LEMMA OtherEffect ==
  ASSUME conditions \in Conditions, SyncStorageClass \/ reconcile
  PROVE  conditions' \in Conditions /\ conditions'.checkDegraded = conditions.checkDegraded
<1>1. CASE SyncStorageClass
  <2>1. \/ conditions' = conditions
        \/ \E v \in {"True", "False"} : conditions' = [conditions EXCEPT !.scDegraded = v]
    BY <1>1 DEF SyncStorageClass, UpdateStatus, SyncError
  <2> QED
    BY <2>1, OtherConditions, ZenonT(60)
<1>2. CASE reconcile
  <2>1. \/ conditions' = conditions
        \/ \E v \in BOOLEAN : conditions' = [conditions EXCEPT !.syncDegraded = v]
    BY <1>2 DEF reconcile, SyncReturns
  <2> QED
    BY <2>1, OtherConditions
<1> QED
  BY <1>1, <1>2

LEMMA RemovalEffect ==
  ASSUME conditions \in Conditions, removeConditions
  PROVE  conditions' \in Conditions
<1>1. conditions' = conditions \/ conditions' = Without(conditions, opStatus)
  BY DEF removeConditions, UpdateStatus, SyncError
<1> QED
  BY <1>1, ConditionsRemoved

(* The steps that write conditions. *)
Writes ==
  \/ DecideConnection \/ DecideCheck \/ installCSIDriver
  \/ SyncStorageClass \/ reconcile \/ removeConditions

LEMMA OthersKeepConditions == [Next]_vars /\ ~Writes => conditions' = conditions
BY DEF Writes, Next, Sync, World, SyncUnmanaged, SyncExit, SyncRemoved, SyncManaged,
       loginToVCenter, createCSISecret, SkipChecks, runClusterCheck, removeOperands,
       ApplyCSIDriver, ApplyNodeDaemonSet, ObserveOperator, ObserveStorage, GateOpens,
       Wake, Restart, Crash, SetManagementState, VCenterChanges, InstallForeignDriver,
       vars, apiVars

LEMMA NextConditions == ConditionsInv /\ [Next]_vars => ConditionsInv'
<1> SUFFICES ASSUME ConditionsInv, [Next]_vars PROVE ConditionsInv'
  OBVIOUS
<1>1. conditions' \in Conditions
  BY ConnectionEffect, CheckEffect, InstallEffect, OtherEffect, RemovalEffect,
     OthersKeepConditions DEF Writes, ConditionsInv
<1>2. login' \in LoginOutcome
  BY LoginsAssumption DEF ConditionsInv, Next, Sync, World, SyncUnmanaged, SyncExit,
     SyncRemoved, SyncManaged, loginToVCenter, DecideConnection, createCSISecret,
     SkipChecks, runClusterCheck, DecideCheck, installCSIDriver, SyncStorageClass,
     removeOperands, removeConditions, reconcile, SyncReturns, ApplyCSIDriver,
     ApplyNodeDaemonSet, ObserveOperator, ObserveStorage, GateOpens, Wake, Restart, Crash,
     SetManagementState, VCenterChanges, InstallForeignDriver, vars, worldVars
<1>3. operandControllerStarted' \in BOOLEAN
  BY DEF ConditionsInv, Next, Sync, World, SyncUnmanaged, SyncExit,
     SyncRemoved, SyncManaged, loginToVCenter, DecideConnection, createCSISecret,
     SkipChecks, runClusterCheck, DecideCheck, installCSIDriver, SyncStorageClass,
     removeOperands, removeConditions, reconcile, SyncReturns, ApplyCSIDriver,
     ApplyNodeDaemonSet, ObserveOperator, ObserveStorage, GateOpens, Wake, Restart, Crash,
     ProcessEnds, SetManagementState, VCenterChanges, InstallForeignDriver, vars, procVars
<1>4. ASSUME pc' = "connection" PROVE result' \in LoginResults
  <2> USE DEF At, Goto
  <2>1. CASE loginToVCenter
    <3>1. result' = ConnectionResult
      BY <2>1 DEF loginToVCenter
    <3>2. ConnectionResult \in LoginResults
      BY DEF ConnectionResult, LoginResults, ConditionsInv, LoginOutcome
    <3> QED
      BY <3>1, <3>2
  <2>2. CASE ~loginToVCenter
    <3>1. pc = "connection" /\ result' = result
      BY <1>4, <2>2 DEF Next, Sync, World, SyncUnmanaged, SyncExit, TakeKey,
         SyncRemoved, SyncManaged, DecideConnection, createCSISecret,
         SkipChecks, runClusterCheck, DecideCheck, installCSIDriver, SyncStorageClass,
         removeOperands, removeConditions, reconcile, SyncReturns, ApplyCSIDriver,
         ApplyNodeDaemonSet, ObserveOperator, ObserveStorage, GateOpens, Wake, Restart,
         Crash, ProcessEnds, SetManagementState, VCenterChanges, InstallForeignDriver,
         vars, syncVars, blockUpgradeOrDegradeCluster, SyncError
    <3> QED
      BY <3>1 DEF ConditionsInv
  <2> QED
    BY <2>1, <2>2
<1> QED
  BY <1>1, <1>2, <1>3, <1>4 DEF ConditionsInv, LoginResults

LEMMA InitConditions == Init => ConditionsInv
<1> SUFFICES ASSUME Init PROVE ConditionsInv
  OBVIOUS
<1>1. conditions \in Conditions
  BY DEF Init, NoConditions, Conditions
<1>2. login \in LoginOutcome
  BY LoginsAssumption DEF Init
<1>3. operandControllerStarted \in BOOLEAN /\ pc # "connection"
  BY DEF Init
<1> QED
  BY <1>1, <1>2, <1>3 DEF ConditionsInv

----------------------------------------------------------------------------
(* The types. *)

(* The conditions together with the rest: only the conditions need to know *)
(* where a connection result comes from.                                   *)
TypeInv == TypeOK /\ ConditionsInv

LEMMA UndecidedType == Undecided \in ClusterCheckResult
  BY DEF Undecided, Result, CheckActionPass, ClusterCheckResult, CheckAction, CheckStatusType

(* The results with the statuses that occur here. *)
LEMMA SomeResults ==
  ASSUME NEW action \in 0 .. 4,
         NEW status \in {"pass", "openshift_api_error", "vsphere_connection_failed",
                         "existing_driver_found"}
  PROVE  Result(action, status) \in ClusterCheckResult
<1>1. status \in CheckStatusType
  BY Zenon DEF CheckStatusType
<1> QED
  BY <1>1 DEF Result, ClusterCheckResult, CheckAction

LEMMA ConnectionResultType ==
  ASSUME login \in LoginOutcome
  PROVE  ConnectionResult \in ClusterCheckResult
<1>1. LoginResults \subseteq ClusterCheckResult
  <2>1. 0 \in 0 .. 4 /\ 3 \in 0 .. 4 /\ 4 \in 0 .. 4
    OBVIOUS
  <2> QED
    BY <2>1, SomeResults, Zenon DEF LoginResults, MakeClusterCheckResultPass,
       MakeClusterDegradedError, CheckActionPass, CheckActionDegrade,
       CheckActionBlockUpgradeOrDegrade
<1>2. ConnectionResult \in LoginResults
  BY DEF ConnectionResult, LoginResults, LoginOutcome
<1> QED
  BY <1>1, <1>2

(* One turn of the merge. *)
Turn(overall, r) == IF r.action >= overall.action THEN r ELSE overall

LEMMA TurnType ==
  ASSUME NEW r \in ClusterCheckResult, NEW overall \in ClusterCheckResult
  PROVE  Turn(overall, r) \in ClusterCheckResult
  BY Zenon DEF Turn

(* The merge of what CheckExistingDriver and the other checks report. *)
LEMMA MergeType ==
  ASSUME NEW s \in Seq(ClusterCheckResult), Len(s) \in {1, 2}
  PROVE  /\ OverallResult(s) \in ClusterCheckResult
         /\ Len(s) = 1 => OverallResult(s) = s[1]
<1> DEFINE Loop(f, i) == IF i = 0 THEN Undecided
                         ELSE IF s[i].action >= f[i - 1].action THEN s[i] ELSE f[i - 1]
           f == CHOOSE overall : overall = [i \in 0 .. Len(s) |-> Loop(overall, i)]
           first == Turn(Undecided, s[1])
           second == Turn(first, s[2])
           g == [i \in 0 .. Len(s) |-> IF i = 0 THEN Undecided
                                       ELSE IF i = 1 THEN first ELSE second]
<1>1. g = [i \in 0 .. Len(s) |-> Loop(g, i)]
  <2>1. ASSUME NEW i \in 0 .. Len(s) PROVE g[i] = Loop(g, i)
    <3>1. CASE i = 0
      BY <3>1
    <3>2. CASE i = 1
      BY <3>2 DEF Turn
    <3>3. CASE i = 2
      BY <3>3 DEF Turn
    <3> QED
      BY <3>1, <3>2, <3>3
  <2> HIDE DEF Loop
  <2>2. \A i \in 0 .. Len(s) : (IF i = 0 THEN Undecided ELSE IF i = 1 THEN first ELSE second)
                                = Loop(g, i)
    BY <2>1
  <2> QED
    BY <2>2
<1>2. f = [i \in 0 .. Len(s) |-> Loop(f, i)]
  <2> HIDE DEF g, Loop
  <2> QED
    BY <1>1, Zenon
<1>3. OverallResult(s) = f[Len(s)]
  BY Zenon DEF OverallResult, Undecided
<1>4. \A i \in 0 .. Len(s) : f[i] = Loop(f, i)
  <2> HIDE DEF f, Loop
  <2> QED
    BY <1>2, Zenon
<1> HIDE DEF f
<1>5. f[0] = Undecided
  BY <1>4
<1>6. s[1] \in ClusterCheckResult /\ f[1] = Turn(f[0], s[1])
  BY <1>4 DEF Turn
<1>7. f[1] \in ClusterCheckResult
  BY <1>5, <1>6, UndecidedType, TurnType
<1>8. CASE Len(s) = 1
  <2>1. s[1].action >= Undecided.action
    BY <1>6 DEF ClusterCheckResult, CheckAction, Undecided, Result, CheckActionPass
  <2>2. f[1] = s[1]
    BY <1>5, <1>6, <2>1 DEF Turn
  <2> QED
    BY <1>3, <1>7, <1>8, <2>2
<1>9. CASE Len(s) = 2
  <2>1. s[2] \in ClusterCheckResult
    BY <1>9
  <2>2. 2 \in 0 .. Len(s) /\ 2 # 0 /\ 2 - 1 = 1
    BY <1>9
  <2>3. f[2] = Turn(f[1], s[2])
    BY <1>4, <2>2 DEF Turn
  <2> QED
    BY <1>3, <1>7, <1>9, <2>1, <2>3, TurnType
<1> QED
  BY <1>8, <1>9

LEMMA OneMore ==
  ASSUME NEW S, NEW t \in Seq(S), Len(t) \in {0, 1}, NEW e \in S
  PROVE  t \o <<e>> \in Seq(S) /\ Len(t \o <<e>>) \in {1, 2}
<1>1. <<e>> \in Seq(S) /\ Len(<<e>>) = 1
  OBVIOUS
<1>2. t \o <<e>> \in Seq(S)
  BY <1>1
<1>3. Len(t \o <<e>>) = Len(t) + 1
  BY <1>1
<1>4. \A x \in {0, 1} : x + 1 \in {1, 2}
  OBVIOUS
<1> QED
  BY <1>2, <1>3, <1>4, Zenon

LEMMA CheckResultType ==
  ASSUME env \in ClusterCheckResult, NEW driver \in {"notfound", "annotated", "unannotated"},
         NEW nodes \in {"registered", "none"}
  PROVE  OverallResult(CheckExistingDriver(driver, nodes) \o <<env>>) \in ClusterCheckResult
<1>1. makeFoundExistingDriverResult \in ClusterCheckResult
  BY SomeResults DEF makeFoundExistingDriverResult, CheckActionBlockUpgradeDriverInstall
<1>2. \/ CheckExistingDriver(driver, nodes) = << >>
      \/ CheckExistingDriver(driver, nodes) = <<makeFoundExistingDriverResult>>
  BY DEF CheckExistingDriver
<1>3. /\ CheckExistingDriver(driver, nodes) \in Seq(ClusterCheckResult)
      /\ Len(CheckExistingDriver(driver, nodes)) \in {0, 1}
  <2>1. << >> \in Seq(ClusterCheckResult) /\ Len(<< >>) \in {0, 1}
    OBVIOUS
  <2>2. /\ <<makeFoundExistingDriverResult>> \in Seq(ClusterCheckResult)
        /\ Len(<<makeFoundExistingDriverResult>>) \in {0, 1}
    BY <1>1
  <2> QED
    BY <1>2, <2>1, <2>2, Zenon
<1> QED
  BY <1>3, OneMore, MergeType

LEMMA NoConditionsType == NoConditions \in Conditions
  BY DEF NoConditions, Conditions

(* A change or a failure stays within the budget. *)
LEMMA Budget ==
  ASSUME changes \in 0 .. MaxChanges, Disturb
  PROVE  changes' \in 0 .. MaxChanges
  BY MaxChangesAssumption DEF Disturb

(* What currentManagmentState can be; the empty text is opaque to SMT. *)
Remembered == {"", "Managed"}

LEMMA WhatIsRemembered == "Managed" \in Remembered /\ "" \in Remembered
  BY Zenon DEF Remembered

(* The types of the variables other than the conditions: flags and values. *)
Flags ==
  /\ nodePlugin \in BOOLEAN /\ storageClass \in BOOLEAN /\ seenNode \in BOOLEAN
  /\ up \in BOOLEAN /\ operandControllerStarted \in BOOLEAN
  /\ vCenterConnectionStatus \in BOOLEAN /\ queued \in BOOLEAN

Values ==
  /\ managementState \in ManagementState
  /\ csiDriver \in {"notfound", "annotated", "unannotated"}
  /\ seen \in [managementState : ManagementState, conditions : Conditions]
  /\ seenDriver \in {"notfound", "annotated", "unannotated"}
  /\ login \in Logins /\ env \in Envs /\ changes \in 0 .. MaxChanges
  /\ currentManagmentState \in Remembered /\ gate \in {"open", "closed"}
  /\ pc \in {"idle", "login", "connection", "secret", "check", "decide", "install",
             "storageclass", "removeOperands", "removeConditions", "done", "error"}
  /\ opStatus \in Conditions /\ result \in ClusterCheckResult

Rest == Flags /\ Values

LEMMA TypesSplit == TypeOK <=> Rest /\ conditions \in Conditions
  BY Zenon DEF TypeOK, Rest, Flags, Values, Remembered

LEMMA SyncRest ==
  ASSUME Rest, conditions \in Conditions, Sync PROVE Rest'
<1> USE Budget DEF Rest, Flags, Values, At, Goto, TakeKey, SyncError, apiVars, cacheVars, worldVars,
            procVars, syncVars
<1>1. CASE SyncUnmanaged \/ SyncRemoved
  <2>1. Flags'
    BY <1>1, Zenon DEF SyncUnmanaged, SyncRemoved
  <2>2. Values'
    BY <1>1 DEF SyncUnmanaged, SyncRemoved
  <2> QED
    BY <2>1, <2>2, Zenon
<1>2. CASE SyncManaged
  BY <1>2, WhatIsRemembered DEF SyncManaged
<1>3. CASE SyncExit
  BY <1>3, NoConditionsType, UndecidedType, WhatIsRemembered, Zenon DEF SyncExit, ProcessEnds
<1>4. CASE loginToVCenter
  <2>1. result' \in ClusterCheckResult
    BY <1>4, LoginsAssumption, ConnectionResultType DEF loginToVCenter
  <2>2. vCenterConnectionStatus' \in BOOLEAN /\ gate' \in {"open", "closed"}
    BY <1>4 DEF loginToVCenter
  <2> QED
    BY <1>4, <2>1, <2>2 DEF loginToVCenter
<1>5. CASE DecideConnection \/ DecideCheck
  BY <1>5 DEF DecideConnection, DecideCheck, blockUpgradeOrDegradeCluster
<1>6. CASE createCSISecret \/ SkipChecks
  BY <1>6 DEF createCSISecret, SkipChecks
<1>7. CASE runClusterCheck
  <2>1. env \in ClusterCheckResult
    BY EnvsAssumption
  <2>2. MakeClusterCheckResultPass \in ClusterCheckResult
    BY EnvsAssumption
  <2>3. result' \in ClusterCheckResult
    BY <1>7, <2>1, <2>2, CheckResultType, Zenon DEF runClusterCheck
  <2> QED
    BY <1>7, <2>3 DEF runClusterCheck
<1>8. CASE installCSIDriver
  <2>1. Flags'
    BY <1>8, Zenon DEF installCSIDriver
  <2>2. Values'
    BY <1>8 DEF installCSIDriver
  <2> QED
    BY <2>1, <2>2, Zenon
<1>9. CASE SyncStorageClass
  <2>1. Flags'
    BY <1>9, Zenon DEF SyncStorageClass
  <2>2. Values'
    BY <1>9 DEF SyncStorageClass
  <2> QED
    BY <2>1, <2>2, Zenon
<1>10. CASE removeOperands \/ removeConditions
  <2>1. Flags'
    BY <1>10, Zenon DEF removeOperands, removeConditions
  <2>2. Values'
    BY <1>10 DEF removeOperands, removeConditions
  <2> QED
    BY <2>1, <2>2, Zenon
<1>11. CASE reconcile
  <2>1. NoConditions \in Conditions /\ Undecided \in ClusterCheckResult
    BY NoConditionsType, UndecidedType
  <2>2. Flags'
    BY <1>11, Zenon DEF reconcile, SyncReturns
  <2>3. Values'
    BY <1>11, <2>1 DEF reconcile, SyncReturns
  <2> QED
    BY <2>2, <2>3, Zenon
<1> QED
  BY <1>1, <1>2, <1>3, <1>4, <1>5, <1>6, <1>7, <1>8, <1>9, <1>10, <1>11 DEF Sync

LEMMA OthersRest ==
  ASSUME Rest, conditions \in Conditions, [Next]_vars, ~Sync PROVE Rest'
<1> USE Budget DEF Rest, Flags, Values, apiVars, cacheVars, worldVars, procVars, syncVars
<1>1. CASE ApplyCSIDriver \/ ApplyNodeDaemonSet
  <2>1. Flags'
    BY <1>1, Zenon DEF ApplyCSIDriver, ApplyNodeDaemonSet
  <2>2. Values'
    BY <1>1 DEF ApplyCSIDriver, ApplyNodeDaemonSet
  <2> QED
    BY <2>1, <2>2, Zenon
<1>2. CASE ObserveOperator \/ Restart
  <2>1. Flags'
    BY <1>2, Zenon DEF ObserveOperator, Restart
  <2>2. Values'
    BY <1>2 DEF ObserveOperator, Restart
  <2> QED
    BY <2>1, <2>2, Zenon
<1>3. CASE ObserveStorage \/ GateOpens \/ Wake
  <2>1. Flags'
    BY <1>3, Zenon DEF ObserveStorage, GateOpens, Wake
  <2>2. Values'
    BY <1>3 DEF ObserveStorage, GateOpens, Wake
  <2> QED
    BY <2>1, <2>2, Zenon
<1>4. CASE Crash
  <2>1. changes' \in 0 .. MaxChanges
    BY <1>4 DEF Crash
  <2> QED
    BY <1>4, <2>1, NoConditionsType, UndecidedType, WhatIsRemembered, Zenon DEF Crash, ProcessEnds
<1>5. CASE SetManagementState \/ VCenterChanges \/ InstallForeignDriver
  BY <1>5 DEF SetManagementState, VCenterChanges, InstallForeignDriver
<1>6. CASE UNCHANGED vars
  BY <1>6 DEF vars
<1> QED
  BY <1>1, <1>2, <1>3, <1>4, <1>5, <1>6 DEF Next, World

(* Before the first sync. *)
LEMMA InitType == Init => TypeInv
<1> SUFFICES ASSUME Init PROVE TypeOK
  BY InitConditions DEF TypeInv
<1>1. NoConditions \in Conditions /\ Undecided \in ClusterCheckResult
  BY NoConditionsType, UndecidedType
<1>2. changes \in 0 .. MaxChanges
  <2>1. changes = 0
    BY Zenon DEF Init
  <2> QED
    BY <2>1, MaxChangesAssumption
<1>3. "Managed" \in ManagementState
  BY DEF ManagementState
<1>4. seen \in [managementState : ManagementState, conditions : Conditions]
  <2>1. seen = [managementState |-> "Managed", conditions |-> NoConditions]
    BY Zenon DEF Init
  <2> QED
    BY <2>1, <1>1, <1>3
<1> QED
  BY <1>1, <1>2, <1>3, <1>4, Zenon DEF Init, TypeOK

(* The types together with the conditions are inductive. *)
LEMMA NextType == TypeInv /\ [Next]_vars => TypeInv'
<1> SUFFICES ASSUME TypeInv, [Next]_vars PROVE TypeInv'
  OBVIOUS
<1>1. ConditionsInv'
  BY NextConditions DEF TypeInv
<1>2. Rest'
  BY SyncRest, OthersRest, TypesSplit, Zenon DEF TypeInv
<1>3. TypeOK'
  BY <1>1, <1>2, Zenon DEF TypeOK, Rest, Flags, Values, Remembered, ConditionsInv
<1> QED
  BY <1>1, <1>3 DEF TypeInv

----------------------------------------------------------------------------
(* The theorems. *)

(* removeOperands never runs in a process whose operand controllers run:   *)
(* sync exits the process first.                                           *)
THEOREM RemovalExclusion == Spec => []RemovalIsExclusive
<1>1. ExclusionInv => RemovalIsExclusive
  BY DEF ExclusionInv, RemovalIsExclusive, Removing
<1> QED
  BY InitInv, NextExclusion, <1>1, PTL DEF Spec

(* installCSIDriver starts nothing when the merged result of the checks    *)
(* blocks the installation or degrades the cluster.                        *)
THEOREM BlockedMeansNoInstall == Spec => []InstallOnlyIfNotBlocked
BY InitInv, NextInstall, PTL DEF Spec

(* VMwareVSphereOperatorCheckDegraded goes away only by a verdict reached   *)
(* while logged in, by the removal, or, while vCenter cannot be reached,   *)
(* when our driver is not installed any more.                              *)
THEOREM DegradedStays == Spec => DegradedIsSticky
<1>1. ASSUME ConditionsInv, [Next]_vars,
             conditions.checkDegraded = "True", conditions'.checkDegraded # "True"
      PROVE  \/ pc = "removeConditions"
             \/ pc \in {"decide", "install"} /\ result.action # CheckActionDegrade
             \/ /\ pc = "connection" /\ seenDriver # "annotated"
                /\ result.status = "vsphere_connection_failed"
  <2>1. DecideConnection \/ DecideCheck \/ installCSIDriver \/ removeConditions
    BY <1>1, OtherEffect, OthersKeepConditions DEF Writes, ConditionsInv
  <2>2. CASE DecideConnection
    BY <1>1, <2>2, ConnectionEffect DEF DecideConnection, At
  <2>3. CASE DecideCheck
    BY <1>1, <2>3, CheckEffect DEF DecideCheck, At
  <2>4. CASE installCSIDriver
    BY <1>1, <2>4, InstallEffect DEF installCSIDriver, At
  <2>5. CASE removeConditions
    BY <2>5 DEF removeConditions, At
  <2> QED
    BY <2>1, <2>2, <2>3, <2>4, <2>5
<1> QED
  BY InitConditions, NextConditions, <1>1, PTL DEF Spec, DegradedIsSticky

(* Every variable has its type in every state: the merged result is always *)
(* one of a check, and the snapshot of the conditions that sync works on   *)
(* always one of conditions that could be read.                            *)
THEOREM TypeCorrect == Spec => []TypeOK
<1>1. TypeInv => TypeOK
  BY DEF TypeInv
<1> QED
  BY InitType, NextType, <1>1, PTL DEF Spec

----------------------------------------------------------------------------
(* What is reached is kept: the other half of the liveness properties.     *)

(* What removal deletes is gone, and nobody is about to install. *)
RemovedQuiet ==
  /\ managementState = "Removed" /\ seen.managementState = "Removed"
  /\ pc \notin Managing
  /\ csiDriver # "annotated" /\ nodePlugin = FALSE /\ storageClass = FALSE

(* Sync can only remove, and the operand controllers only delete. *)
LEMMA RemovedKept ==
  ASSUME RemovedQuiet, [Next]_vars, managementState' = managementState
  PROVE  RemovedQuiet'
<1> USE DEF RemovedQuiet, Managing
<1>1. ASSUME seen'.managementState = "Removed", UNCHANGED <<csiDriver, nodePlugin, storageClass>>,
             pc' \notin Managing
      PROVE  RemovedQuiet'
  BY <1>1
<1>2. CASE SyncUnmanaged \/ SyncManaged
  BY <1>2 DEF SyncUnmanaged, SyncManaged, TakeKey
<1>3. CASE SyncExit
  BY <1>1, <1>3 DEF SyncExit, ProcessEnds, apiVars, cacheVars
<1>4. CASE SyncRemoved
  BY <1>1, <1>4 DEF SyncRemoved, Goto, apiVars, cacheVars
<1>5. CASE loginToVCenter \/ DecideConnection \/ createCSISecret \/ SkipChecks \/ runClusterCheck
           \/ DecideCheck \/ installCSIDriver \/ SyncStorageClass
  BY <1>5 DEF loginToVCenter, DecideConnection, createCSISecret, SkipChecks, runClusterCheck,
              DecideCheck, installCSIDriver, SyncStorageClass, At
<1>6. CASE removeOperands
  BY <1>6 DEF removeOperands, SyncError, Goto, cacheVars
<1>7. CASE removeConditions
  BY <1>7 DEF removeConditions, SyncError, Goto, cacheVars
<1>8. CASE reconcile
  BY <1>1, <1>8 DEF reconcile, SyncReturns, cacheVars
<1>9. CASE ApplyCSIDriver \/ ApplyNodeDaemonSet
  BY <1>9 DEF ApplyCSIDriver, ApplyNodeDaemonSet, cacheVars, syncVars
<1>10. CASE ObserveOperator \/ ObserveStorage \/ GateOpens \/ Wake \/ Restart
  BY <1>1, <1>10 DEF ObserveOperator, ObserveStorage, GateOpens, Wake, Restart, apiVars, cacheVars,
                     syncVars
<1>11. CASE Crash
  BY <1>1, <1>11 DEF Crash, ProcessEnds, apiVars, cacheVars
<1>12. CASE SetManagementState \/ VCenterChanges \/ InstallForeignDriver
  BY <1>12 DEF SetManagementState, VCenterChanges, InstallForeignDriver, apiVars, cacheVars,
               syncVars
<1>13. CASE UNCHANGED vars
  BY <1>1, <1>13 DEF vars, apiVars, cacheVars, syncVars
<1> QED
  BY <1>2, <1>3, <1>4, <1>5, <1>6, <1>7, <1>8, <1>9, <1>10, <1>11, <1>12, <1>13
     DEF Next, Sync, World

(* What removal deletes stays deleted until an administrator says          *)
(* otherwise, through any crash, restart, failure and late informer        *)
(* (RemovalCompletes says that removal gets there); a driver of somebody   *)
(* else may come.                                                          *)
THEOREM RemovalIsKept ==
  Spec => [][RemovedQuiet /\ managementState' = managementState => RemovedQuiet']_vars
<1>1. [Next]_vars
        => [RemovedQuiet /\ managementState' = managementState => RemovedQuiet']_vars
  BY RemovedKept
<1> QED
  BY <1>1, PTL DEF Spec

(* The driver is installed and reported so, the caches know, and sync has  *)
(* found nothing wrong so far.                                             *)
InstalledQuiet ==
  /\ up /\ HealthyWorld /\ Installed
  /\ seen.managementState = "Managed" /\ seenDriver = "annotated"
  /\ pc \in Managing \cup {"idle", "done"}
  /\ pc \in {"connection", "decide", "install"} => result = MakeClusterCheckResultPass

(* The conditions of an installed driver. *)
AllIsWell ==
  [checkDegraded |-> "False", upgradeable |-> "True", scDegraded |-> "False",
   disabled |-> FALSE, syncDegraded |-> FALSE]

(* A pass leads on, and writes what is written. *)
LEMMA PassLeadsOn ==
  ASSUME NEW driver
  PROVE  CheckClusterStatus(MakeClusterCheckResultPass, driver)[1] = "pass"
  BY DEF MakeClusterCheckResultPass, Result, CheckClusterStatus, CheckActionPass,
         CheckActionBlockUpgrade, CheckActionBlockUpgradeDriverInstall,
         CheckActionBlockUpgradeOrDegrade, CheckActionDegrade

(* What the syncs of an installed driver write is there already. *)
LEMMA NothingNews ==
  /\ NewConditions(AllIsWell, MakeClusterCheckResultPass, "True", FALSE, TRUE) = AllIsWell
  /\ [AllIsWell EXCEPT !.scDegraded = "False"] = AllIsWell
  /\ [AllIsWell EXCEPT !.syncDegraded = FALSE] = AllIsWell
<1> DEFINE Well(no) == [checkDegraded |-> "False", upgradeable |-> "True",
                        scDegraded |-> "False", disabled |-> no, syncDegraded |-> no]
<1>1. ASSUME NEW no
      PROVE  /\ [Well(no) EXCEPT !.scDegraded = "False"] = Well(no)
             /\ [Well(no) EXCEPT !.syncDegraded = no] = Well(no)
             /\ [Well(no) EXCEPT !.checkDegraded = "False", !.upgradeable = "True",
                                 !.disabled = no] = Well(no)
  <2>1. [Well(no) EXCEPT !.scDegraded = "False"] = Well(no)
    OBVIOUS
  <2>2. [Well(no) EXCEPT !.syncDegraded = no] = Well(no)
    OBVIOUS
  <2>3. [Well(no) EXCEPT !.checkDegraded = "False"] = Well(no)
    OBVIOUS
  <2>4. [Well(no) EXCEPT !.upgradeable = "True"] = Well(no)
    OBVIOUS
  <2>5. [Well(no) EXCEPT !.disabled = no] = Well(no)
    OBVIOUS
  <2> HIDE DEF Well
  <2>6. [Well(no) EXCEPT !.checkDegraded = "False", !.upgradeable = "True",
                         !.disabled = no] = Well(no)
    BY <2>3, <2>4, <2>5, Zenon
  <2> QED
    BY <2>1, <2>2, <2>6
<1>2. AllIsWell = Well(FALSE)
  BY Zenon DEF AllIsWell
<1> HIDE DEF Well
<1>3. MakeClusterCheckResultPass.action # CheckActionDegrade
  BY DEF MakeClusterCheckResultPass, Result, CheckActionPass, CheckActionDegrade
<1>4. (~TRUE /\ FALSE) = FALSE
  OBVIOUS
<1>5. NewConditions(AllIsWell, MakeClusterCheckResultPass, "True", FALSE, TRUE)
        = [AllIsWell EXCEPT !.checkDegraded = "False", !.upgradeable = "True", !.disabled = FALSE]
  BY <1>3, <1>4, Zenon DEF NewConditions
<1> QED
  BY <1>1, <1>2, <1>5, Zenon

(* With our driver installed only the other checks are left to merge. *)
LEMMA OursIsNoFinding ==
  ASSUME NEW nodes, NEW e \in ClusterCheckResult
  PROVE  OverallResult(CheckExistingDriver("annotated", nodes) \o <<e>>) = e
<1>1. CheckExistingDriver("annotated", nodes) = << >>
  BY DEF CheckExistingDriver
<1>2. << >> \o <<e>> = <<e>> /\ <<e>> \in Seq(ClusterCheckResult) /\ Len(<<e>>) = 1 /\ <<e>>[1] = e
  OBVIOUS
<1> QED
  BY <1>1, <1>2, MergeType

(* Action by action: each writes what is written, or cannot happen. *)
LEMMA InstalledKept ==
  ASSUME TypeInv, InstalledQuiet, [Next]_vars, changes' = changes
  PROVE  InstalledQuiet'
<1> DEFINE Here == pc' \in Managing \cup {"idle", "done"}
           Passed == pc' \in {"connection", "decide", "install"}
                       => result' = MakeClusterCheckResultPass
<1>0. /\ up /\ operandControllerStarted /\ storageClass
      /\ HealthyWorld /\ Installed
      /\ seen.managementState = "Managed" /\ seenDriver = "annotated"
      /\ conditions = AllIsWell
  BY Zenon DEF InstalledQuiet, Installed, AllIsWell
<1>1. ASSUME UNCHANGED <<managementState, conditions, csiDriver, nodePlugin, login, env>>,
             up', operandControllerStarted', storageClass',
             seen'.managementState = "Managed", seenDriver' = "annotated", Here, Passed
      PROVE  InstalledQuiet'
  BY <1>0, <1>1, Zenon DEF InstalledQuiet, HealthyWorld, Installed
<1>2. /\ managementState = "Managed" /\ login = "ok" /\ csiDriver = "annotated" /\ nodePlugin
      /\ env = MakeClusterCheckResultPass
  BY <1>0, Zenon DEF HealthyWorld, Installed
<1>3. changes \in Nat /\ env \in ClusterCheckResult
  <2>1. changes \in 0 .. MaxChanges /\ env \in Envs
    BY Zenon DEF TypeInv, TypeOK
  <2> QED
    BY <2>1, MaxChangesAssumption, EnvsAssumption
<1>4. ~Disturb
  BY <1>3 DEF Disturb
<1>5. /\ {"login", "connection", "secret", "check", "decide", "install", "storageclass", "idle",
           "done"} \subseteq Managing \cup {"idle", "done"}
      /\ pc \in Managing \cup {"idle", "done"}
  BY DEF Managing, InstalledQuiet
<1>6. CASE SyncUnmanaged \/ SyncExit \/ SyncRemoved
  BY <1>0, <1>6 DEF SyncUnmanaged, SyncExit, SyncRemoved, TakeKey
<1>7. CASE SyncManaged
  <2>1. pc' = "login"
    BY <1>2, <1>7 DEF SyncManaged, Goto
  <2>2. operandControllerStarted'
    BY <1>0, <1>7, Zenon DEF SyncManaged
  <2>3. Here /\ Passed
    BY <1>5, <2>1
  <2> QED
    BY <1>0, <1>1, <1>7, <2>2, <2>3 DEF SyncManaged, apiVars, cacheVars, worldVars
<1>8. CASE loginToVCenter
  <2>1. result' = MakeClusterCheckResultPass /\ pc' = "connection"
    BY <1>2, <1>8 DEF loginToVCenter, ConnectionResult, Goto
  <2>2. Here /\ Passed
    BY <1>5, <2>1
  <2> QED
    BY <1>0, <1>1, <1>8, <2>2 DEF loginToVCenter, apiVars, cacheVars, worldVars
<1>9. ASSUME pc \in {"connection", "decide"}
      PROVE  CheckClusterStatus(result, seenDriver)[1] = "pass"
  <2>1. result = MakeClusterCheckResultPass
    BY <1>9 DEF InstalledQuiet
  <2> QED
    BY <2>1, PassLeadsOn
<1>10. CASE DecideConnection
  <2>1. conditions' = conditions /\ pc' = "secret"
    BY <1>9, <1>10 DEF DecideConnection, blockUpgradeOrDegradeCluster, At, Goto
  <2>2. Here /\ Passed
    BY <1>5, <2>1
  <2> QED
    BY <1>0, <1>1, <1>10, <2>1, <2>2 DEF DecideConnection, cacheVars, worldVars, procVars
<1>11. CASE createCSISecret
  <2>1. pc' = "check"
    BY <1>4, <1>11 DEF createCSISecret, SyncError, Goto
  <2>2. Here /\ Passed
    BY <1>5, <2>1
  <2> QED
    BY <1>0, <1>1, <1>11, <2>2 DEF createCSISecret, apiVars, cacheVars, worldVars, procVars
<1>12. CASE SkipChecks
  <2>1. pc' = "storageclass"
    BY <1>0, <1>12 DEF SkipChecks, Goto
  <2>2. Here /\ Passed
    BY <1>5, <2>1
  <2> QED
    BY <1>0, <1>1, <1>12, <2>2 DEF SkipChecks, apiVars, cacheVars, worldVars, procVars
<1>13. CASE runClusterCheck
  <2>1. OverallResult(CheckExistingDriver(seenDriver, IF seenNode THEN "registered" ELSE "none")
                        \o <<env>>)
          = MakeClusterCheckResultPass
    BY <1>0, <1>2, <1>3, OursIsNoFinding
  <2>2. result' = MakeClusterCheckResultPass /\ pc' = "decide"
    BY <1>13, <2>1, Zenon DEF runClusterCheck, Goto
  <2>3. Here /\ Passed
    BY <1>5, <2>2
  <2>4. UNCHANGED <<apiVars, cacheVars, worldVars, procVars>>
    BY <1>13, Zenon DEF runClusterCheck
  <2> QED
    BY <1>0, <1>1, <2>3, <2>4 DEF apiVars, cacheVars, worldVars, procVars
<1>14. CASE DecideCheck
  <2>1. conditions' = conditions /\ pc' = "install"
    BY <1>9, <1>14 DEF DecideCheck, blockUpgradeOrDegradeCluster, At, Goto
  <2>2. result' = MakeClusterCheckResultPass
    BY <1>14 DEF DecideCheck, InstalledQuiet, At
  <2>3. Here /\ Passed
    BY <1>5, <2>1, <2>2
  <2> QED
    BY <1>0, <1>1, <1>14, <2>1, <2>3 DEF DecideCheck, cacheVars, worldVars, procVars
<1>15. CASE installCSIDriver
  <2>1. result = MakeClusterCheckResultPass
    BY <1>15 DEF installCSIDriver, InstalledQuiet, At
  <2>2. ~blockUpgrade
    BY <2>1 DEF blockUpgrade, MakeClusterCheckResultPass, Result
  <2>3. updateConditions(result, "True", FALSE, TRUE) /\ pc' = "storageclass"
    BY <1>4, <1>15, <2>2 DEF installCSIDriver, SyncError, Goto
  <2>4. conditions' = conditions
    BY <1>0, <2>1, <2>3, NothingNews, Zenon DEF updateConditions, UpdateStatus
  <2>5. operandControllerStarted'
    BY <1>15, Zenon DEF installCSIDriver
  <2>6. Here /\ Passed
    BY <1>5, <2>3
  <2> QED
    BY <1>0, <1>1, <1>15, <2>4, <2>5, <2>6 DEF installCSIDriver, cacheVars, worldVars
<1>16. CASE SyncStorageClass
  <2>1. /\ storageClass' = TRUE /\ pc' = "done"
        /\ UpdateStatus(LAMBDA c : [c EXCEPT !.scDegraded = "False"])
    BY <1>4, <1>16, Zenon DEF SyncStorageClass, SyncError, Goto
  <2>2. conditions' = conditions
    BY <1>0, <2>1, NothingNews, Zenon DEF UpdateStatus
  <2>3. Here /\ Passed
    BY <1>5, <2>1
  <2> QED
    BY <1>0, <1>1, <1>16, <2>1, <2>2, <2>3 DEF SyncStorageClass, cacheVars, worldVars, procVars
<1>17. CASE removeOperands \/ removeConditions
  BY <1>5, <1>17 DEF removeOperands, removeConditions, At, Managing
<1>18. CASE reconcile
  <2>1. pc # "error"
    BY <1>5 DEF Managing
  <2>2. conditions' = [conditions EXCEPT !.syncDegraded = FALSE] /\ pc' = "idle"
    BY <1>4, <1>18, <2>1, Zenon DEF reconcile, SyncReturns, At
  <2>3. conditions' = conditions
    BY <1>0, <2>2, NothingNews, Zenon
  <2>4. Here /\ Passed
    BY <1>5, <2>2
  <2> QED
    BY <1>0, <1>1, <1>18, <2>3, <2>4 DEF reconcile, SyncReturns, cacheVars, worldVars, procVars
<1>19. ASSUME UNCHANGED syncVars PROVE Here /\ Passed
  BY <1>5, <1>19 DEF syncVars, InstalledQuiet
<1>20. CASE ApplyCSIDriver \/ ApplyNodeDaemonSet
  BY <1>0, <1>2, <1>20, Zenon DEF ApplyCSIDriver, ApplyNodeDaemonSet
<1>21. CASE ObserveOperator
  BY <1>0, <1>1, <1>2, <1>19, <1>21 DEF ObserveOperator, apiVars, worldVars, procVars
<1>22. CASE ObserveStorage
  BY <1>0, <1>1, <1>2, <1>19, <1>22 DEF ObserveStorage, apiVars, worldVars, procVars
<1>23. CASE GateOpens \/ Wake
  BY <1>0, <1>1, <1>19, <1>23 DEF GateOpens, Wake, apiVars, cacheVars, worldVars, procVars
<1>24. CASE Restart
  BY <1>0, <1>24 DEF Restart
<1>25. CASE World
  BY <1>4, <1>25 DEF World, Crash, SetManagementState, VCenterChanges, InstallForeignDriver
<1>26. CASE UNCHANGED vars
  BY <1>0, <1>1, <1>19, <1>26 DEF vars, apiVars, cacheVars, worldVars, procVars
<1> QED
  BY <1>6, <1>7, <1>8, <1>10, <1>11, <1>12, <1>13, <1>14, <1>15, <1>16, <1>17, <1>18, <1>20,
     <1>21, <1>22, <1>23, <1>24, <1>25, <1>26 DEF Next, Sync

(* An installed driver stays installed and reported so as long as nothing  *)
(* changes and nothing fails: sync writes what is written, whatever it is  *)
(* doing, and no cache shows it anything else (the safety half of          *)
(* DriverGetsInstalled).                                                   *)
THEOREM InstallationIsKept ==
  Spec => [][InstalledQuiet /\ changes' = changes => InstalledQuiet']_vars
<1>1. TypeInv /\ [Next]_vars
        => [InstalledQuiet /\ changes' = changes => InstalledQuiet']_vars
  BY InstalledKept
<1> QED
  BY InitType, NextType, <1>1, PTL DEF Spec

(* A failure that is reported, with our driver installed, the caches       *)
(* aware of both, and sync at work on nothing else.                        *)
ReportedQuiet ==
  /\ up /\ managementState = "Managed" /\ seen.managementState = "Managed"
  /\ csiDriver = "annotated" /\ seenDriver = "annotated"
  /\ Verdict[1] # "pass"
  /\ conditions.upgradeable = "False"
  /\ conditions.checkDegraded = "True" <=> Verdict[1] = "degraded"
  /\ pc \in Managing \cup {"idle", "done", "error"}
  /\ pc = "connection" => result = ConnectionResult
  /\ pc \in {"secret", "check", "decide", "install"} => ~Failed(ConnectionResult)
  /\ pc \in {"decide", "install"} => result = env
  /\ pc = "install" => ~BlocksInstall(Verdict[1])

(* What a failure is reported as while our driver is installed. *)
LEMMA ReportOfFailure ==
  ASSUME NEW r \in ClusterCheckResult, NEW s, s = CheckClusterStatus(r, "annotated"),
         s[1] # "pass"
  PROVE  /\ UpgradeStatusOf(s[1]) = "False"
         /\ s[2].action = CheckActionDegrade <=> s[1] = "degraded"
         /\ r.action # CheckActionPass
         /\ ~BlocksInstall(s[1]) => r.action # CheckActionDegrade /\ s[1] # "degraded"
<1> USE DEF CheckActionPass, CheckActionBlockUpgrade, CheckActionBlockUpgradeDriverInstall,
            CheckActionBlockUpgradeOrDegrade, CheckActionDegrade
<1>1. r.action \in 0 .. 4
  BY DEF ClusterCheckResult, CheckAction
<1>2. CASE r.action = 0
  BY <1>2 DEF CheckClusterStatus
<1>3. CASE r.action = 1
  BY <1>3 DEF CheckClusterStatus, UpgradeStatusOf, BlocksInstall
<1>4. CASE r.action = 2
  BY <1>4 DEF CheckClusterStatus, UpgradeStatusOf, BlocksInstall
<1>5. CASE r.action = 3
  BY <1>5 DEF CheckClusterStatus, BlockUpgradeOrDegrade, MakeClusterDegradedError, Result,
              UpgradeStatusOf, BlocksInstall
<1>6. CASE r.action = 4
  BY <1>6 DEF CheckClusterStatus, UpgradeStatusOf, BlocksInstall
<1> QED
  BY <1>1, <1>2, <1>3, <1>4, <1>5, <1>6

(* A login fails, and then nothing is installed, or it passes. *)
LEMMA LoginFailsOrPasses ==
  ASSUME login \in LoginOutcome
  PROVE  /\ Failed(ConnectionResult) =>
              /\ Verdict = CheckClusterStatus(ConnectionResult, "annotated")
              /\ BlocksInstall(Verdict[1])
         /\ ~Failed(ConnectionResult) =>
              /\ Verdict = CheckClusterStatus(env, "annotated")
              /\ ConnectionResult = MakeClusterCheckResultPass
<1> USE DEF CheckActionPass, CheckActionBlockUpgrade, CheckActionBlockUpgradeDriverInstall,
            CheckActionBlockUpgradeOrDegrade, CheckActionDegrade
<1>1. /\ Failed(ConnectionResult) => Verdict = CheckClusterStatus(ConnectionResult, "annotated")
      /\ ~Failed(ConnectionResult) => Verdict = CheckClusterStatus(env, "annotated")
  BY Zenon DEF Verdict
<1>2. CASE ConnectionResult = MakeClusterCheckResultPass
  <2>1. ConnectionResult.status = "pass"
    BY <1>2 DEF MakeClusterCheckResultPass, Result
  <2>2. ~Failed(ConnectionResult)
    BY <2>1, Zenon DEF Failed
  <2> QED
    BY <1>1, <1>2, <2>2
<1>3. CASE ConnectionResult # MakeClusterCheckResultPass
  <2>1. \/ ConnectionResult = Result(CheckActionBlockUpgradeOrDegrade, "vsphere_connection_failed")
        \/ ConnectionResult = MakeClusterDegradedError("openshift_api_error")
    BY <1>3 DEF ConnectionResult, LoginOutcome
  <2>2. /\ ConnectionResult.status \in {"vsphere_connection_failed", "openshift_api_error"}
        /\ CheckClusterStatus(ConnectionResult, "annotated")[1] = "degraded"
    BY <2>1 DEF CheckClusterStatus, BlockUpgradeOrDegrade, MakeClusterDegradedError, Result
  <2>3. Failed(ConnectionResult)
    BY <2>2, Zenon DEF Failed
  <2> QED
    BY <1>1, <2>2, <2>3 DEF BlocksInstall
<1> QED
  BY <1>2, <1>3

(* What is written, and by whom. *)
LEMMA WrittenConditions ==
  ASSUME NEW c \in Conditions, NEW r, NEW u, NEW blocks, NEW started
  PROVE  /\ NewConditions(c, r, u, blocks, started).upgradeable = u
         /\ NewConditions(c, r, u, blocks, started).checkDegraded = "True"
              <=> r.action = CheckActionDegrade
<1> DEFINE no == ~started /\ blocks
           new == [c EXCEPT !.checkDegraded = IF r.action = CheckActionDegrade
                                              THEN "True" ELSE "False",
                            !.upgradeable = u, !.disabled = no]
<1> HIDE DEF no
<1>1. /\ new.upgradeable = u
      /\ new.checkDegraded = "True" <=> r.action = CheckActionDegrade
  BY DEF Conditions
<1>2. NewConditions(c, r, u, blocks, started) = new
  BY Zenon DEF NewConditions, no
<1> QED
  BY <1>1, <1>2, Zenon

(* The steps that leave VMwareVSphereControllerUpgradeable alone although   *)
(* they write conditions.                                                  *)
LEMMA OtherUpgradeable ==
  ASSUME conditions \in Conditions, SyncStorageClass \/ reconcile
  PROVE  conditions'.upgradeable = conditions.upgradeable
<1>1. /\ \A v : [conditions EXCEPT !.scDegraded = v].upgradeable = conditions.upgradeable
      /\ \A v : [conditions EXCEPT !.syncDegraded = v].upgradeable = conditions.upgradeable
  BY DEF Conditions
<1>2. \/ conditions' = conditions
      \/ \E v : conditions' = [conditions EXCEPT !.scDegraded = v]
      \/ \E v : conditions' = [conditions EXCEPT !.syncDegraded = v]
  <2>1. CASE SyncStorageClass
    BY <2>1 DEF SyncStorageClass, UpdateStatus, SyncError
  <2>2. CASE reconcile
    BY <2>2, Zenon DEF reconcile, SyncReturns
  <2> QED
    BY <2>1, <2>2
<1>3. ASSUME NEW v
      PROVE  /\ conditions' = [conditions EXCEPT !.scDegraded = v]
                  => conditions'.upgradeable = conditions.upgradeable
             /\ conditions' = [conditions EXCEPT !.syncDegraded = v]
                  => conditions'.upgradeable = conditions.upgradeable
  BY <1>1
<1> QED
  BY <1>2, <1>3

(* A failure, written. *)
LEMMA WrittenFailure ==
  ASSUME NEW c \in Conditions, NEW r \in ClusterCheckResult, NEW blocks, NEW started,
         NEW s, s = CheckClusterStatus(r, "annotated"), s[1] # "pass"
  PROVE  LET new == NewConditions(c, s[2], UpgradeStatusOf(s[1]), blocks, started)
         IN  /\ new.upgradeable = "False"
             /\ new.checkDegraded = "True" <=> s[1] = "degraded"
<1>1. /\ UpgradeStatusOf(s[1]) = "False"
      /\ s[2].action = CheckActionDegrade <=> s[1] = "degraded"
  BY ReportOfFailure
<1> DEFINE u == UpgradeStatusOf(s[1])
           new == NewConditions(c, s[2], u, blocks, started)
<1> HIDE DEF u
<1>2. /\ new.upgradeable = u
      /\ new.checkDegraded = "True" <=> s[2].action = CheckActionDegrade
  BY WrittenConditions
<1> HIDE DEF new
<1>3. /\ new.upgradeable = "False"
      /\ new.checkDegraded = "True" <=> s[1] = "degraded"
  BY <1>1, <1>2, Zenon DEF u
<1> QED
  BY <1>3, Zenon DEF new, u

(* Nothing blocks the installation, but upgrades. *)
LEMMA WrittenBlock ==
  ASSUME NEW c \in Conditions, NEW r
  PROVE  LET new == NewConditions(c, r, "False", FALSE, TRUE)
         IN  /\ new.upgradeable = "False"
             /\ new.checkDegraded = "True" <=> r.action = CheckActionDegrade
  BY DEF NewConditions, Conditions

(* The verdict is about the world. *)
LEMMA VerdictStays ==
  ASSUME UNCHANGED <<login, env>>
  PROVE  ConnectionResult' = ConnectionResult /\ Verdict' = Verdict
<1>1. ConnectionResult' = ConnectionResult
  BY DEF ConnectionResult
<1> QED
  BY <1>1, Zenon DEF Verdict

(* The step that reports a result reports it as it is reported, and goes   *)
(* on only if that does not block the installation.                        *)
LEMMA BlockReports ==
  ASSUME conditions \in Conditions, seenDriver = "annotated", result \in ClusterCheckResult,
         NEW onward \in {"secret", "install"}, blockUpgradeOrDegradeCluster(onward),
         NEW s, s = CheckClusterStatus(result, "annotated")[1],
         conditions.upgradeable = "False"
  PROVE  /\ conditions'.upgradeable = "False"
         /\ \/ conditions' = conditions
            \/ s # "pass" /\ (conditions'.checkDegraded = "True" <=> s = "degraded")
         /\ pc' \in {onward, "done", "error"}
         /\ pc' = onward => s = "pass" \/ ~BlocksInstall(s)
<1> DEFINE status == CheckClusterStatus(result, seenDriver)
           new == NewConditions(conditions, status[2], UpgradeStatusOf(status[1]),
                                BlocksInstall(status[1]), operandControllerStarted)
<1>1. status = CheckClusterStatus(result, "annotated") /\ s = status[1]
  OBVIOUS
<1>2. CASE status[1] = "pass"
  BY <1>1, <1>2 DEF blockUpgradeOrDegradeCluster, Goto
<1>3. CASE status[1] # "pass"
  <2>1. \/ /\ conditions' = conditions \/ conditions' = new
           /\ pc' = IF BlocksInstall(status[1]) THEN "done" ELSE onward
        \/ conditions' = conditions /\ pc' = "error"
    BY <1>3 DEF blockUpgradeOrDegradeCluster, updateConditions, UpdateStatus, SyncError, Goto
  <2> HIDE DEF status
  <2>2. /\ new.upgradeable = "False"
        /\ new.checkDegraded = "True" <=> s = "degraded"
    BY <1>1, <1>3, WrittenFailure
  <2> HIDE DEF new
  <2>3. CASE conditions' = conditions
    BY <1>1, <1>3, <2>1, <2>3
  <2>4. CASE conditions' = new
    BY <1>1, <1>3, <2>1, <2>2, <2>4
  <2> QED
    BY <2>1, <2>3, <2>4
<1> QED
  BY <1>2, <1>3

(* Action by action: the three that report a result report the verdict.    *)
LEMMA ReportedKept ==
  ASSUME TypeInv, ReportedQuiet, [Next]_vars, changes' = changes
  PROVE  ReportedQuiet'
<1> DEFINE Degraded == Verdict[1] = "degraded"
           Labels == Managing \cup {"idle", "done", "error"}
           Written(c) == c.upgradeable = "False" /\ (c.checkDegraded = "True" <=> Degraded)
           Way == /\ pc' \in Labels
                  /\ pc' = "connection" => result' = ConnectionResult
                  /\ pc' \in {"secret", "check", "decide", "install"} => ~Failed(ConnectionResult)
                  /\ pc' \in {"decide", "install"} => result' = env
                  /\ pc' = "install" => ~BlocksInstall(Verdict[1])
<1>1. /\ up /\ managementState = "Managed" /\ seen.managementState = "Managed"
      /\ csiDriver = "annotated" /\ seenDriver = "annotated"
      /\ Verdict[1] # "pass" /\ Written(conditions) /\ pc \in Labels
      /\ pc = "connection" => result = ConnectionResult
      /\ pc \in {"secret", "check", "decide", "install"} => ~Failed(ConnectionResult)
      /\ pc \in {"decide", "install"} => result = env
      /\ pc = "install" => ~BlocksInstall(Verdict[1])
  BY Zenon DEF ReportedQuiet
<1>2. /\ changes \in Nat /\ env \in ClusterCheckResult /\ conditions \in Conditions
      /\ login \in LoginOutcome /\ result \in ClusterCheckResult
  <2>1. /\ changes \in 0 .. MaxChanges /\ env \in Envs /\ conditions \in Conditions
        /\ login \in LoginOutcome /\ result \in ClusterCheckResult
    BY Zenon DEF TypeInv, TypeOK, ConditionsInv
  <2> QED
    BY <2>1, MaxChangesAssumption, EnvsAssumption
<1>3. ~Disturb
  BY <1>2 DEF Disturb
<1>4. /\ {"login", "connection", "secret", "check", "decide", "install", "storageclass",
           "idle", "done", "error"} \subseteq Labels
      /\ pc \notin {"removeOperands", "removeConditions"}
  BY <1>1 DEF Managing
<1>5. /\ Failed(ConnectionResult) =>
           Verdict = CheckClusterStatus(ConnectionResult, "annotated") /\ BlocksInstall(Verdict[1])
      /\ ~Failed(ConnectionResult) => Verdict = CheckClusterStatus(env, "annotated")
  BY <1>2, LoginFailsOrPasses
<1>6. ASSUME UNCHANGED <<managementState, csiDriver, login, env>>,
             up', seen'.managementState = "Managed", seenDriver' = "annotated",
             Written(conditions'), Way
      PROVE  ReportedQuiet'
  <2>1. ConnectionResult' = ConnectionResult /\ Verdict' = Verdict
    BY <1>6, VerdictStays
  <2> QED
    BY <1>1, <1>6, <2>1, Zenon DEF ReportedQuiet
<1> HIDE DEF Labels, Degraded
<1>7. ASSUME UNCHANGED <<managementState, csiDriver, login, env, up, seen, seenDriver, conditions>>,
             Way
      PROVE  ReportedQuiet'
  BY <1>1, <1>6, <1>7, Zenon
<1>8. CASE SyncUnmanaged \/ SyncExit \/ SyncRemoved
  BY <1>1, <1>8 DEF SyncUnmanaged, SyncExit, SyncRemoved, TakeKey
<1>9. CASE SyncManaged
  <2>1. pc' \in {"error", "login"}
    BY <1>9 DEF SyncManaged, Goto
  <2>2. Way
    BY <1>4, <2>1
  <2> QED
    BY <1>7, <1>9, <2>2, Zenon DEF SyncManaged, apiVars, cacheVars, worldVars
<1>10. CASE loginToVCenter
  <2>1. result' = ConnectionResult /\ pc' = "connection"
    BY <1>10, Zenon DEF loginToVCenter, Goto
  <2>2. Way
    BY <1>4, <2>1
  <2> QED
    BY <1>7, <1>10, <2>2, Zenon DEF loginToVCenter, apiVars, cacheVars, worldVars
<1>11. CASE DecideConnection
  <2>1. pc = "connection" /\ result = ConnectionResult
    BY <1>1, <1>11 DEF DecideConnection, At
  <2> DEFINE s == CheckClusterStatus(result, "annotated")[1]
  <2>2. /\ conditions'.upgradeable = "False"
        /\ \/ conditions' = conditions
           \/ s # "pass" /\ (conditions'.checkDegraded = "True" <=> s = "degraded")
        /\ pc' \in {"secret", "done", "error"}
        /\ pc' = "secret" => s = "pass" \/ ~BlocksInstall(s)
    <3>1. blockUpgradeOrDegradeCluster("secret") /\ "secret" \in {"secret", "install"}
      BY <1>11 DEF DecideConnection
    <3> HIDE DEF s
    <3>2. \A x : x = CheckClusterStatus(result, "annotated")[1] =>
            /\ conditions'.upgradeable = "False"
            /\ \/ conditions' = conditions
               \/ x # "pass" /\ (conditions'.checkDegraded = "True" <=> x = "degraded")
            /\ pc' \in {"secret", "done", "error"}
            /\ pc' = "secret" => x = "pass" \/ ~BlocksInstall(x)
      BY <1>1, <1>2, <3>1, BlockReports, Zenon
    <3> QED
      BY <3>2, Zenon DEF s
  <2>3. CASE Failed(ConnectionResult)
    <3>1. s = Verdict[1] /\ BlocksInstall(s) /\ s # "pass"
      BY <1>1, <1>5, <2>1, <2>3
    <3>2. Written(conditions')
      BY <1>1, <2>2, <3>1 DEF Degraded
    <3>3. Way
      BY <1>4, <2>2, <3>1
    <3> QED
      BY <1>1, <1>6, <1>11, <3>2, <3>3, Zenon DEF DecideConnection, cacheVars, worldVars, procVars
  <2>4. CASE ~Failed(ConnectionResult)
    <3>1. s = "pass"
      BY <1>2, <2>1, <2>4, LoginFailsOrPasses, PassLeadsOn
    <3>2. Written(conditions')
      BY <1>1, <2>2, <3>1
    <3>3. Way
      BY <1>4, <2>2, <2>4
    <3> QED
      BY <1>1, <1>6, <1>11, <3>2, <3>3, Zenon DEF DecideConnection, cacheVars, worldVars, procVars
  <2> QED
    BY <2>3, <2>4
<1>12. CASE createCSISecret
  <2>1. pc = "secret" /\ pc' = "check"
    BY <1>3, <1>12 DEF createCSISecret, SyncError, Goto, At
  <2>2. Way
    BY <1>1, <1>4, <2>1
  <2> QED
    BY <1>7, <1>12, <2>2, Zenon DEF createCSISecret, apiVars, cacheVars, worldVars, procVars
<1>13. CASE SkipChecks
  <2>1. pc' \in {"storageclass", "done"}
    BY <1>13 DEF SkipChecks, Goto
  <2>2. Way
    BY <1>4, <2>1
  <2> QED
    BY <1>7, <1>13, <2>2, Zenon DEF SkipChecks, apiVars, cacheVars, worldVars, procVars
<1>14. CASE runClusterCheck
  <2>1. pc = "check" /\ pc' = "decide"
    BY <1>14 DEF runClusterCheck, Goto, At
  <2>2. OverallResult(CheckExistingDriver(seenDriver, IF seenNode THEN "registered" ELSE "none")
                        \o <<env>>)
          = env
    BY <1>1, <1>2, OursIsNoFinding
  <2>3. env.action > CheckActionPass
    <3>1. env.action \in 0 .. 4
      BY <1>2 DEF ClusterCheckResult, CheckAction
    <3>2. env.action # CheckActionPass
      BY <1>1, <1>2, <1>5, <2>1, ReportOfFailure
    <3> QED
      BY <3>1, <3>2 DEF CheckActionPass
  <2>4. result' = env
    BY <1>14, <2>2, <2>3, Zenon DEF runClusterCheck
  <2>5. Way
    BY <1>1, <1>4, <2>1, <2>4
  <2> QED
    BY <1>7, <1>14, <2>5, Zenon DEF runClusterCheck, apiVars, cacheVars, worldVars, procVars
<1>15. CASE DecideCheck
  <2>1. pc = "decide" /\ result = env /\ result' = env
    BY <1>1, <1>15 DEF DecideCheck, At
  <2> DEFINE s == CheckClusterStatus(result, "annotated")[1]
  <2>2. /\ conditions'.upgradeable = "False"
        /\ \/ conditions' = conditions
           \/ s # "pass" /\ (conditions'.checkDegraded = "True" <=> s = "degraded")
        /\ pc' \in {"install", "done", "error"}
        /\ pc' = "install" => s = "pass" \/ ~BlocksInstall(s)
    <3>1. blockUpgradeOrDegradeCluster("install") /\ "install" \in {"secret", "install"}
      BY <1>15 DEF DecideCheck
    <3> HIDE DEF s
    <3>2. \A x : x = CheckClusterStatus(result, "annotated")[1] =>
            /\ conditions'.upgradeable = "False"
            /\ \/ conditions' = conditions
               \/ x # "pass" /\ (conditions'.checkDegraded = "True" <=> x = "degraded")
            /\ pc' \in {"install", "done", "error"}
            /\ pc' = "install" => x = "pass" \/ ~BlocksInstall(x)
      BY <1>1, <1>2, <3>1, BlockReports, Zenon
    <3> QED
      BY <3>2, Zenon DEF s
  <2>3. s = Verdict[1] /\ ~Failed(ConnectionResult)
    BY <1>1, <1>5, <2>1
  <2>4. Written(conditions')
    BY <1>1, <2>2, <2>3 DEF Degraded
  <2>5. Way
    BY <1>1, <1>4, <2>1, <2>2, <2>3
  <2> QED
    BY <1>1, <1>6, <1>15, <2>4, <2>5, Zenon DEF DecideCheck, cacheVars, worldVars, procVars
<1>16. CASE installCSIDriver
  <2>1. pc = "install" /\ result = env
    BY <1>1, <1>16 DEF installCSIDriver, At
  <2>2. env.action # CheckActionPass /\ env.action # CheckActionDegrade /\ ~Degraded
    BY <1>1, <1>2, <1>5, <2>1, ReportOfFailure DEF Degraded
  <2>3. blockUpgrade
    BY <2>1, <2>2 DEF blockUpgrade
  <2>4. pc' = "storageclass" /\ updateConditions(result, "False", FALSE, TRUE)
    BY <1>3, <1>16, <2>3 DEF installCSIDriver, SyncError, Goto
  <2>5. \/ conditions' = conditions
        \/ conditions' = NewConditions(conditions, result, "False", FALSE, TRUE)
    BY <2>4 DEF updateConditions, UpdateStatus
  <2>6. Written(conditions')
    <3> DEFINE new == NewConditions(conditions, result, "False", FALSE, TRUE)
    <3>1. /\ new.upgradeable = "False"
          /\ new.checkDegraded = "True" <=> result.action = CheckActionDegrade
      BY <1>2, WrittenBlock
    <3> HIDE DEF new
    <3>2. Written(new)
      BY <2>1, <2>2, <3>1
    <3> QED
      BY <1>1, <2>5, <3>2, Zenon DEF new
  <2>7. Way
    BY <1>4, <2>4
  <2> QED
    BY <1>1, <1>6, <1>16, <2>6, <2>7, Zenon DEF installCSIDriver, cacheVars, worldVars
<1>17. CASE SyncStorageClass \/ reconcile
  <2>1. Written(conditions')
    BY <1>1, <1>2, <1>17, OtherEffect, OtherUpgradeable, Zenon
  <2>2. pc' \in {"done", "error", "idle"}
    BY <1>17 DEF SyncStorageClass, reconcile, SyncReturns, SyncError, Goto
  <2>3. Way
    BY <1>4, <2>2
  <2> QED
    BY <1>1, <1>6, <1>17, <2>1, <2>3, Zenon
       DEF SyncStorageClass, reconcile, SyncReturns, cacheVars, worldVars, procVars
<1>18. CASE removeOperands \/ removeConditions
  BY <1>4, <1>18 DEF removeOperands, removeConditions, At
<1>19. ASSUME UNCHANGED syncVars PROVE Way
  BY <1>1, <1>19 DEF syncVars
<1>20. CASE ApplyCSIDriver
  BY <1>1, <1>20 DEF ApplyCSIDriver
<1>21. CASE ApplyNodeDaemonSet \/ GateOpens \/ Wake
  BY <1>7, <1>19, <1>21, Zenon
     DEF ApplyNodeDaemonSet, GateOpens, Wake, apiVars, cacheVars, worldVars, procVars
<1>22. CASE ObserveOperator
  BY <1>1, <1>6, <1>19, <1>22 DEF ObserveOperator, apiVars, worldVars, procVars
<1>23. CASE ObserveStorage
  BY <1>1, <1>6, <1>19, <1>23 DEF ObserveStorage, apiVars, worldVars, procVars
<1>24. CASE Restart
  BY <1>1, <1>24 DEF Restart
<1>25. CASE World
  BY <1>3, <1>25 DEF World, Crash, SetManagementState, VCenterChanges, InstallForeignDriver
<1>26. CASE UNCHANGED vars
  BY <1>7, <1>19, <1>26, Zenon DEF vars, apiVars, cacheVars, worldVars, procVars
<1> QED
  BY <1>8, <1>9, <1>10, <1>11, <1>12, <1>13, <1>14, <1>15, <1>16, <1>17, <1>18, <1>20, <1>21,
     <1>22, <1>23, <1>24, <1>25, <1>26 DEF Next, Sync

(* A failure that is reported stays reported, and reported as severe as it *)
(* is, as long as nothing changes and nothing fails: no sync, whether it   *)
(* logs in, skips the checks or runs them, takes it back (the safety half  *)
(* of FailureIsReported).                                                  *)
THEOREM ReportIsKept ==
  Spec => [][ReportedQuiet /\ changes' = changes => ReportedQuiet']_vars
<1>1. TypeInv /\ [Next]_vars
        => [ReportedQuiet /\ changes' = changes => ReportedQuiet']_vars
  BY ReportedKept
<1> QED
  BY InitType, NextType, <1>1, PTL DEF Spec
=============================================================================
