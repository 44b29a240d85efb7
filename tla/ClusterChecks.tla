--------------------------- MODULE ClusterChecks ---------------------------
(***************************************************************************)
(* The vocabulary of pkg/operator/vspherecontroller/checks: check actions, *)
(* check results, how the results of several checkers are merged into one, *)
(* and how a result becomes the status of the cluster.                     *)
(*                                                                         *)
(* A ClusterCheckResult is a record of its Action and its CheckStatus.     *)
(* CheckError is not kept: it is nil exactly in the passing result and in  *)
(* the zero value, which Failed tells apart.  Reason is text for a reader. *)
(***************************************************************************)
EXTENDS Naturals, Sequences

(* CheckAction, ordered by severity. *)
CheckActionPass                      == 0
CheckActionBlockUpgrade              == 1
CheckActionBlockUpgradeDriverInstall == 2
CheckActionBlockUpgradeOrDegrade     == 3
CheckActionDegrade                   == 4

CheckAction == 0 .. 4

CheckStatusType ==
  { "", "pass", "vsphere_connection_failed", "openshift_api_error",
    "existing_driver_found", "check_deprecated_vcenter",
    "check_deprecated_hw_version", "check_deprecated_esxi_version",
    "vcenter_api_error", "generic_error", "block_volume_limit_error",
    "non_vsphere_node" }

ClusterCheckStatus ==
  { "pass", "installation_blocked", "upgrades_blocked", "upgrades_unknown",
    "degraded" }

ClusterCheckResult == [action : CheckAction, status : CheckStatusType]

----------------------------------------------------------------------------
(* The constructors of results. *)

Result(action, status) == [action |-> action, status |-> status]

MakeClusterCheckResultPass == Result(CheckActionPass, "pass")

makeFoundExistingDriverResult ==
  Result(CheckActionBlockUpgradeDriverInstall, "existing_driver_found")

makeDeprecatedEnvironmentError(status) ==
  Result(CheckActionBlockUpgradeOrDegrade, status)

MakeClusterDegradedError(status) == Result(CheckActionDegrade, status)

MakeClusterUnupgradeableError(status) == Result(CheckActionBlockUpgrade, status)

(* result.CheckError # nil *)
Failed(result) == result.status \notin {"", "pass"}

(* What every checker may return: no constructor gives an error the action *)
(* of a pass.                                                              *)
IsCheckerReply(results) ==
  /\ results \in Seq(ClusterCheckResult)
  /\ \A i \in DOMAIN results : Failed(results[i]) => results[i].action > CheckActionPass

----------------------------------------------------------------------------
(* Versions are numbers (6.7.3 is 673); 0 stands for a text that does not  *)
(* parse, for which IsMinimumVersion answers true together with an error.  *)

Unparsable == 0

IsMinimumVersion(minimum, current) == current = Unparsable \/ current >= minimum

(* What GetCSIDriver answers: the vSphere CSIDriver object carries the     *)
(* OpenShift annotation, lacks it, is absent, or the lookup fails.         *)
CSIDriverLookup == {"annotated", "unannotated", "notfound", "error"}

(* CheckActionBlockUpgradeOrDegrade: degrade if our driver is installed, or *)
(* if that cannot be told; else block upgrades.                             *)
BlockUpgradeOrDegrade(result, csiDriver) ==
  IF csiDriver = "error"
  THEN <<"degraded", MakeClusterDegradedError("openshift_api_error")>>
  ELSE IF csiDriver = "annotated"
  THEN <<"degraded", MakeClusterDegradedError(result.status)>>
  ELSE IF result.status = "vsphere_connection_failed"
  THEN <<"upgrades_unknown", result>>
  ELSE <<"upgrades_blocked", result>>

(* What a ClusterCheckResult means for the cluster: the status, and the    *)
(* result it is reported with.                                             *)
CheckClusterStatus(result, csiDriver) ==
  CASE result.action = CheckActionDegrade -> <<"degraded", result>>
    [] result.action = CheckActionBlockUpgradeOrDegrade ->
         BlockUpgradeOrDegrade(result, csiDriver)
    [] result.action = CheckActionBlockUpgrade -> <<"upgrades_blocked", result>>
    [] result.action = CheckActionBlockUpgradeDriverInstall ->
         <<"installation_blocked", result>>
    [] result.action = CheckActionPass -> <<"pass", result>>

(* Mutant: a driver of somebody else does not block the installation. *)
BlocksUnlessForeign(clusterStatus) == clusterStatus \in {"degraded", "upgrades_unknown"}

(* Whether a cluster status ends the sync before the driver is installed. *)
BlocksInstall(clusterStatus) ==
  clusterStatus \in {"degraded", "upgrades_unknown", "installation_blocked"}

(* Mutant: the last failure wins, however severe. *)
OverallLastFailure(allChecks) ==
  LET overall[i \in 0 .. Len(allChecks)] ==
        IF i = 0 THEN Result(CheckActionPass, "")
        ELSE IF Failed(allChecks[i]) THEN allChecks[i] ELSE overall[i - 1]
  IN  overall[Len(allChecks)]

(* The merge in vSphereEnvironmentCheckerComposite.Check: starting from a  *)
(* pass, every result at least as severe as the one so far replaces it.    *)
OverallResult(allChecks) ==
  LET overall[i \in 0 .. Len(allChecks)] ==
        IF i = 0 THEN Result(CheckActionPass, "")
        ELSE IF allChecks[i].action >= overall[i - 1].action
             THEN allChecks[i]
             ELSE overall[i - 1]
  IN  overall[Len(allChecks)]

----------------------------------------------------------------------------
(* CheckExistingDriver.Check; csiNodes is what ListCSINodes shows: the     *)
(* vSphere driver is registered on some node, on none, or the list fails.  *)
CheckExistingDriver(csiDriver, csiNodes) ==
  CASE csiDriver = "annotated"   -> << >>
    [] csiDriver = "unannotated" -> <<makeFoundExistingDriverResult>>
    [] csiDriver = "error"       -> <<MakeClusterDegradedError("openshift_api_error")>>
    [] csiDriver = "notfound"    ->
         CASE csiNodes = "error"      -> <<MakeClusterDegradedError("openshift_api_error")>>
           [] csiNodes = "registered" -> <<makeFoundExistingDriverResult>>
           [] csiNodes = "none"       -> << >>

(* VCenterChecker.Check over the API versions of the connected vCenters, in *)
(* order; the first one that is not good enough decides.                    *)
minRequiredVCenterVersion    == 673
minUpgradeableVCenterVersion == 702

(* Mutant: the error that comes with the answer true is ignored. *)
VCenterVersionAssumed(v) == IsMinimumVersion(minUpgradeableVCenterVersion, v)

VCenterVersionOK(v) == v # Unparsable /\ v >= minUpgradeableVCenterVersion

VCenterChecker(versions) ==
  LET bad == {i \in DOMAIN versions : ~VCenterVersionOK(versions[i])}
      v   == versions[CHOOSE i \in bad : \A j \in bad : i <= j]
  IN  IF bad = {} THEN << >>
      ELSE IF v = Unparsable
           THEN <<makeDeprecatedEnvironmentError("vcenter_api_error")>>
      ELSE IF ~IsMinimumVersion(minRequiredVCenterVersion, v)
           THEN <<makeDeprecatedEnvironmentError("check_deprecated_vcenter")>>
      ELSE <<MakeClusterUnupgradeableError("check_deprecated_vcenter")>>
=============================================================================
