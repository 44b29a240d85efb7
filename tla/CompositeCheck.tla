--------------------------- MODULE CompositeCheck ---------------------------
(***************************************************************************)
(* vSphereEnvironmentCheckerComposite.Check, once it is time to run: the   *)
(* three checkers one after the other, the merge of their results, and     *)
(* what CheckClusterStatus then makes of the merged result.  The listers   *)
(* of CSIDriver and CSINode move on in between, and are read twice.        *)
(***************************************************************************)
EXTENDS ClusterChecks

CONSTANTS
  VersionLists,   \* API versions of the connected vCenters, in order
  NodeResults     \* what NodeChecker may return

ASSUME VersionListsAssumption == VersionLists \subseteq Seq(Nat)
ASSUME NodeResultsAssumption ==
  NodeResults # {} /\ \A results \in NodeResults : IsCheckerReply(results)

VARIABLES
  csiDriver,      \* what GetCSIDriver answers
  csiNodes,       \* what ListCSINodes answers
  versions,       \* the API versions this check finds
  pc,             \* idle, or the next thing to do
  allChecks,
  overallResult,
  clusterStatus,  \* the verdict, "" before the first
  decidedOn       \* what GetCSIDriver answered to CheckClusterStatus

vars == <<csiDriver, csiNodes, versions, pc, allChecks, overallResult, clusterStatus, decidedOn>>

Init ==
  /\ csiDriver \in CSIDriverLookup /\ csiNodes \in {"none", "registered", "error"}
  /\ versions \in VersionLists
  /\ pc = "idle" /\ allChecks = << >> /\ overallResult = Result(CheckActionPass, "")
  /\ clusterStatus = "" /\ decidedOn = "notfound"

(* Mutant: allChecks is not local to a check. *)
CheckKeepsResults ==
  /\ pc = "idle" /\ pc' = "existing"
  /\ versions' \in VersionLists
  /\ clusterStatus' = ""
  /\ UNCHANGED <<csiDriver, csiNodes, allChecks, overallResult, decidedOn>>

Check ==
  /\ pc = "idle" /\ pc' = "existing"
  /\ versions' \in VersionLists
  /\ allChecks' = << >> /\ clusterStatus' = ""
  /\ UNCHANGED <<csiDriver, csiNodes, overallResult, decidedOn>>

(* One turn of the loop over the checkers. *)
RunChecker(checker, next, results) ==
  /\ pc = checker /\ pc' = next
  /\ allChecks' = allChecks \o results
  /\ UNCHANGED <<csiDriver, csiNodes, versions, overallResult, clusterStatus, decidedOn>>

RunCheckers ==
  \/ RunChecker("existing", "vcenter", CheckExistingDriver(csiDriver, csiNodes))
  \/ RunChecker("vcenter", "node", VCenterChecker(versions))
  \/ \E results \in NodeResults : RunChecker("node", "merge", results)

Merge ==
  LET overall == OverallResult(allChecks)
  IN  /\ pc = "merge" /\ pc' = "decide"
      /\ overallResult' = IF overall.action > CheckActionPass
                          THEN overall ELSE MakeClusterCheckResultPass
      /\ UNCHANGED <<csiDriver, csiNodes, versions, allChecks, clusterStatus, decidedOn>>

Decide ==
  /\ pc = "decide" /\ pc' = "idle"
  /\ clusterStatus' = CheckClusterStatus(overallResult, csiDriver)[1]
  /\ decidedOn' = csiDriver
  /\ UNCHANGED <<csiDriver, csiNodes, versions, allChecks, overallResult>>

(* The listers move on, while a check is under way or between two. *)
ListersMove ==
  /\ \/ csiDriver' \in CSIDriverLookup \ {csiDriver} /\ UNCHANGED csiNodes
     \/ csiNodes' \in {"none", "registered", "error"} \ {csiNodes} /\ UNCHANGED csiDriver
  /\ UNCHANGED <<versions, pc, allChecks, overallResult, clusterStatus, decidedOn>>

Next == Check \/ RunCheckers \/ Merge \/ Decide \/ ListersMove

Spec == Init /\ [][Next]_vars

----------------------------------------------------------------------------
(* Properties.                                                             *)

Verdicts == {allChecks[i] : i \in 1 .. Len(allChecks)}

Alone(r) == CheckClusterStatus(r, decidedOn)[1]

Decided == pc = "idle" /\ clusterStatus # ""

(* Every variable has its type; the first two checkers give at most one    *)
(* result each.                                                            *)
TypeOK ==
  /\ csiDriver \in CSIDriverLookup /\ decidedOn \in CSIDriverLookup
  /\ csiNodes \in {"none", "registered", "error"} /\ versions \in VersionLists
  /\ pc \in {"idle", "existing", "vcenter", "node", "merge", "decide"}
  /\ \E n \in NodeResults : Len(allChecks) <= 2 + Len(n)
  /\ Verdicts \subseteq ClusterCheckResult /\ overallResult \in ClusterCheckResult
  /\ clusterStatus \in ClusterCheckStatus \cup {""}

(* The merge hides neither a reason to degrade nor one to block upgrades:  *)
(* what any result alone would do to the cluster in these respects, the    *)
(* verdict does, although a lister may have changed between the checks and *)
(* the verdict.                                                            *)
VerdictIsNoWeaker ==
  Decided => \A r \in Verdicts :
    /\ Alone(r) = "degraded" => clusterStatus = "degraded"
    /\ Alone(r) # "pass"     => clusterStatus # "pass"

(* A pass means that every connected vCenter runs a supported version,     *)
(* whatever their order, and that no checker had anything to say.          *)
PassMeansSupported ==
  Decided /\ clusterStatus = "pass" =>
    /\ \A i \in 1 .. Len(versions) : versions[i] >= 702
    /\ \A r \in Verdicts : ~Failed(r)

(* "Ordered by severity", "Block both upgrade and driver install": a       *)
(* result that by itself blocks the installation is not overruled by one   *)
(* that lets it go on.                                                     *)
InstallBlockIsKept ==
  Decided /\ (\E r \in Verdicts : Alone(r) = "installation_blocked")
  => clusterStatus \in {"installation_blocked", "degraded"}
=============================================================================
