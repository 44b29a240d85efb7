----------------------- MODULE StorageClassController -----------------------
(***************************************************************************)
(* StorageClassController.Sync: create the storage policy on every vCenter *)
(* the cluster uses, then apply the StorageClass that names it, then       *)
(* report.  Creating a policy is not repeated on every sync: a policy name *)
(* is cached per vCenter, and nextCheck, one time for all the vCenters,    *)
(* says when to look again.                                                *)
(*                                                                         *)
(* The name of the policy is the same on every vCenter and never empty;    *)
(* the empty string is "none".  Without any connection the loop does       *)
(* nothing and the StorageClass is applied with the empty name.            *)
(*                                                                         *)
(* Time is abstract, as in VSphereController: the gate is open when now is *)
(* after nextCheck.                                                        *)
(***************************************************************************)
EXTENDS Naturals, Sequences

CONSTANTS
  VCenters,    \* the connections, in order: a sequence of host names
  MaxChanges   \* bound on changes of the world, restarts and removals

ASSUME VCentersAssumption ==
  /\ VCenters \in Seq(STRING)
  /\ \A i, j \in 1 .. Len(VCenters) : VCenters[i] = VCenters[j] => i = j
ASSUME MaxChangesAssumption == MaxChanges \in Nat

VC == {VCenters[i] : i \in 1 .. Len(VCenters)}

VARIABLES
  \* the cluster and vCenter
  storageClassState,     \* ClusterCSIDriver.spec.storageClassState
  storageClass,          \* absent, or the policy it names
  degraded,              \* the controller's Degraded condition
  apiUp,                 \* the API server takes writes
  healthy,               \* vCenters on which createStoragePolicy would succeed
  changes,               \* changes so far, bounded by MaxChanges
  \* the controller, in memory
  vCenterStoragePolicy,  \* the policy cached for each vCenter
  sharedPolicyName,
  gate,                  \* now.After(nextCheck): open or closed
  \* a running Sync
  pc,                    \* idle, policy, create, class, report
  scState,               \* the state Sync evaluated when it began
  current,               \* index of the vCenter it is on
  failure,               \* Sync failed: it is going to report Degraded
  \* history
  created                \* vCenters that got the policy at some time

clusterVars == <<storageClassState, storageClass, degraded, apiUp, healthy>>
memoryVars  == <<vCenterStoragePolicy, sharedPolicyName, gate>>
syncVars    == <<pc, scState, current, failure>>
vars == <<clusterVars, changes, memoryVars, syncVars, created>>

States == {"Managed", "Unmanaged", "Removed"}

none == ""
policyName == "openshift-storage-policy"

NewController ==
  /\ vCenterStoragePolicy = [v \in VC |-> none] /\ sharedPolicyName = none
  /\ gate = "open"
  /\ pc = "idle" /\ scState = "Managed" /\ current = 1 /\ failure = FALSE

Init ==
  /\ storageClassState \in States /\ storageClass = "absent" /\ degraded = "absent"
  /\ apiUp = TRUE /\ healthy \in SUBSET VC /\ changes = 0
  /\ NewController
  /\ created = {}

----------------------------------------------------------------------------
vCenter == VCenters[current]

(* A change, out of the budget. *)
Disturb == changes < MaxChanges /\ changes' = changes + 1

(* Sync evaluates the StorageClass state once for all that follows; with   *)
(* no connection it goes straight to the StorageClass.                     *)
SyncBegin ==
  /\ pc = "idle"
  /\ scState' = storageClassState /\ current' = 1 /\ failure' = FALSE
  /\ pc' = IF VCenters = << >> THEN "class" ELSE "policy"
  /\ UNCHANGED <<clusterVars, changes, memoryVars, created>>

(* Mutant: the loop runs one vCenter too far. *)
SyncedTooFar(policy) ==
  /\ vCenterStoragePolicy' = [vCenterStoragePolicy EXCEPT ![vCenter] = policy]
  /\ sharedPolicyName' = policy
  /\ current' = current + 1
  /\ pc' = IF current <= Len(VCenters) THEN "policy" ELSE "class"

(* The loop body after syncStoragePolicy succeeded with a policy. *)
Synced(policy) ==
  /\ vCenterStoragePolicy' = [vCenterStoragePolicy EXCEPT ![vCenter] = policy]
  /\ sharedPolicyName' = policy
  /\ IF current < Len(VCenters)
     THEN current' = current + 1 /\ pc' = "policy"
     ELSE pc' = "class" /\ UNCHANGED current

(* Mutant: nextCheck is not looked at. *)
FromCacheForEver == vCenterStoragePolicy[vCenter] # none

(* Mutant: an empty policy name is taken from the cache. *)
FromEmptyCache == gate = "closed"

(* syncStoragePolicy: nothing to do for a StorageClass that is not         *)
(* managed; the cached policy until it is time to look again; else create. *)
FromCache == gate = "closed" /\ vCenterStoragePolicy[vCenter] # none

SkipUnmanaged ==
  /\ pc = "policy" /\ scState # "Managed"
  /\ Synced(none)
  /\ UNCHANGED <<clusterVars, changes, gate, scState, failure, created>>

SkipCached ==
  /\ pc = "policy" /\ scState = "Managed" /\ FromCache
  /\ Synced(vCenterStoragePolicy[vCenter])
  /\ UNCHANGED <<clusterVars, changes, gate, scState, failure, created>>

CreateBegins ==
  /\ pc = "policy" /\ scState = "Managed" /\ ~FromCache
  /\ pc' = "create"
  /\ UNCHANGED <<clusterVars, changes, memoryVars, scState, current, failure, created>>

(* createStoragePolicy has returned; nextCheck moves either way.  A        *)
(* failure ends the loop and leaves the cache alone.                       *)
CreateEnds ==
  /\ pc = "create"
  /\ gate' = "closed"
  /\ \/ /\ vCenter \in healthy
        /\ Synced(policyName)
        /\ created' = created \cup {vCenter}
        /\ UNCHANGED failure
     \/ /\ vCenter \notin healthy
        /\ failure' = TRUE /\ pc' = "report"
        /\ UNCHANGED <<vCenterStoragePolicy, sharedPolicyName, current, created>>
  /\ UNCHANGED <<clusterVars, changes, scState>>

(* syncStorageClass: apply, leave or delete it, as the state says. *)
syncStorageClass ==
  /\ pc = "class"
  /\ IF apiUp
     THEN /\ storageClass' = CASE scState = "Managed"   -> sharedPolicyName
                               [] scState = "Unmanaged" -> storageClass
                               [] scState = "Removed"   -> "absent"
          /\ UNCHANGED failure
     ELSE failure' = (scState # "Unmanaged") /\ UNCHANGED storageClass
  /\ pc' = "report"
  /\ UNCHANGED <<storageClassState, degraded, apiUp, healthy, changes, memoryVars, scState,
                 current, created>>

(* Mutant: success is not reported. *)
updateConditionsOnFailure ==
  /\ pc = "report"
  /\ degraded' = IF apiUp /\ failure THEN "True" ELSE degraded
  /\ pc' = "idle"
  /\ UNCHANGED <<storageClassState, storageClass, apiUp, healthy, changes, memoryVars, scState,
                 current, failure, created>>

(* updateConditions; if it fails the error goes back to the caller. *)
updateConditions ==
  /\ pc = "report"
  /\ degraded' = IF apiUp THEN (IF failure THEN "True" ELSE "False") ELSE degraded
  /\ pc' = "idle"
  /\ UNCHANGED <<storageClassState, storageClass, apiUp, healthy, changes, memoryVars, scState,
                 current, failure, created>>

(* SyncRemove: the operator is being removed. *)
SyncRemove ==
  /\ Disturb /\ pc = "idle" /\ apiUp
  /\ storageClass # "absent" /\ storageClass' = "absent"
  /\ UNCHANGED <<storageClassState, degraded, apiUp, healthy, memoryVars, syncVars, created>>

Sync ==
  \/ SyncBegin \/ SkipUnmanaged \/ SkipCached \/ CreateBegins \/ CreateEnds
  \/ syncStorageClass \/ updateConditions

----------------------------------------------------------------------------
(* Time passes nextCheck. *)
GateOpens ==
  /\ gate = "closed" /\ gate' = "open"
  /\ UNCHANGED <<clusterVars, changes, vCenterStoragePolicy, sharedPolicyName, syncVars, created>>

(* The process restarts: a new controller. *)
Restart ==
  /\ Disturb
  /\ vCenterStoragePolicy' = [v \in VC |-> none] /\ sharedPolicyName' = none
  /\ gate' = "open"
  /\ pc' = "idle" /\ scState' = "Managed" /\ current' = 1 /\ failure' = FALSE
  /\ UNCHANGED <<clusterVars, created>>

World ==
  /\ Disturb
  /\ \/ storageClassState' \in States \ {storageClassState} /\ UNCHANGED <<apiUp, healthy>>
     \/ apiUp' = ~apiUp /\ UNCHANGED <<storageClassState, healthy>>
     \/ healthy' \in (SUBSET VC) \ {healthy} /\ UNCHANGED <<storageClassState, apiUp>>
  /\ UNCHANGED <<storageClass, degraded, memoryVars, syncVars, created>>

Next == Sync \/ SyncRemove \/ GateOpens \/ Restart \/ World

(* The operator's resync keeps calling Sync, and time goes on. *)
Fairness == WF_vars(Sync) /\ WF_vars(GateOpens)

Spec == Init /\ [][Next]_vars /\ Fairness

----------------------------------------------------------------------------
(* Properties.                                                             *)

(* Every variable has its type, and the loop is at one of the vCenters. *)
TypeOK ==
  /\ storageClassState \in States /\ storageClass \in {"absent", none, policyName}
  /\ degraded \in {"absent", "True", "False"}
  /\ apiUp \in BOOLEAN /\ healthy \subseteq VC /\ changes \in 0 .. MaxChanges
  /\ vCenterStoragePolicy \in [VC -> {none, policyName}]
  /\ sharedPolicyName \in {none, policyName}
  /\ gate \in {"open", "closed"}
  /\ pc \in {"idle", "policy", "create", "class", "report"}
  /\ scState \in States /\ failure \in BOOLEAN
  /\ current \in DOMAIN VCenters \cup {1}
  /\ pc \in {"policy", "create"} => current \in DOMAIN VCenters
  /\ created \subseteq VC

(* What the StorageClass is to name: the policy, if there is a vCenter. *)
nameToApply == IF VCenters = << >> THEN none ELSE policyName

(* An applied StorageClass names a policy, and one that every vCenter of   *)
(* the cluster was given: not the empty name left in the cache and in      *)
(* sharedPolicyName by a spell in which the StorageClass was not managed,  *)
(* and not a policy the second vCenter never got.  It has an empty name    *)
(* only if there is no vCenter to give a policy.                           *)
StorageClassHasPolicy ==
  storageClass # "absent" => storageClass = nameToApply /\ created = VC

(* The StorageClass arrives, and the condition with it, if it stays        *)
(* managed, every vCenter works and the API server takes writes, whatever  *)
(* failures, restarts and removals came before.                            *)
StorageClassArrives ==
  <>[](storageClassState = "Managed" /\ apiUp /\ healthy = VC)
  => <>[](storageClass = nameToApply /\ degraded = "False")

(* "if we are running the checks after creating the policy successfully     *)
(* then lets run checks less frequently" is not never: a failure to provide  *)
(* the policy keeps being reported, if the vCenter never provided it, or if  *)
(* no vCenter does any more.  One of several that provided it once, and now  *)
(* fails, may never be looked at again: the vCenters share one nextCheck,    *)
(* and another that is looked at first moves it.                             *)
FailureKeepsComingBack ==
  /\ \A v \in VC :
       <>[](storageClassState = "Managed" /\ apiUp /\ v \notin healthy \cup created)
       => []<>(degraded = "True")
  /\ VCenters # << >> /\ <>[](storageClassState = "Managed" /\ apiUp /\ healthy = {})
     => []<>(degraded = "True")
=============================================================================
