---------------------------- MODULE DriverConfig ----------------------------
(***************************************************************************)
(* From the cluster's description of vSphere to the configuration the      *)
(* driver runs with.  Four loops write it, each on its own schedule and    *)
(* from informer caches that lag by themselves:                            *)
(*   - sync of VSphereController writes the Secret with cloud.conf, from a *)
(*     converted copy of the Infrastructure, and the metrics;              *)
(*   - DriverFeaturesController writes the ConfigMap with feature states,  *)
(*     from the Infrastructure as it is;                                   *)
(*   - the controllers of the Deployment and of the DaemonSet, which sync  *)
(*     starts, pass on topology and roll out when the Secret changes.      *)
(* Removal deletes what all four have written.                             *)
(*                                                                         *)
(* An object that may be absent is the set of its values: empty, or of one.*)
(* VSphereController has the conditions, the checks and the back-off.      *)
(***************************************************************************)
EXTENDS PlatformSpec

CONSTANTS
  Clusters,               \* how a cluster may be described: each a record of the
                          \* Infrastructure's platform spec, the cloud config and
                          \* the driver options of ClusterCSIDriver
  ConfigurableMaxVolumes, \* the feature gate for MaxAllowedBlockVolumesPerNode
  MaxChanges,             \* bound on the changes that administrators make
  MaxFailures             \* bound on failed calls and crashes

PlatformSpecs == [vCenters : SUBSET STRING, failureDomains : Seq(FailureDomains)]

IsConfig(c) ==
  /\ c.legacy \in BOOLEAN /\ c.workspace \in FailureDomains
  /\ c.virtualCenter \in [DOMAIN c.virtualCenter -> STRING]
  /\ Names(c) \subseteq STRING /\ IsFiniteSet(Names(c))

DriverSpecs ==
  [vSphere : BOOLEAN, categories : Seq(STRING), maxVolumes : Nat,
   snapshots : [SnapshotOption -> Nat \cup {NoLimit}]]

Infras  == {c.infra : c \in Clusters}
Configs == {c.config : c \in Clusters}
Drivers == {c.driver : c \in Clusters}

ASSUME ClustersAssumption ==
  \A c \in Clusters :
    /\ c.infra \in PlatformSpecs /\ IsFiniteSet(c.infra.vCenters)
    /\ IsConfig(c.config) /\ c.driver \in DriverSpecs
ASSUME GateAssumption == ConfigurableMaxVolumes \in BOOLEAN
ASSUME BoundsAssumption == MaxChanges \in Nat /\ MaxFailures \in Nat

ManagementState == {"Managed", "Unmanaged", "Removed"}

VARIABLES
  \* the API server
  cluster,     \* the objects that are read through informers
  features,    \* ConfigMap internal-feature-states.csi.vsphere.vmware.com
  deployment,  \* the driver's controller
  daemonSet,   \* the driver's node plugin
  changes,     \* how often administrators have changed an object
  failures,    \* how often a call has failed or the process has crashed
  \* the process
  up,
  seen,        \* the informers' copies of cluster
  pending,     \* the fields whose last change the informers have not seen
  metrics,     \* vsphere_topology_tags and vsphere_infrastructure_failure_domains
  currentManagmentState,
  operandControllerStarted,
  pc,          \* where sync of VSphereController is
  job,         \* what it holds: the config, its copy of the Infrastructure's
               \* platform spec and the ClusterCSIDriver; none while idle
  desired      \* the ConfigMap DriverFeaturesController is about to apply

apiVars  == <<cluster, features, deployment, daemonSet>>
procVars == <<up, metrics, currentManagmentState, operandControllerStarted>>
budget == <<changes, failures>>
vars == <<apiVars, budget, procVars, seen, pending, pc, job, desired>>

Init ==
  /\ \E c \in Clusters :
       cluster = [managementState |-> "Managed", infra |-> c.infra, config |-> c.config,
                  driver |-> c.driver, secret |-> {}]
  /\ features = {} /\ deployment = {} /\ daemonSet = {} /\ changes = 0 /\ failures = 0
  /\ up = TRUE /\ seen = cluster /\ pending = {} /\ metrics = {}
  /\ currentManagmentState = "" /\ operandControllerStarted = FALSE
  /\ pc = "idle" /\ job = {} /\ desired = {}

----------------------------------------------------------------------------
(* A failure out of the budget. *)
Failure == failures < MaxFailures /\ failures' = failures + 1

At(label) == up /\ pc = label
Goto(label) == pc' = label /\ UNCHANGED job
SyncReturns == pc' = "idle" /\ job' = {}

(* The informers hear of a write, unless it changes nothing. *)
Write(field, value) ==
  /\ cluster' = [cluster EXCEPT ![field] = value]
  /\ pending' = IF value = cluster[field] THEN pending ELSE pending \cup {field}

(* The process ends; what it holds in memory is gone. *)
ProcessEnds ==
  /\ up' = FALSE /\ metrics' = {}
  /\ currentManagmentState' = "" /\ operandControllerStarted' = FALSE
  /\ pc' = "idle" /\ job' = {} /\ desired' = {}

----------------------------------------------------------------------------
(* VSphereController.sync.  Unmanaged, it does nothing.                    *)

(* What sync of VSphereController is about to work on. *)
LoadedFrom(objects) ==
  [config   |-> objects.config,
   platform |-> ConvertToPlatformSpec(objects.config, objects.infra),
   driver   |-> objects.driver]

(* Mutant: the Infrastructure of the informer is converted in place. *)
SyncConvertsInPlace ==
  /\ At("idle") /\ seen.managementState = "Managed"
  /\ currentManagmentState' = "Managed"
  /\ metrics' = {UpdateMetrics(seen.infra, seen.driver)}
  /\ operandControllerStarted' \in {operandControllerStarted, TRUE}
  /\ job' = {LoadedFrom(seen)} /\ pc' = "login"
  /\ seen' = [seen EXCEPT !.infra = ConvertToPlatformSpec(seen.config, seen.infra)]
  /\ UNCHANGED <<apiVars, budget, up, pending, desired>>

(* Managed: the metrics are set, a driver installed earlier is started     *)
(* (VSphereController says when), the config is loaded, and a copy of the  *)
(* Infrastructure is brought up to date with it.                           *)
SyncManaged ==
  /\ At("idle") /\ seen.managementState = "Managed"
  /\ currentManagmentState' = "Managed"
  /\ metrics' = {UpdateMetrics(seen.infra, seen.driver)}
  /\ operandControllerStarted' \in {operandControllerStarted, TRUE}
  /\ \/ job' = {LoadedFrom(seen)} /\ pc' = "login" /\ UNCHANGED failures
     \/ Failure /\ SyncReturns
  /\ UNCHANGED <<apiVars, changes, up, seen, pending, desired>>

(* A vCenter that the config does not know, or that cannot be reached,     *)
(* ends the sync.                                                          *)
loginToVCenter ==
  /\ At("login")
  /\ \E j \in job :
       \/ CanConnect(j.config, j.platform) /\ Goto("secret") /\ UNCHANGED failures
       \/ ~CanConnect(j.config, j.platform) /\ SyncReturns /\ UNCHANGED failures
       \/ Failure /\ SyncReturns
  /\ UNCHANGED <<apiVars, changes, procVars, seen, pending, desired>>

(* Mutant: only zones call for it. *)
NeedsDatastoreIfZonal(spec) ==
  Cardinality(spec.vCenters) = 1 /\ Len(spec.failureDomains) > 1

(* The datastore for migrated volumes: with one vCenter it must be found   *)
(* through each of the connections, otherwise there is none.               *)
NeedsDatastore(spec) == Cardinality(spec.vCenters) = 1

FindsDatastore(config, spec) ==
  \A hostname \in Hostnames(config, spec) :
    /\ HasDefaultDatastore(config, spec, hostname)
    /\ GetDefaultDatastore(config, spec, hostname) # Unset

datastoreURL(config, spec) ==
  IF NeedsDatastore(spec)
  THEN GetDefaultDatastore(config, spec, CHOOSE h \in Hostnames(config, spec) : TRUE)
  ELSE Unset

(* The Secret: a section for every vCenter of the config (a datastore only *)
(* if the config has one), topology and snapshot limits.                   *)
applyClusterCSIDriverChange(j) ==
  [vCenters   |-> Servers(j.config),
   datastore  |-> IF Cardinality(Names(j.config)) < 2
                  THEN datastoreURL(j.config, j.platform) ELSE Unset,
   categories |-> GetTopologyCategories(j.driver, j.platform),
   snapshots  |-> GetSnapshotOptions(j.driver)]

(* Mutant: a datastore that cannot be found is no error. *)
createCSISecretRegardless ==
  /\ At("secret")
  /\ \E j \in job :
       Write("secret",
         {IF NeedsDatastore(j.platform) /\ ~FindsDatastore(j.config, j.platform)
          THEN [applyClusterCSIDriverChange(j) EXCEPT !.datastore = Unset]
          ELSE applyClusterCSIDriverChange(j)})
  /\ Goto("check")
  /\ UNCHANGED <<features, deployment, daemonSet, budget, procVars, seen, desired>>

createCSISecret ==
  /\ At("secret")
  /\ \E j \in job :
       \/ /\ NeedsDatastore(j.platform) => FindsDatastore(j.config, j.platform)
          /\ Write("secret", {applyClusterCSIDriverChange(j)})
          /\ Goto("check") /\ UNCHANGED failures
       \/ /\ NeedsDatastore(j.platform) /\ ~FindsDatastore(j.config, j.platform)
          /\ SyncReturns /\ UNCHANGED <<cluster, pending, failures>>
       \/ Failure /\ SyncReturns /\ UNCHANGED <<cluster, pending>>
  /\ UNCHANGED <<features, deployment, daemonSet, changes, procVars, seen, desired>>

(* The checks pass, and the operand controllers are started; or something  *)
(* blocks them.                                                            *)
installCSIDriver ==
  /\ At("check")
  /\ \/ operandControllerStarted' = TRUE /\ Goto("storageclass") /\ UNCHANGED failures
     \/ Failure /\ SyncReturns /\ UNCHANGED operandControllerStarted
  /\ UNCHANGED <<apiVars, changes, up, metrics, currentManagmentState, seen, pending, desired>>

(* The checks are skipped until the back-off is over. *)
SkipChecks ==
  /\ At("check")
  /\ IF operandControllerStarted THEN Goto("storageclass") ELSE SyncReturns
  /\ UNCHANGED <<apiVars, budget, procVars, seen, pending, desired>>

(* storageClassController.Sync, which may get as far as createStoragePolicy. *)
SyncStorageClass ==
  /\ At("storageclass")
  /\ \/ SyncReturns /\ UNCHANGED <<procVars, desired>>
     \/ (\E j \in job : NilDereference(j.config, j.platform)) /\ ProcessEnds
  /\ UNCHANGED <<apiVars, budget, seen, pending>>

(* Removed, in a process that has managed the driver: os.Exit(0). *)
SyncExit ==
  /\ At("idle") /\ seen.managementState = "Removed" /\ currentManagmentState = "Managed"
  /\ ProcessEnds
  /\ UNCHANGED <<apiVars, budget, seen, pending>>

(* Removed: each asset is deleted, or fails to be. *)
removeOperands ==
  /\ At("idle") /\ seen.managementState = "Removed" /\ currentManagmentState # "Managed"
  /\ \/ /\ Write("secret", {})
        /\ features' = {} /\ deployment' = {} /\ daemonSet' = {}
        /\ UNCHANGED failures
     \/ /\ Failure
        /\ \E secret \in {{}, cluster.secret} : Write("secret", secret)
        /\ features' \in {{}, features} /\ deployment' \in {{}, deployment}
        /\ daemonSet' \in {{}, daemonSet}
  /\ UNCHANGED <<changes, procVars, seen, pc, job, desired>>

Sync ==
  \/ SyncManaged \/ loginToVCenter \/ createCSISecret \/ installCSIDriver \/ SkipChecks
  \/ SyncStorageClass \/ SyncExit \/ removeOperands

----------------------------------------------------------------------------
(* DriverFeaturesController.Sync, which runs from the start of the process.*)

FeaturesFor(infra, driverSpec) ==
  [topology  |-> GetTopologyCategories(driverSpec, infra) # << >>,
   migration |-> isCSIMigrationSupported(infra)]

(* Mutant: the feature states outlive the operands. *)
ReadFeaturesAlways ==
  /\ up /\ desired = {}
  /\ desired' = {FeaturesFor(seen.infra, seen.driver)}
  /\ UNCHANGED <<apiVars, budget, procVars, seen, pending, pc, job>>

ReadFeatures ==
  /\ up /\ desired = {}
  /\ seen.managementState = "Managed"
  /\ desired' = {FeaturesFor(seen.infra, seen.driver)}
  /\ UNCHANGED <<apiVars, budget, procVars, seen, pending, pc, job>>

(* By now the management state may be another. *)
ApplyFeatures ==
  /\ up /\ desired # {}
  /\ \/ features' = desired /\ UNCHANGED failures
     \/ Failure /\ UNCHANGED features
  /\ desired' = {}
  /\ UNCHANGED <<cluster, deployment, daemonSet, changes, procVars, seen, pending, pc, job>>

----------------------------------------------------------------------------
(* The operand controllers: what their hooks put in while Managed; they     *)
(* delete the object when Removed.                                          *)

Operand(value) ==
  CASE seen.managementState = "Managed" -> {value}
    [] seen.managementState = "Removed" -> {}

OperandRuns ==
  up /\ operandControllerStarted /\ seen.managementState \in {"Managed", "Removed"}

topologyHook == GetTopologyCategories(seen.driver, seen.infra) # << >>

ApplyDeployment ==
  /\ OperandRuns
  /\ deployment' = Operand([topology |-> topologyHook, secret |-> seen.secret])
  /\ UNCHANGED <<cluster, features, daemonSet, budget, procVars, seen, pending, pc, job,
                 desired>>

WithMaxVolumesPerNodeDaemonSetHook ==
  IF ConfigurableMaxVolumes THEN GetMaxVolumesPerNode(seen.driver) ELSE MaxVolumesPerNodeVSphere7

(* The hash of the Secret in the pod template, which tells its contents     *)
(* apart; none if there is no Secret.                                       *)
WithSecretDaemonSetAnnotationHook == seen.secret

(* Mutant: the DaemonSet does not depend on the Secret. *)
ApplyDaemonSetWithoutHash ==
  /\ OperandRuns
  /\ daemonSet' = Operand([maxVolumes |-> WithMaxVolumesPerNodeDaemonSetHook,
                           secret |-> IF daemonSet = {} THEN seen.secret
                                      ELSE UNION {d.secret : d \in daemonSet}])
  /\ UNCHANGED <<cluster, features, deployment, budget, procVars, seen, pending, pc, job,
                 desired>>

ApplyDaemonSet ==
  /\ OperandRuns
  /\ daemonSet' = Operand([maxVolumes |-> WithMaxVolumesPerNodeDaemonSetHook,
                           secret |-> WithSecretDaemonSetAnnotationHook])
  /\ UNCHANGED <<cluster, features, deployment, budget, procVars, seen, pending, pc, job,
                 desired>>

----------------------------------------------------------------------------
(* Informers, the kubelet, administrators, who change one object at a time. *)

Observe(field) ==
  /\ up /\ field \in pending
  /\ seen' = [seen EXCEPT ![field] = cluster[field]]
  /\ pending' = pending \ {field}
  /\ UNCHANGED <<apiVars, budget, procVars, pc, job, desired>>

(* A new process waits for its informers. *)
Restart ==
  /\ ~up /\ up' = TRUE
  /\ seen' = cluster /\ pending' = {}
  /\ UNCHANGED <<apiVars, budget, metrics, currentManagmentState, operandControllerStarted,
                 pc, job, desired>>

Crash ==
  /\ up /\ Failure /\ ProcessEnds
  /\ UNCHANGED <<apiVars, changes, seen, pending>>

AdminChanges ==
  /\ changes < MaxChanges /\ changes' = changes + 1
  /\ \/ \E s \in ManagementState \ {cluster.managementState} : Write("managementState", s)
     \/ \E i \in Infras \ {cluster.infra} : Write("infra", i)
     \/ \E c \in Configs \ {cluster.config} : Write("config", c)
     \/ \E d \in Drivers \ {cluster.driver} : Write("driver", d)
  /\ UNCHANGED <<features, deployment, daemonSet, failures, procVars, seen, pc, job, desired>>

Fields == {"managementState", "infra", "config", "driver", "secret"}

Next ==
  \/ Sync \/ ReadFeatures \/ ApplyFeatures \/ ApplyDeployment \/ ApplyDaemonSet
  \/ \E field \in Fields : Observe(field)
  \/ Restart \/ Crash \/ AdminChanges

(* Each controller is resynced periodically and informers catch up.  Checks *)
(* that are due again and again are not skipped for ever: the back-off      *)
(* ends, and a timer brings sync back by then.                              *)
Fairness ==
  /\ WF_vars(Sync) /\ SF_vars(installCSIDriver)
  /\ WF_vars(ReadFeatures \/ ApplyFeatures)
  /\ WF_vars(ApplyDeployment) /\ WF_vars(ApplyDaemonSet)
  /\ \A field \in Fields : WF_vars(Observe(field))
  /\ WF_vars(Restart)

Spec == Init /\ [][Next]_vars /\ Fairness

----------------------------------------------------------------------------
(* Properties.                                                             *)

(* The categories are those of a ClusterCSIDriver or of the Infrastructure. *)
Secrets ==
  [vCenters : SUBSET STRING, datastore : STRING \cup {Unset},
   categories : Seq(STRING) \cup {<<"openshift-zone", "openshift-region">>},
   snapshots : SUBSET (SnapshotOption \X Nat)]

AtMostOne(object) == \A x, y \in object : x = y

(* Every variable has its type; of each object there is at most one. *)
TypeOK ==
  /\ \A objects \in {cluster, seen} :
       /\ objects = [managementState |-> objects.managementState, infra |-> objects.infra,
                     config |-> objects.config, driver |-> objects.driver,
                     secret |-> objects.secret]
       /\ objects.managementState \in ManagementState
       /\ objects.infra \in PlatformSpecs /\ IsFiniteSet(objects.infra.vCenters)
       /\ objects.config \in Configs
       /\ objects.driver \in Drivers
       /\ objects.secret \subseteq Secrets /\ AtMostOne(objects.secret)
  /\ features \subseteq [topology : BOOLEAN, migration : BOOLEAN] /\ AtMostOne(features)
  /\ desired \subseteq [topology : BOOLEAN, migration : BOOLEAN] /\ AtMostOne(desired)
  /\ deployment \subseteq [topology : BOOLEAN, secret : SUBSET Secrets]
  /\ AtMostOne(deployment)
  /\ daemonSet \subseteq [maxVolumes : Nat, secret : SUBSET Secrets] /\ AtMostOne(daemonSet)
  /\ changes \in 0 .. MaxChanges /\ failures \in 0 .. MaxFailures
  /\ up \in BOOLEAN /\ pending \subseteq Fields
  /\ currentManagmentState \in {"", "Managed"} /\ operandControllerStarted \in BOOLEAN
  /\ pc \in {"idle", "login", "secret", "check", "storageclass"}
  /\ job \subseteq [config : Configs, platform : PlatformSpecs, driver : Drivers]
  /\ AtMostOne(job)

(* A config whose vCenters are known under their addresses. *)
PlainNames(config) == \A name \in Names(config) : config.virtualCenter[name] = name

(* The Secret is there, written from what sync holds. *)
SecretWritten == pc \in {"check", "storageclass"}

(* The driver is told about exactly the vCenters that the operator has     *)
(* logged in to and checks: the Secret lists those of the config, the      *)
(* connections come from the converted Infrastructure, and the conversion  *)
(* of an INI config makes the two agree, whatever the Infrastructure lists.*)
DriverKnowsItsVCenters ==
  SecretWritten =>
    \A j \in job, secret \in cluster.secret :
      j.config.legacy /\ PlainNames(j.config) /\ j.platform.vCenters # {} =>
        secret.vCenters = Hostnames(j.config, j.platform)

(* A config of one vCenter never leaves the driver without the datastore   *)
(* of its migrated volumes, once that vCenter is connected: whether the    *)
(* datastore is looked up depends on the Infrastructure, whether it is     *)
(* written on the config.                                                  *)
SecretNamesDatastore ==
  SecretWritten =>
    \A j \in job, secret \in cluster.secret :
      j.platform.vCenters # {} /\ Cardinality(Names(j.config)) = 1 =>
        secret.datastore # Unset

(* createStoragePolicy reads LegacyConfig without looking (vmware.go:234); *)
(* with one vCenter it is never reached with a nil one, because the lookup *)
(* of the default datastore fails first.                                   *)
NoNilDereference ==
  pc = "storageclass" =>
    \A j \in job : NilDereference(j.config, j.platform) => Cardinality(j.platform.vCenters) # 1

(* Managed, and no config that ends the process. *)
Managed ==
  /\ cluster.managementState = "Managed"
  /\ ~NilDereference(cluster.config, ConvertToPlatformSpec(cluster.config, cluster.infra))

(* The vCenters of the Infrastructure are in the config, with the datastore *)
(* that is needed, and failure domains come with vCenters.                  *)
Deployable ==
  LET spec == ConvertToPlatformSpec(cluster.config, cluster.infra)
  IN  /\ Managed
      /\ cluster.infra.failureDomains # << >> => cluster.infra.vCenters # {}
      /\ CanConnect(cluster.config, spec)
      /\ NeedsDatastore(spec) => FindsDatastore(cluster.config, spec)

InAgreement ==
  \E s \in cluster.secret, f \in features, d \in deployment, n \in daemonSet :
    /\ s.vCenters = Servers(cluster.config)
    /\ f.topology = (s.categories # << >>) /\ d.topology = f.topology
    /\ d.secret = {s} /\ n.secret = {s}
    /\ n.maxVolumes = IF ConfigurableMaxVolumes /\ cluster.driver.maxVolumes > 0
                      THEN cluster.driver.maxVolumes ELSE MaxVolumesPerNodeVSphere7

(* The four writers come to agree: Secret, feature states, Deployment and   *)
(* DaemonSet end up with one answer to whether there is topology, although  *)
(* one of them decides on a converted Infrastructure and the others on the  *)
(* original, and both sets of pods roll out with the last Secret.           *)
WritersAgree == <>[]Deployable => <>[]InAgreement

(* The feature states end up as the Infrastructure asks, however often it   *)
(* changes, whatever the conversion of a copy of it does meanwhile.         *)
FeaturesFollowInfra ==
  <>[]Managed => <>[](features = {FeaturesFor(cluster.infra, cluster.driver)})

(* Removal is for good: no late write of a controller outlives it.          *)
RemovedForGood ==
  <>[](cluster.managementState = "Removed") =>
    <>[](cluster.secret = {} /\ features = {} /\ deployment = {} /\ daemonSet = {})

(* What the metrics promise, counted without a pass: datacenters and regions *)
(* by name, datastores and zones within them.                                *)
Census(infra, driverSpec) ==
  LET domains == {infra.failureDomains[i] : i \in DOMAIN infra.failureDomains}
      named(f(_)) == {f(d) : d \in domains} \ {Unset}
  IN  [categories  |-> IF driverSpec.vSphere THEN Len(driverSpec.categories) ELSE 0,
       infraTags   |-> IF Len(infra.failureDomains) > 1 THEN 2 ELSE 0,
       datacenters |-> Cardinality(named(LAMBDA d : d.datacenter)),
       datastores  |-> Cardinality({<<d.datacenter, d.datastore>> : d \in
                         {e \in domains : e.datacenter # Unset /\ e.datastore # Unset}}),
       regions     |-> Cardinality(named(LAMBDA d : d.region)),
       zones       |-> Cardinality({<<d.region, d.zone>> : d \in
                         {e \in domains : e.region # Unset /\ e.zone # Unset}}),
       vCenters    |-> Cardinality(named(LAMBDA d : d.server)),
       failureDomains |-> Len(infra.failureDomains)]

(* The metrics end up counting the live Infrastructure, not the converted   *)
(* copy, and a later Infrastructure leaves nothing of an earlier one.       *)
MetricsCountInfra ==
  <>[]Managed => <>[](metrics = {Census(cluster.infra, cluster.driver)})
=============================================================================
