# A TLA+ model of the vSphere CSI driver operator

This directory models the core of `vmware-vsphere-csi-driver-operator`: the
sync loop that decides whether the vSphere CSI driver may be installed, the
environment checks it bases the decision on, its sessions in vCenter, the
configuration it writes for the driver, and the storage policy and
StorageClass it maintains. TLC checks the modules on small instances; TLAPS
proves the main safety properties for every value of the constants.
`PROJECT.json` lists components, runs, mutants, the source lines behind every
definition, findings, hazards and theorems.

## 1. Inventory

| Component | State | Operations | Hard behaviour |
|---|---|---|---|
| `VSphereController` (`vspherecontroller.go`) | `operandControllerStarted`, `vCenterConnectionStatus`, `currentManagmentState`, connections; conditions on `ClusterCSIDriver` | `sync`, `installCSIDriver`, `blockUpgradeOrDegradeCluster`, `updateConditions`, `loginToVCenter`, `createCSISecret` | stale listers, crash and `os.Exit` between steps, writes that fail, operands that cannot be stopped |
| Removal (`operator_removal.go`) | what is left of the operands | `removeOperands`, `removeConditions` | partial failure, operand controllers of the same process, a removal that is taken back |
| Environment checker (`vsphere_environment_checker.go`) | back-off, `nextCheck`, `lastCheck` | `Check`, `ResetExpBackoff`; timers through `time.AfterFunc` | a timer racing `nextCheck`, resets with timers still armed |
| Checks (`checks/check_error.go`, `check_vcenter.go`, `check_existing_driver.go`) | none | `Check` of each, `CheckClusterStatus` | severity of merged results, the CSIDriver read twice |
| `NodeChecker` (`checks/check_nodes.go`) | `hostESXIVersions`, `results`, channel, wait group | `Check`, `createPool`, `addWork`, `runWorker`, `checkOnNode` | a pool of goroutines with a bounded channel and early exit |
| `StorageClassController` | policy cache, `sharedPolicyName`, `nextCheck` | `Sync`, `syncStoragePolicy`, `syncStorageClass`, `SyncRemove` | several vCenters behind one back-off, a cache that outlives failures |
| Storage policy (`vmware.go`) | on vCenter: category, tags, attachments, policy | `createStoragePolicy` | many remote calls, any may fail; administrators |
| Operand controllers (`driver_starter.go`) | the operands | create while Managed, delete when Removed | run concurrently with sync, read the management state on their own |
| vCenter sessions (`vclib/connection.go`) | clients of each connection, sessions in vCenter | `Connect`, `NewClient`, `Logout` | two logins for each vCenter, one of which may fail; calls without a timeout |
| Config and platform spec (`vspherecontroller.go`, `vclib/connection.go`) | none | `LoadConfig`, `ConvertToPlatformSpec`, lookups | two formats, missing sections, a copy of a cached object |
| Driver config (`createCSISecret`, hooks of `driver_starter.go`) | Secret, Deployment, DaemonSet | `applyClusterCSIDriverChange`, `topologyHook`, hash and volume-limit hooks | several writers, one of them with a converted Infrastructure |
| Driver features controller (`driverfeaturescontroller.go`) | a ConfigMap | `Sync` | second controller on the same objects, races removal |
| Topology, options, metrics (`utils`) | gauges | pure functions | counts by datacenter and region |
| Starter, assets | none | wiring, manifests | |

How they interact: `sync` runs on one worker. It reads `ClusterCSIDriver`
through an informer cache, logs in to every vCenter, asks the environment
checker (which runs the three checks, the node check with its own pool of
goroutines), turns the merged result into conditions, starts the operand
controllers in goroutines of their own, and calls the StorageClass controller,
which calls vCenter. Timers and informers put the key back into the queue. An
error is turned into a Degraded condition and a retry by library-go.

What makes it correct, component by component:

- **sync**: the driver is installed when nothing blocks it, never when something
  does; a failure is reported and stays reported until it is gone; a removal
  completes and does not fight the operand controllers.
- **environment checker**: checks respect the back-off, and no wake-up is lost.
- **merge**: it weakens no verdict.
- **node check**: it returns, waits for its workers, reports only real failures,
  and passes only good clusters.
- **StorageClass**: it names a policy that exists everywhere, and arrives.
- **storage policy**: success means that the policy selects every datastore,
  half-done work is repaired, and no call damages a policy that works.
- **sessions**: none is left open by a sync unless a call failed, and nothing
  uses a connection that is not fully logged in.
- **driver config**: its writers come to agree with one another and with the
  Infrastructure, and a removal leaves nothing of it.

`PROJECT.json` lists under "hazards" where in the code each of these could go
wrong.

## 2. Modules

| Module | Models | Extended by |
|---|---|---|
| `ClusterChecks` | actions, results, `CheckClusterStatus`, the merge, the existing-driver and vCenter checks, as operators | `NodeChecker`, `CompositeCheck`, `VSphereController`, `VSphereConnection` |
| `NodeChecker` | the worker pool and `checkOnNode` | `MCNodeChecker`, `NodeChecker_proofs` |
| `CompositeCheck` | one run of the three checkers, merge and verdict, with listers that move | `MCCompositeCheck`, `CompositeCheck_proofs` |
| `EnvironmentChecker` | back-off, `nextCheck`, timers, queue, in ticks | its own run, `EnvironmentChecker_proofs` |
| `VSphereController` | sync, removal, operand controllers, informers, process | `MCVSphereController`, `VSphereController_proofs` |
| `CheckGate` | abstract: what the back-off promises | implemented by `EnvironmentChecker` |
| `StorageClassController` | `Sync` over several vCenters, cache, gate | `MCStorageClassController`, `StorageClassController_proofs` |
| `StoragePolicy` | `createStoragePolicy` call by call, vCenter, administrators | `MCStoragePolicy`, `StoragePolicy_proofs` |
| `PolicyProvisioning` | abstract: what `createStoragePolicy` promises | implemented by `StoragePolicy` |
| `VSphereConnection` | connections, logins, logouts and sessions of a sync | its own run, `VSphereConnection_proofs` |
| `PlatformSpec` | conversion of the platform spec, config lookups, topology, options, metrics, as operators | `DriverConfig` |
| `DriverConfig` | the four writers of the driver's configuration, informers, removal | `MCDriverConfig`, `DriverConfig_proofs` |

### Correspondence

*ClusterChecks.* A `ClusterCheckResult` is the record of its action and status;
`Failed` stands for `CheckError # nil`. A version is the number that keeps
semver's order (`6.7.3` is 673); `Unparsable` is a text that does not parse.
`OverallResult` is the loop over `allChecks`, written as a recursive function.

*NodeChecker.* `main` is the goroutine in `Check`, `wpc` the workers. `chan` is
`workChannel`, `wg` the wait group's counter, `hostESXIVersions` and `results`
the fields of that name. Steps are cut where another goroutine can step in:
between `go runWorker` and `wg.Add(1)`, between the test and the send in
`addWork`, before and after each lock. A nil dereference sets `panicked`, which
ends the process; `Restart` is the kubelet. `Clusters` is what a check may find;
each check may find a different one.

*CompositeCheck.* `allChecks` and `overallResult` are the locals of `Check`;
`Decide` is the call of `CheckClusterStatus` from `blockUpgradeOrDegradeCluster`,
which looks the CSIDriver up again.

*EnvironmentChecker.* Time is relative to now: `due` is `nextCheck - now`,
`timers` the time left of every timer, `since` is `now - lastCheck`. Jitter is
left out: `nextCheck` and the timer use the same jittered delay. A tick is
smaller than any delay, and a check takes at least one, since the clock moves
between the two places that read it.

*VSphereController.* `pc` is the place in `sync`. `opStatus` is the snapshot of
the conditions taken at the start, `seen`, `seenDriver`, `seenNode` are the
informer caches, `csiDriver` and `nodePlugin` stand for the operands whose
presence other code reads. `gate` abstracts `EnvironmentChecker`: closed by a
check, opened by time or by a reset. `UpdateStatus` models library-go: no write
if the lister's copy is already as wanted, otherwise a write to the live
object. `env` is what the vCenter and node checks report together.

*StorageClassController.* `pc` walks through `Sync`; `current` is the vCenter of
the loop. `created` is history that only properties read. The list of vCenters
may be empty: the loop then does nothing and the StorageClass is applied with
the empty policy name, which `nameToApply` says in the properties.

*StoragePolicy.* Every call to vCenter is a step with an error branch. Tags are
looked up by name as in the code; `own` is in the operator's category, `foreign`
in another one. A cluster without failure domains is a list of one datastore.

*VSphereConnection.* `connections` is `c.vSphereConnections`; of each connection
it keeps whether `Client` ("soap") and `RestClient` ("rest") are nil, logged in
or logged out. `sessions` counts what is open in vCenter, and `lost` those that
nobody can log out any more: the answer to the login was lost, the logout
failed, or the process crashed. `Use` stands for the rest of sync, which
`VSphereController` has in detail; it is reached through `CheckClusterStatus` and
`BlocksInstall` of `ClusterChecks`. `UseHangs` is the node check that blocks for
ever (run `node_checker_hang`), taken as a possibility of every sync. A vCenter
that hangs takes a call and does
not answer: the fetch of the service content ends with `apiTimeout`, the logins,
the default datastore and the logouts run with the context of sync and wait.

*PlatformSpec.* The empty string is what is not set, as in the code. A config is
reduced to what the lookups tell apart: whether `LegacyConfig` was parsed, the
map from names to addresses, the sections of the INI text, and `[Workspace]` as
the failure domain made of it. Datacenter lists, folders and resource pools are
passed through by the code and left out.

*DriverConfig.* `cluster` holds what is read through informers, `seen` the
informers' copies, `pending` the fields whose change has not arrived. An object
that may be absent is a set of at most one value. The Secret is what the code
decides about its content: vCenters, migration datastore, topology categories,
snapshot limits. The hash of the Secret in a pod template is the Secret itself.
`SyncManaged` to `SyncStorageClass` are the same stretches of sync as in
`VSphereController`; here the checks are a choice, there the data is.

### Refinements

`EnvironmentChecker` implements `CheckGate` with the gate open when `nextCheck`
is past (`BackoffIsAGate`). That is what allows `VSphereController`,
`StorageClassController` and `DriverConfig` to use a gate instead of a clock.
`StoragePolicy` implements `PolicyProvisioning` with `usable` as "the policy selects
every datastore of the cluster" (`CallsOnlyImprove`): a call may fail at any step,
but never makes a usable policy unusable, and success can be trusted.

## 3. Runs

Passing runs:

| Run | Shows | States |
|---|---|---|
| `node_checker` | `NoWorkerAfterReturn`, `FailuresAreReal`, `PassIsSound`, `CheckReturns`: two workers, every pair of VM kinds, every kind of host, up to four nodes of which any number fails | 24 thousand |
| `composite_check` | `VerdictIsNoWeaker`, `PassMeansSupported` | 484 thousand |
| `environment_checker` | `RecheckIsArmed`, `ChecksAreSpaced`, `RecheckHappens`, and that it implements `CheckGate` | 2 thousand |
| `vsphere_controller` | `RemovalIsExclusive`, `InstallOnlyIfNotBlocked`, `DegradedIsSticky` | 1.7 million |
| `vsphere_controller_live` | `DriverGetsInstalledUnlessOrphaned`, `RemovalCompletes`, `FailureIsReported` | 598 thousand |
| `storage_class` | `StorageClassHasPolicy`, `StorageClassArrives`, `FailureKeepsComingBack` | 28 thousand |
| `storage_policy` | `SuccessMeansUsable`, `PolicyIsRepaired` (as long as calls recur), and that it implements `PolicyProvisioning` | 24 thousand |
| `vcenter_sessions` | `EverySessionIsHeldOrLost`, `UsesOnlyFullLogins`, `SyncsGoOn` | 44 thousand |
| `driver_config` | `DriverKnowsItsVCenters`, `SecretNamesDatastore`, `NoNilDereference`, `WritersAgree`, `FeaturesFollowInfra`, `RemovedForGood`, `MetricsCountInfra` | 101 thousand |

Runs in which the code departs from what its comments say:

| Run | What the counterexample shows |
|---|---|
| `node_checker_hang` | With more than `2 * workerCount` nodes (20 in the code), all workers leave after a failure, the channel is full, `addWork` blocks for ever, and `sync` with it. |
| `composite_check_install` | A foreign driver plus a deprecated environment: the installation is not blocked any more. |
| `vsphere_controller_orphan` | A half-done removal that is taken back leaves the operator's node plugin, which then blocks the installation as somebody else's. |

Further observations made while modelling, which the models contain as the code
has them and which the passing properties step around or allow:

- `check_nodes.go:166`: when `vm.runtime.host` is nil, so is `err`, and the
  branch meant to report it calls `Error()` on nil; likewise `vm.Config` at line
  149. `VMPanics` and `Restart` model the end of the process.
- `check_nodes.go:170`: hosts are told apart by the bare value of their
  reference. Two vCenters may use the same value, and then only one of the two
  hosts is checked; `PassIsSound` therefore has the proviso `UnambiguousRefs`.
- `vmware.go:337`: a tag of the same name in another category is "updated",
  which does not move it, and attached; the policy, which selects by category,
  then matches nothing. `SuccessMeansUsable` has a proviso for it.
- `check_vcenter.go:29`: a version that does not parse degrades a cluster with the
  driver installed, although the comment above says "without degrading".
- `vspherecontroller.go:311`: while checks are skipped, the StorageClass is synced
  although the last verdict blocks the installation (comment at line 268).
- `vspherecontroller.go:340`: operands are started by a result that blocks
  upgrades, although the comment at line 338 says "block upgrade is false".
- `storageclasscontroller.go:153`: after a failed recheck the next sync answers
  from the cache and reports success, until `nextCheck` is past; the condition
  comes and goes. `FailureKeepsComingBack` says that it does come again.
- `storageclasscontroller.go:169`: `nextCheck` is shared by all vCenters. Once each
  has a policy in the cache, the recheck of the first moves `nextCheck` and the
  others are answered from the cache, so that a vCenter that fails later may
  never be looked at again, nor what an administrator undoes there repaired.
  In practice it is the later ones that starve; if the time comes while a sync
  is between two vCenters, it may also be an earlier one. `FailureKeepsComingBack`
  excludes this case, and `PolicyIsRepaired` has the premise `CallsRecur`.
- `storageclasscontroller.go:111`: without any connection the loop is empty and a
  managed StorageClass is applied with an empty policy name.
  `StorageClassHasPolicy` allows it in that case only.
- `vmware.go:234`: a YAML config with two or more vCenters and no failure domains
  reaches `createStoragePolicy` with a nil `LegacyConfig` and ends the process, on
  every sync. `NoNilDereference` says that one vCenter alone never does.
- `vspherecontroller.go:970`: `addVCenter` looks a vCenter up by its address in a map
  that is keyed by name. A section whose name differs from its `server` is not
  added; `DriverKnowsItsVCenters` has the proviso `PlainNames`.
- `vspherecontroller.go:486`: a YAML config with an Infrastructure that lists no
  vCenter gives no connection at all, and the login passes trivially; the
  properties of the Secret have the proviso that there is a connection.
- `vspherecontroller.go:963`: an Infrastructure with one failure domain and no
  vCenters gets a second failure domain by the conversion, so that the Secret
  has topology and the other writers do not. `Deployable` leaves this out.
- `vspherecontroller.go:815`: a vCenter of the config without credentials gets empty
  ones in the Secret, where line 494 makes the same lack an error for those of
  the Infrastructure.
- `driverfeaturescontroller.go:121`: CSI migration is decided by the vCenters of
  the Infrastructure as it is, which an INI config with two vCenters may exceed
  (the comment at line 116 speaks of clusters that "have 2 or more vCenters").
- `vspherecontroller.go:893`: `deleteConfigMapIfExists` looks for a ConfigMap with the
  name of the credentials Secret, so the legacy one is not deleted.
- `connection.go:194`: the logins and later calls have no timeout. A vCenter that
  hangs there stops the sync, with `clientLock` held during a login. Together
  with the node check that blocks at `check_nodes.go:81` these are the waits that
  nothing ends: `SyncsGoOn` allows the two and says that there is no other. The
  modules that take the use of the connections as a step (`VSphereController`,
  `DriverConfig`) assume that checks return; their liveness is that of clusters
  in which neither wait happens.

### Bounds

- `WorkerCount = 2` (the code has 10). Four nodes fill both the workers and
  the channel, so that every blocking state of the feeder short of the hang
  occurs; a fifth is the hang. The safety properties are proved for every pool.
- `MinDelay = 1`, `Cap = 5`, `MaxCheckTime = 3`: the back-off reaches its cap in
  three steps without dividing it, and a check may outlast its own delay.
- `MaxChanges` bounds failures, crashes and changes by users together: 2 in
  `VSphereController` (a removal and its withdrawal, a failure and a crash), 4 in
  `StorageClassController`, 3 in `StoragePolicy`. Every finding needs at most two.
- `VSphereConnection`: two vCenters, so that a login can fail before, at and after
  another; two changes (one hangs and comes back) and two failures.
- `DriverConfig`: one change and one failure, on top of three clusters as the
  start. A change takes one object from any of the three, which mixes an INI
  config with the Infrastructure of a YAML one and the reverse. Every writer may
  run any number of times in between.
- Two vCenters, two datastores, two hosts: one that works and one that differs.
- `SkipChecks`, `GateOpens` and `Wake` have no bound: any number of syncs fits
  between two changes.

### Fairness

- Goroutines that can run do run: weak fairness on the steps of a worker and of
  the main goroutine. Every call to vCenter made by a node check ends within
  `nodeCheckTimeout`, and those for the storage policy within `apiTimeout`.
- The controller's worker, informers, timers and the kubelet's restart are
  weakly fair. In `EnvironmentChecker` no informer event and no resync need ever
  come: the recheck rests on the timers alone.
- Administrators, failures, crashes and resets of the back-off are never forced.
- The StorageClass controller is called again by the operator's resync.
- `StoragePolicy`: only a call that has begun goes on (each of its calls to
  vCenter ends within `apiTimeout`). That `createStoragePolicy` is called again is
  not assumed: nothing calls it while the StorageClass is not managed, and of
  several vCenters with a cached policy one may never get another call. So
  `PolicyIsRepaired` speaks of a vCenter for which calls recur (`CallsRecur`). With a
  single vCenter and a managed StorageClass they do, as long as the operator can
  log in: whatever came of a call, the next one comes at the latest when
  `nextCheck` is past.
- `DriverConfig`: each writer is weakly fair, since library-go resyncs every
  controller (the main one every 20 minutes, the one for features every minute)
  and each informer catches up. `installCSIDriver` is strongly fair: a sync that
  skips the checks finds the back-off over at some later sync (this is
  `RecheckHappens` of `EnvironmentChecker`).
- `VSphereConnection`: the steps of sync are weakly fair; a call to a vCenter that
  hangs is not enabled, so that nothing is assumed about its return, and a node
  check that hangs has no step at all.

## 4. Proofs

Proved with TLAPS, for every value of the constants:

- `NodeChecker_proofs`: `TypeCorrect`, `AllWorkersAwaited`, `ResultsAreReal`,
  `PassSoundness`. The inductive invariant `IInv` adds to the properties:
  `PoolInv` (the wait group's counter is the number of workers started and not
  gone, less the one whose `Add` is still to come; a closed channel stays closed
  and is closed only at the end), `NodesInv` (what is in the channel and in the
  hands of workers are nodes of this check that were handed out), `FailInv`
  (results, and failures about to be reported, are those of nodes of this
  check) and `CoverInv`: every node handed out is in the channel, in a worker's
  hands, good so far, or there is a failure; every marked host is good, being
  looked at, or there is a failure; no worker leaves while there is work unless
  there is a failure. The last three are what makes a pass sound, since a
  worker that skips a marked host relies on another that has not finished.
  `RepliesAct` says that what `Check` returns meets `IsCheckerReply`, which
  `CompositeCheck` assumes of its node checker (`NodeResultsAssumption`).
  Two theorems bound what `CheckReturns` is about. `HangsOnlyWhenFull`: while a check
  runs somebody can take a step, except in one state: `addWork` is at a full
  channel, all workers left after failures, and there were more than
  `2 * WorkerCount` nodes. Its strengthening `TookInv` counts nodes: until the
  channel is closed a worker leaves only after it took a node, so the nodes
  handed out are at least those in the channel plus the workers that took one.
  The bound is exact: the run `node_checker_hang` reaches that state with one node
  more. `EveryStepCounts`: every step of a check lowers `Remaining`, a number that
  starts at `6 n + 5 WorkerCount + 4` for n nodes, so that no interleaving goes
  on for ever. What is left of `CheckReturns` for `2 * WorkerCount` nodes or fewer
  is that a step which can be taken is taken, and that is the fairness.
- `CompositeCheck_proofs`: `OverallIsMostSevere`, that the merge of a list of any
  length is one of its results, or the pass it starts from, and none is more
  severe; from it `TypeCorrect`, `MergeIsNoWeaker` and `PassIsSupported`. The
  inductive invariant `IInv` adds the length of the list at each checker,
  `VersionInv` (once the vCenter check has run, every version is good or some
  result in the list is no pass), `MergedInv` (at the verdict, no result of the
  list is more severe than the merged one) and `DecidedInv` (the verdict is that
  on the merged result and the CSIDriver looked up last, which need not be the
  one the existing-driver check saw).
- `EnvironmentChecker_proofs`: `TypeCorrect`, `NoLostWakeup`, `BackoffIsKept`.
  The strengthening `DueFollowsDelay` says that outside a check `due` is what is
  left of the delay counted from the last check.
  `ImplementsGate` is the safety part of the refinement of `CheckGate`.
- `VSphereController_proofs`: `RemovalExclusion`, by `ExclusionInv` (operands run,
  and the managed branch is under way, only in a process that has seen Managed,
  the removing branch only in one that has not); `BlockedMeansNoInstall`, by
  the lemma that a result which blocks has a status which blocks, whatever the
  CSIDriver cache says; and the action property `DegradedStays`, by
  `ConditionsInv`, which adds that sync decides on the connection only with one
  of the three results a login can have: with any other, a verdict reached
  without vCenter could clear the condition. `TypeCorrect` carries `ConditionsInv`
  along, and needs of the merge what `MergeType` says of lists of one or two.
  `RemovalIsKept`, `InstallationIsKept` and `ReportIsKept` are described below.
- `StoragePolicy_proofs`: `TypeCorrect`, `SuccessIsMeant` and the refinement
  `ImplementsProvisioning`. `CallInv` relates a call that nobody interferes with
  to vCenter: the domains it works on are those of the cluster, `policyCreated`
  means that the profile exists, and the datastores behind the loop are tagged.
- `StorageClassController_proofs`: `TypeCorrect`, `PolicyBehindClass`, and `ClassIsKept` (below). `KnownInv`: a
  vCenter with a cached policy was given one, and so were those behind the loop
  of a managed sync; without it the empty name in the cache could pass for one.
  The theorems hold for lists of every length, the empty one included.
- `VSphereConnection_proofs`: `TypeCorrect`, `SessionsAreAccounted`,
  `OnlyFullLogins`, for any number of vCenters. `LoopInv` says how far the two
  loops are: logging in, clients behind are open and those ahead nil; after the
  login nothing is closed, and all is open unless the result blocks; logging
  out, nothing behind is open and nothing ahead is closed.
- `DriverConfig_proofs`: `SecretListsConnections`, `DatastoreIsWritten`,
  `NilIsNotReached`, for every family of clusters, and `ConversionKeepsTopology`,
  about every config and platform spec. `SyncInv` says that sync gets to the
  Secret only with vCenters the config knows, past it only with the datastore
  it needs, and that nobody else writes the Secret until it returns.
  `MetricsAreCensus`: the loop of `UpdateMetrics`, for any list of failure domains,
  computes `Census`, the sizes of the sets the gauges are described by.
  `TypeCorrect` and `ConversionStaysInSync` rest on `TypeInv`, which says of features,
  metrics and caches not only that they have their type but that they come from
  an Infrastructure as it is described, never from a converted one.
  `RemovalIsKept`, `AgreementIsKept` and `AgreedIsAgreement` are described below.

*What is reached is kept.* A liveness property of the form `<>[]P => <>[]Q` says
that Q is reached and that it is kept. The first half needs fairness and is
TLC's; the second is an action property, and proved: `RemovedQuiet`,
`InstalledQuiet` and `ReportedQuiet` in `VSphereController_proofs`, `RemovedQuiet` and
`Agreed` in `DriverConfig_proofs`, `ArrivedQuiet` in `StorageClassController_proofs`
are the states in which Q holds, the caches know
it and whatever sync or another controller has in hand agrees with it. The
theorems `...IsKept` say that no step leaves such a state while users leave the
management state (for a removal) or the whole world (for the others) alone;
for removals crashes, restarts and failures are included. The work is in finding
what else has to hold: for `ReportIsKept`, for instance, that past the connection
the login has not failed, that the result sync decides on is that of the
checks, and that at the installation it does not block. `AgreedIsAgreement` links
the `Agreed` of the proofs to the `InAgreement` of the runs. That these states are
reached, TLC has shown on the instances of the runs. For `StoragePolicy` the
refinement `ImplementsProvisioning` says as much: calls only improve vCenter.

*Induction over data.* `OverallResult` and `UpdateMetrics` are recursive functions.
The induction theorems of the library have an operator as a parameter and cannot
be used; the lemma `Induction` (for a subset of Nat in the place of a predicate)
follows from the well-foundedness of `<` on Nat, and what the functions compute is
proved from it for lists of every length.

Assumptions are the named `ASSUME`s on constants: pools have a worker, delays are
positive and below the cap, references are unique within one vCenter, a pass is
possible, vCenters have distinct names, clusters are described by finite
configs. TLC evaluates them in the runs.

Every invariant and action property that the runs check is proved, and the safety
part of both refinements. Only model-checked is what holds under fairness, which
is beyond the prover: `CheckReturns`, `RecheckHappens`, `RemovalCompletes`,
`DriverGetsInstalledUnlessOrphaned`, `FailureIsReported`, `StorageClassArrives`,
`FailureKeepsComingBack`, `PolicyIsRepaired`, `WritersAgree`, `FeaturesFollowInfra`,
`RemovedForGood`, `MetricsCountInfra`, `SyncsGoOn`, and the fairness of `CheckGate`.

## 5. Order of work

`ClusterChecks`, `NodeChecker`, `EnvironmentChecker`, `VSphereController`,
`StorageClassController`, `CompositeCheck`, `StoragePolicy` and their proofs came
first, as the core; then `VSphereConnection`, `PlatformSpec` with `DriverConfig`, the
abstract `CheckGate` and `PolicyProvisioning` with their refinements, and the
remaining proofs. What could follow:

- the conditions of the operand controllers, which library-go keeps;
- `StorageClassController` with the detailed `StoragePolicy` in place of its
  abstraction, for an administrator who changes failure domains between vCenters.

## 6. Not modelled

- Text: manifests, messages and reasons of conditions, events, the escaping of
  credentials and the INI syntax of `cloud.conf`.
- Wiring: construction of clients and informers in `starter.go`, the wait for the
  feature gates. Their change ends the process, which the models have as a crash.
- Hooks that only edit a manifest: images, log level, proxy, CA bundle, replicas;
  static assets (RBAC, ServiceMonitor, the removal of the webhook).
- Code without a caller in the operator: `LoginToCNS`, `getvCenterName`,
  `iniConfig`, `deleteStoragePolicy`; the test library and the end-to-end tests.
- Clusters on other platforms, where `sync` returns at once.
- vCenter beyond what the operator sees of it: the expiry of idle sessions, and
  concurrency other than administrators who change tags, policies and
  reachability.
