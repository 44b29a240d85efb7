---------------------------- MODULE NodeChecker ----------------------------
(***************************************************************************)
(* NodeChecker.Check: one goroutine (the sync worker of VSphereController) *)
(* lists the nodes and feeds them through a bounded channel to a pool of   *)
(* workers; each worker inspects the VM of a node and, once per host       *)
(* reference, the ESXi host below it.  The first failure a worker meets    *)
(* ends that worker and stops the feeding.                                 *)
(*                                                                         *)
(* The pool is built anew by every Check, on a NodeChecker that lives as   *)
(* long as the process, so the model runs checks one after another; each   *)
(* may find a different cluster.                                           *)
(***************************************************************************)
EXTENDS ClusterChecks, FiniteSets

CONSTANTS
  WorkerCount,   \* workers in the pool, and the capacity of the channel
  Host,          \* ESXi hosts
  HostRef,       \* values of managed object references to hosts
  NoHost,        \* vm.runtime.host is nil
  Clusters       \* what a check may find in the cluster and in vCenter

(* What vCenter tells about the VM of a node.  "found" is FALSE when getVM *)
(* fails, "config" is FALSE when the VM has no config property, "hw" is the *)
(* hardware version.                                                       *)
VMFacts ==
  [vsphere : BOOLEAN, found : BOOLEAN, config : BOOLEAN, hw : Nat,
   host : Host \cup {NoHost}]

(* A host: the vCenter it belongs to (its place among the connections), its *)
(* reference, which only that vCenter guarantees to be unique, what loading *)
(* its properties gives, and its API version.                              *)
HostFacts ==
  [vc : Nat, ref : HostRef, load : {"ok", "error", "noconfig"}, version : Nat]

(* "listed" is FALSE when the nodes cannot be listed; "highLimit" is TRUE  *)
(* when maxAllowedBlockVolumesPerNode is configured above the limit of     *)
(* vSphere 7 and its feature gate is enabled.                              *)
ClusterFacts ==
  [listed : BOOLEAN, nodes : Seq(VMFacts), hosts : [Host -> HostFacts],
   highLimit : BOOLEAN]

ASSUME WorkerCountAssumption == WorkerCount \in Nat \ {0}
ASSUME NoHostAssumption == NoHost \notin Host
ASSUME ClustersAssumption ==
  /\ Clusters # {}
  /\ Clusters \subseteq ClusterFacts
  /\ \A c \in Clusters : \A g, h \in Host :
       /\ c.hosts[g].vc = c.hosts[h].vc
       /\ c.hosts[g].ref = c.hosts[h].ref
       => g = h

Worker == 1 .. WorkerCount

VARIABLES
  main,       \* where Check is: idle, spawn, add, feed, send, wait
  cluster,    \* what the running (or last) check finds
  spawned,    \* goroutines started by createPool so far
  nextNode,   \* index of the node to hand out next
  wg,         \* the WaitGroup's counter
  chan,       \* workChannel: indices of nodes
  closed,     \* close(workChannel) was called
  hostESXIVersions,   \* host references some worker has taken on
  results,    \* n.results
  reply,      \* what the last finished check returned
  wpc,        \* where each worker is: none, recv, inspect, host, report, exit, gone
  wnode,      \* the node each worker is on
  wres,       \* the failure each worker is about to report
  panicked    \* a goroutine panicked: the process is gone

mainVars == <<main, cluster, spawned, nextNode>>
poolVars == <<wg, chan, closed>>
workVars == <<wpc, wnode, wres>>
vars == <<mainVars, poolVars, hostESXIVersions, results, reply, workVars, panicked>>

Node(c) == DOMAIN c.nodes

----------------------------------------------------------------------------
(* The checks of one node, as functions of what the cluster holds.         *)

minHardwareVersion                         == 15
minRequiredHostVersion                     == 673
minUpgradeableHostVersion                  == 702
minRequiredHostVersionForIncreasedVolLimit == 800

(* checkOnNode up to the host reference: a failure, or a pass to go on.    *)
VMCheck(vm) ==
  IF ~vm.vsphere
  THEN MakeClusterDegradedError("non_vsphere_node")
  ELSE IF ~vm.found \/ vm.hw = Unparsable
  THEN makeDeprecatedEnvironmentError("vcenter_api_error")
  ELSE IF vm.hw < minHardwareVersion
  THEN makeDeprecatedEnvironmentError("check_deprecated_hw_version")
  ELSE MakeClusterCheckResultPass

(* The two dereferences of nil on that path: vm.Config.Version, and the    *)
(* Error() of an err that is nil when vm.runtime.host is empty.            *)
VMPanics(vm) ==
  /\ vm.vsphere /\ vm.found
  /\ \/ ~vm.config
     \/ VMCheck(vm) = MakeClusterCheckResultPass /\ vm.host = NoHost

(* getHost asks the connections in order and takes the first vCenter that  *)
(* knows the reference.                                                    *)
Known(c, ref) == {h \in Host : c.hosts[h].ref = ref /\ c.hosts[h].load # "error"}

getHost(c, ref) ==
  CHOOSE h \in Known(c, ref) : \A g \in Known(c, ref) : c.hosts[h].vc <= c.hosts[g].vc

VersionCheck(c, version) ==
  IF ~IsMinimumVersion(minRequiredHostVersion, version)
  THEN makeDeprecatedEnvironmentError("check_deprecated_esxi_version")
  ELSE IF ~IsMinimumVersion(minUpgradeableHostVersion, version)
  THEN MakeClusterUnupgradeableError("check_deprecated_esxi_version")
  ELSE IF c.highLimit /\ ~IsMinimumVersion(minRequiredHostVersionForIncreasedVolLimit, version)
  THEN MakeClusterDegradedError("block_volume_limit_error")
  ELSE MakeClusterCheckResultPass

(* checkOnNode from getHost to the end. *)
HostCheck(c, ref) ==
  IF Known(c, ref) = {} \/ c.hosts[getHost(c, ref)].load = "noconfig"
  THEN makeDeprecatedEnvironmentError("vcenter_api_error")
  ELSE VersionCheck(c, c.hosts[getHost(c, ref)].version)

----------------------------------------------------------------------------
(* The goroutine that runs Check.                                          *)

Init ==
  /\ main = "idle" /\ cluster \in Clusters /\ spawned = 0 /\ nextNode = 1
  /\ wg = 0 /\ chan = << >> /\ closed = FALSE
  /\ hostESXIVersions = {} /\ results = << >> /\ reply = << >>
  /\ wpc = [w \in Worker |-> "none"]
  /\ wnode = [w \in Worker |-> 1]
  /\ wres = [w \in Worker |-> MakeClusterCheckResultPass]
  /\ panicked = FALSE

(* Mutant: n.results is not reset. *)
StartCheckKeepsResults ==
  /\ main = "idle" /\ ~panicked
  /\ \E c \in Clusters :
       /\ cluster' = c /\ c.listed
       /\ main' = "spawn"
       /\ hostESXIVersions' = {}
       /\ spawned' = 0 /\ nextNode' = 1
       /\ chan' = << >> /\ closed' = FALSE
       /\ wpc' = [w \in Worker |-> "none"]
       /\ reply' = << >>
       /\ UNCHANGED <<wg, wnode, wres, results, panicked>>

(* Mutant: n.hostESXIVersions is not reset. *)
StartCheckKeepsHosts ==
  /\ main = "idle" /\ ~panicked
  /\ \E c \in Clusters :
       /\ cluster' = c /\ c.listed
       /\ main' = "spawn"
       /\ results' = << >>
       /\ spawned' = 0 /\ nextNode' = 1
       /\ chan' = << >> /\ closed' = FALSE
       /\ wpc' = [w \in Worker |-> "none"]
       /\ reply' = << >>
       /\ UNCHANGED <<wg, wnode, wres, hostESXIVersions, panicked>>

(* Check: list the nodes, and reset what the last check left behind. *)
StartCheck ==
  /\ main = "idle" /\ ~panicked
  /\ \E c \in Clusters :
       /\ cluster' = c
       /\ IF c.listed
          THEN /\ main' = "spawn"
               /\ hostESXIVersions' = {} /\ results' = << >>
               /\ spawned' = 0 /\ nextNode' = 1
               /\ chan' = << >> /\ closed' = FALSE
               /\ wpc' = [w \in Worker |-> "none"]
               /\ wnode' = [w \in Worker |-> 1]
               /\ wres' = [w \in Worker |-> MakeClusterCheckResultPass]
               /\ reply' = << >>
               /\ UNCHANGED <<wg, panicked>>
          ELSE /\ reply' = <<MakeClusterDegradedError("openshift_api_error")>>
               /\ UNCHANGED <<main, hostESXIVersions, results, spawned, nextNode,
                              poolVars, workVars, panicked>>

(* createPool: go n.runWorker(i) ... *)
Spawn ==
  /\ main = "spawn" /\ ~panicked
  /\ IF spawned < WorkerCount
     THEN /\ spawned' = spawned + 1
          /\ wpc' = [wpc EXCEPT ![spawned + 1] = "recv"]
          /\ main' = "add"
     ELSE main' = "feed" /\ UNCHANGED <<spawned, wpc>>
  /\ UNCHANGED <<cluster, nextNode, poolVars, hostESXIVersions, results, reply,
                 wnode, wres, panicked>>

(* ... and only then n.wg.Add(1). *)
Add ==
  /\ main = "add" /\ ~panicked
  /\ wg' = wg + 1 /\ main' = "spawn"
  /\ UNCHANGED <<cluster, spawned, nextNode, chan, closed, hostESXIVersions,
                 results, reply, workVars, panicked>>

(* The loop over the nodes up to the test in addWork; when it ends, for    *)
(* want of nodes or because of a failure, the channel is closed.           *)
Feed ==
  /\ main = "feed" /\ ~panicked
  /\ IF nextNode \in Node(cluster) /\ results = << >>
     THEN main' = "send" /\ UNCHANGED closed
     ELSE main' = "wait" /\ closed' = TRUE
  /\ UNCHANGED <<cluster, spawned, nextNode, wg, chan, hostESXIVersions, results,
                 reply, workVars, panicked>>

(* Mutant: an unbounded channel. *)
SendUnbounded ==
  /\ main = "send" /\ ~panicked
  /\ chan' = Append(chan, nextNode)
  /\ nextNode' = nextNode + 1 /\ main' = "feed"
  /\ UNCHANGED <<cluster, spawned, wg, closed, hostESXIVersions, results, reply,
                 workVars, panicked>>

(* n.workChannel <- work blocks while the channel is full. *)
Send ==
  /\ main = "send" /\ ~panicked
  /\ Len(chan) < WorkerCount
  /\ chan' = Append(chan, nextNode)
  /\ nextNode' = nextNode + 1 /\ main' = "feed"
  /\ UNCHANGED <<cluster, spawned, wg, closed, hostESXIVersions, results, reply,
                 workVars, panicked>>

(* Mutant: n.wg.Wait() is missing. *)
waitForNothing ==
  /\ main = "wait" /\ ~panicked
  /\ reply' = IF results # << >> THEN results ELSE <<MakeClusterCheckResultPass>>
  /\ main' = "idle"
  /\ UNCHANGED <<cluster, spawned, nextNode, poolVars, hostESXIVersions, results,
                 workVars, panicked>>

waitForWorkFinish ==
  /\ main = "wait" /\ ~panicked
  /\ wg = 0
  /\ reply' = IF results # << >> THEN results ELSE <<MakeClusterCheckResultPass>>
  /\ main' = "idle"
  /\ UNCHANGED <<cluster, spawned, nextNode, poolVars, hostESXIVersions, results,
                 workVars, panicked>>

----------------------------------------------------------------------------
(* The workers.                                                            *)

(* Mutant: a worker goes on receiving from a closed channel. *)
ReceiveForever(w) ==
  /\ wpc[w] = "recv" /\ ~panicked
  /\ \/ /\ chan # << >>
        /\ wnode' = [wnode EXCEPT ![w] = Head(chan)]
        /\ chan' = Tail(chan)
        /\ wpc' = [wpc EXCEPT ![w] = "inspect"]
     \/ chan = << >> /\ closed /\ UNCHANGED <<wnode, chan, wpc>>
  /\ UNCHANGED <<mainVars, wg, closed, hostESXIVersions, results, reply, wres,
                 panicked>>

(* runWorker: take a node from the channel, or leave once it is drained. *)
Receive(w) ==
  /\ wpc[w] = "recv" /\ ~panicked
  /\ \/ /\ chan # << >>
        /\ wnode' = [wnode EXCEPT ![w] = Head(chan)]
        /\ chan' = Tail(chan)
        /\ wpc' = [wpc EXCEPT ![w] = "inspect"]
     \/ /\ chan = << >> /\ closed
        /\ wpc' = [wpc EXCEPT ![w] = "exit"]
        /\ UNCHANGED <<wnode, chan>>
  /\ UNCHANGED <<mainVars, wg, closed, hostESXIVersions, results, reply, wres,
                 panicked>>

(* checkOnNode up to checkOrMarkHostForProcessing, which decides under a   *)
(* lock whether this worker or another one looks at the host.              *)
Inspect(w) ==
  LET vm  == cluster.nodes[wnode[w]]
      ref == cluster.hosts[vm.host].ref
  IN  /\ wpc[w] = "inspect" /\ ~panicked
      /\ \/ /\ VMPanics(vm)
            /\ panicked' = TRUE
            /\ UNCHANGED <<wpc, wres, hostESXIVersions>>
         \/ /\ ~VMPanics(vm) /\ Failed(VMCheck(vm))
            /\ wres' = [wres EXCEPT ![w] = VMCheck(vm)]
            /\ wpc' = [wpc EXCEPT ![w] = "report"]
            /\ UNCHANGED <<hostESXIVersions, panicked>>
         \/ /\ ~VMPanics(vm) /\ ~Failed(VMCheck(vm))
            /\ wpc' = [wpc EXCEPT ![w] = IF ref \in hostESXIVersions
                                         THEN "recv" ELSE "host"]
            /\ hostESXIVersions' = hostESXIVersions \cup {ref}
            /\ UNCHANGED <<wres, panicked>>
      /\ UNCHANGED <<mainVars, poolVars, results, reply, wnode>>

(* checkOnNode from getHost to its end. *)
InspectHost(w) ==
  LET ref == cluster.hosts[cluster.nodes[wnode[w]].host].ref
      res == HostCheck(cluster, ref)
  IN  /\ wpc[w] = "host" /\ ~panicked
      /\ IF Failed(res)
         THEN /\ wres' = [wres EXCEPT ![w] = res]
              /\ wpc' = [wpc EXCEPT ![w] = "report"]
         ELSE /\ wpc' = [wpc EXCEPT ![w] = "recv"]
              /\ UNCHANGED wres
      /\ UNCHANGED <<mainVars, poolVars, hostESXIVersions, results, reply, wnode,
                     panicked>>

(* addResult, under resultLock; the worker then leaves its loop. *)
addResult(w) ==
  /\ wpc[w] = "report" /\ ~panicked
  /\ results' = Append(results, wres[w])
  /\ wpc' = [wpc EXCEPT ![w] = "exit"]
  /\ UNCHANGED <<mainVars, poolVars, hostESXIVersions, reply, wnode, wres, panicked>>

(* n.wg.Done() *)
Done(w) ==
  /\ wpc[w] = "exit" /\ ~panicked
  /\ wg' = wg - 1
  /\ wpc' = [wpc EXCEPT ![w] = "gone"]
  /\ UNCHANGED <<mainVars, chan, closed, hostESXIVersions, results, reply, wnode,
                 wres, panicked>>

runWorker(w) ==
  Receive(w) \/ Inspect(w) \/ InspectHost(w) \/ addResult(w) \/ Done(w)

Check == Spawn \/ Add \/ Feed \/ Send \/ waitForWorkFinish

(* The kubelet restarts the container of a process that panicked. *)
Restart ==
  /\ panicked
  /\ main' = "idle" /\ spawned' = 0 /\ nextNode' = 1
  /\ wg' = 0 /\ chan' = << >> /\ closed' = FALSE
  /\ hostESXIVersions' = {} /\ results' = << >> /\ reply' = << >>
  /\ wpc' = [w \in Worker |-> "none"]
  /\ wnode' = [w \in Worker |-> 1]
  /\ wres' = [w \in Worker |-> MakeClusterCheckResultPass]
  /\ panicked' = FALSE
  /\ UNCHANGED cluster

Next == StartCheck \/ Check \/ (\E w \in Worker : runWorker(w)) \/ Restart

(* Goroutines that can run do run, and every call to vCenter ends within   *)
(* nodeCheckTimeout.  Nothing says that another check is ever started.     *)
Fairness ==
  /\ WF_vars(Check)
  /\ \A w \in Worker : WF_vars(runWorker(w))
  /\ WF_vars(Restart)

Spec == Init /\ [][Next]_vars /\ Fairness

----------------------------------------------------------------------------
(* Properties.                                                             *)

(* Every variable has its type; the channel never holds more than its      *)
(* capacity, and the counter of the WaitGroup is never negative (Done      *)
(* would panic).                                                           *)
TypeOK ==
  /\ main \in {"idle", "spawn", "add", "feed", "send", "wait"}
  /\ cluster \in Clusters
  /\ spawned \in 0 .. WorkerCount
  /\ nextNode \in Nat \ {0}
  /\ wg \in Nat
  /\ chan \in Seq(Nat) /\ Len(chan) <= WorkerCount
  /\ closed \in BOOLEAN
  /\ hostESXIVersions \subseteq HostRef
  /\ results \in Seq(ClusterCheckResult)
  /\ reply \in Seq(ClusterCheckResult)
  /\ wpc \in [Worker -> {"none", "recv", "inspect", "host", "report", "exit", "gone"}]
  /\ wnode \in [Worker -> Nat]
  /\ wres \in [Worker -> ClusterCheckResult]
  /\ panicked \in BOOLEAN

(* When Check has returned, every worker it started has ended: n.results,  *)
(* handed to the caller without its lock, cannot change any more ("At this *)
(* point no goroutine should be accessing results anyways").               *)
NoWorkerAfterReturn ==
  main = "idle" /\ ~panicked => \A w \in Worker : wpc[w] \in {"none", "gone"}

(* The failure of a node, if it has one: that of its VM, or of the host    *)
(* its reference leads to.                                                 *)
NodeFailures(c, n) ==
  {r \in {VMCheck(c.nodes[n])} : Failed(r)}
  \cup {r \in {HostCheck(c, c.hosts[h].ref) : h \in {c.nodes[n].host} \ {NoHost}} : Failed(r)}

(* What Check returns is about the nodes of this very check: every failure *)
(* in the reply is the failure of a node that was listed (or of listing    *)
(* them), none is left over from an earlier check or made up by a race.    *)
FailuresAreReal ==
  \A i \in DOMAIN reply :
    Failed(reply[i]) =>
      \/ ~cluster.listed /\ reply[i] = MakeClusterDegradedError("openshift_api_error")
      \/ \E n \in Node(cluster) : reply[i] \in NodeFailures(cluster, n)

(* A node is healthy when its VM passes and so does the very host that     *)
(* runs it.                                                                *)
Healthy(c, n) ==
  LET vm == c.nodes[n]
  IN  /\ ~VMPanics(vm) /\ ~Failed(VMCheck(vm))
      /\ c.hosts[vm.host].load = "ok"
      /\ ~Failed(VersionCheck(c, c.hosts[vm.host].version))

(* No two hosts share a reference, as within one vCenter. *)
UnambiguousRefs(c) == \A g, h \in Host : c.hosts[g].ref = c.hosts[h].ref => g = h

Passed == \E i \in DOMAIN reply : ~Failed(reply[i])

(* A pass is sound: however the workers interleave, share hosts through    *)
(* hostESXIVersions and stop early, Check passes only if every listed node *)
(* was looked at and it and its host are good, provided host references    *)
(* are unambiguous.                                                        *)
PassIsSound ==
  Passed /\ UnambiguousRefs(cluster) =>
    cluster.listed /\ \A n \in Node(cluster) : Healthy(cluster, n)

(* Check returns.  If a worker has already submitted a failed result,      *)
(* addWork is to return false so that processing stops.                    *)
CheckReturns == (main # "idle") ~> (main = "idle")

=============================================================================
