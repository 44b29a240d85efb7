------------------------- MODULE NodeChecker_proofs -------------------------
(* Proofs of the safety properties of NodeChecker for every size of the    *)
(* pool, every set of hosts and every family of clusters.                  *)
EXTENDS NodeChecker, FiniteSetTheorems, TLAPS

----------------------------------------------------------------------------
(* Facts about the checks themselves. *)

VMGood(vm) == ~VMPanics(vm) /\ ~Failed(VMCheck(vm))

(* checkOnNode's first half returns a result. *)
LEMMA VMCheckType ==
  ASSUME NEW vm \in VMFacts
  PROVE  VMCheck(vm) \in ClusterCheckResult
BY DEF VMFacts, VMCheck, ClusterCheckResult, CheckAction, CheckStatusType, Result,
       MakeClusterDegradedError, makeDeprecatedEnvironmentError,
       MakeClusterCheckResultPass, CheckActionPass, CheckActionDegrade,
       CheckActionBlockUpgradeOrDegrade

(* A VM that passes without a panic has a host. *)
LEMMA VMGoodHasHost ==
  ASSUME NEW vm \in VMFacts, VMGood(vm)
  PROVE  vm.host \in Host
BY DEF VMFacts, VMGood, VMPanics, VMCheck, Failed, Result,
       MakeClusterDegradedError, makeDeprecatedEnvironmentError,
       MakeClusterCheckResultPass

(* checkOnNode's second half returns a result. *)
LEMMA HostCheckType ==
  ASSUME NEW c \in ClusterFacts, NEW ref \in HostRef
  PROVE  HostCheck(c, ref) \in ClusterCheckResult
BY DEF HostCheck, VersionCheck, ClusterCheckResult, CheckAction, CheckStatusType, Result,
       MakeClusterDegradedError, makeDeprecatedEnvironmentError,
       MakeClusterUnupgradeableError, MakeClusterCheckResultPass, CheckActionPass,
       CheckActionDegrade, CheckActionBlockUpgrade, CheckActionBlockUpgradeOrDegrade

(* With unambiguous references, passing the reference is passing the host. *)
LEMMA HostPassIsSound ==
  ASSUME NEW c \in ClusterFacts, NEW h \in Host, UnambiguousRefs(c),
         ~Failed(HostCheck(c, c.hosts[h].ref))
  PROVE  c.hosts[h].load = "ok" /\ ~Failed(VersionCheck(c, c.hosts[h].version))
<1> DEFINE ref == c.hosts[h].ref
<1>1. c.hosts[h] \in HostFacts
  BY DEF ClusterFacts
<1>2. /\ Known(c, ref) # {} /\ c.hosts[getHost(c, ref)].load # "noconfig"
      /\ ~Failed(VersionCheck(c, c.hosts[getHost(c, ref)].version))
  BY DEF HostCheck, Failed, Result, makeDeprecatedEnvironmentError
<1>3. \A g \in Known(c, ref) : g = h
  BY DEF Known, UnambiguousRefs
<1>4. h \in Known(c, ref)
  BY <1>2, <1>3
<1>5. c.hosts[h].vc <= c.hosts[h].vc
  BY <1>1 DEF HostFacts
<1>6. getHost(c, ref) = h
  BY <1>3, <1>4, <1>5 DEF getHost
<1>7. c.hosts[h].load # "error"
  BY <1>4 DEF Known
<1> QED
  BY <1>1, <1>2, <1>6, <1>7 DEF HostFacts

----------------------------------------------------------------------------
(* The inductive invariant. *)

Busy == main \in {"feed", "send", "wait"}
Live == {w \in Worker : wpc[w] # "gone"}
RefOn(n) == cluster.hosts[cluster.nodes[n].host].ref

(* The WaitGroup counts the workers: while the pool is being built those   *)
(* that were added, then those that are not gone.                          *)
PoolInv ==
  /\ main = "idle" => wg = 0 /\ \A w \in Worker : wpc[w] \in {"none", "gone"}
  /\ main \in {"spawn", "add"} =>
       /\ wg = IF main = "spawn" THEN spawned ELSE spawned - 1
       /\ main = "add" => spawned > 0
       /\ \A w \in Worker : wpc[w] = IF w <= spawned THEN "recv" ELSE "none"
       /\ chan = << >> /\ results = << >> /\ nextNode = 1 /\ hostESXIVersions = {}
  /\ Busy => /\ \A w \in Worker : wpc[w] # "none"
             /\ wg = Cardinality(Live)
  /\ main # "idle" => /\ closed <=> main = "wait"
                      /\ cluster.listed /\ reply = << >>

(* Nodes in the channel and in the hands of workers were handed out. *)
NodesInv ==
  main # "idle" =>
    /\ nextNode <= Len(cluster.nodes) + 1
    /\ main = "send" => nextNode <= Len(cluster.nodes)
    /\ \A i \in 1 .. Len(chan) : chan[i] \in 1 .. nextNode - 1
    /\ \A w \in Worker : wpc[w] \in {"inspect", "host"} => wnode[w] \in 1 .. nextNode - 1
    /\ \A w \in Worker : wpc[w] = "host" => VMGood(cluster.nodes[wnode[w]])

RealFailure(r) == Failed(r) /\ \E n \in Node(cluster) : r \in NodeFailures(cluster, n)

(* Failures that are reported or about to be are failures of nodes. *)
FailInv ==
  main # "idle" =>
    /\ \A i \in 1 .. Len(results) : RealFailure(results[i])
    /\ \A w \in Worker : wpc[w] = "report" => RealFailure(wres[w])

(* Some failure is known, or about to be. *)
Bad == results # << >> \/ \E w \in Worker : wpc[w] = "report"

(* As long as no failure is known, every node handed out is in the channel,*)
(* with a worker, or good with its host taken on; every host taken on is   *)
(* with a worker or passed; and workers only leave a drained channel.      *)
NodesCovered ==
  \A n \in 1 .. nextNode - 1 :
    \/ \E i \in 1 .. Len(chan) : chan[i] = n
    \/ \E w \in Worker : wpc[w] = "inspect" /\ wnode[w] = n
    \/ VMGood(cluster.nodes[n]) /\ RefOn(n) \in hostESXIVersions

HostsCovered ==
  \A r \in hostESXIVersions :
    \/ ~Failed(HostCheck(cluster, r))
    \/ \E w \in Worker : wpc[w] = "host" /\ RefOn(wnode[w]) = r

LeftAfterWork ==
  /\ \A w \in Worker : wpc[w] \in {"exit", "gone"} => closed /\ chan = << >>
  /\ main = "wait" => nextNode = Len(cluster.nodes) + 1

CoverInv == Busy /\ ~Bad => NodesCovered /\ HostsCovered /\ LeftAfterWork

IInv ==
  /\ TypeOK /\ PoolInv /\ NodesInv /\ FailInv /\ CoverInv
  /\ FailuresAreReal /\ PassIsSound

(* What a cluster's parts are. *)
LEMMA ClusterTypes ==
  ASSUME NEW c \in Clusters
  PROVE  /\ c \in ClusterFacts
         /\ Node(c) = 1 .. Len(c.nodes) /\ Len(c.nodes) \in Nat
         /\ \A n \in Node(c) : c.nodes[n] \in VMFacts
         /\ \A h \in Host : c.hosts[h] \in HostFacts /\ c.hosts[h].ref \in HostRef
BY ClustersAssumption DEF ClusterFacts, Node, HostFacts

(* The constructors used where no node is involved return results. *)
LEMMA ResultTypes ==
  /\ MakeClusterCheckResultPass \in ClusterCheckResult
  /\ ~Failed(MakeClusterCheckResultPass)
  /\ MakeClusterDegradedError("openshift_api_error") \in ClusterCheckResult
  /\ Failed(MakeClusterDegradedError("openshift_api_error"))
BY DEF ClusterCheckResult, CheckAction, CheckStatusType, Result, Failed,
       MakeClusterDegradedError, MakeClusterCheckResultPass, CheckActionPass,
       CheckActionDegrade

(* A reply of one result is a sequence of results. *)
LEMMA OneResult ==
  ASSUME NEW r \in ClusterCheckResult
  PROVE  <<r>> \in Seq(ClusterCheckResult) /\ DOMAIN <<r>> = {1} /\ <<r>>[1] = r
OBVIOUS

(* The fields of a pool that was just created. *)
LEMMA FreshWorkers ==
  /\ [w \in Worker |-> "none"] \in
       [Worker -> {"none", "recv", "inspect", "host", "report", "exit", "gone"}]
  /\ [w \in Worker |-> 1] \in [Worker -> Nat]
  /\ [w \in Worker |-> MakeClusterCheckResultPass] \in [Worker -> ClusterCheckResult]
BY ResultTypes

(* While Check runs there is no reply, hence nothing to say about it. *)
LEMMA NoReplyYet ==
  ASSUME reply = << >>
  PROVE  FailuresAreReal /\ PassIsSound
BY DEF FailuresAreReal, PassIsSound, Passed

(* The program starts in the invariant. *)
LEMMA InitIInv == Init => IInv
<1> SUFFICES ASSUME Init PROVE IInv
  OBVIOUS
<1>1. TypeOK
  <2>1. wpc \in [Worker -> {"none", "recv", "inspect", "host", "report", "exit", "gone"}]
    BY FreshWorkers DEF Init
  <2>2. wnode \in [Worker -> Nat] /\ wres \in [Worker -> ClusterCheckResult]
    BY FreshWorkers DEF Init
  <2>3. /\ chan \in Seq(Nat) /\ Len(chan) <= WorkerCount
        /\ results \in Seq(ClusterCheckResult) /\ reply \in Seq(ClusterCheckResult)
    BY WorkerCountAssumption DEF Init
  <2>4. /\ main \in {"idle", "spawn", "add", "feed", "send", "wait"} /\ cluster \in Clusters
        /\ spawned \in 0 .. WorkerCount /\ nextNode \in Nat \ {0} /\ wg \in Nat
        /\ hostESXIVersions \subseteq HostRef
    BY WorkerCountAssumption DEF Init
  <2>5. closed \in BOOLEAN /\ panicked \in BOOLEAN
    BY Zenon DEF Init
  <2> QED
    BY <2>1, <2>2, <2>3, <2>4, <2>5 DEF TypeOK
<1>2. PoolInv /\ NodesInv /\ FailInv /\ CoverInv
  BY DEF Init, PoolInv, NodesInv, FailInv, CoverInv, Busy
<1>3. FailuresAreReal /\ PassIsSound
  BY NoReplyYet DEF Init
<1> QED
  BY <1>1, <1>2, <1>3 DEF IInv

----------------------------------------------------------------------------
(* Each action preserves the invariant. *)

(* Resetting results, hosts and pool at the start of a check. *)
LEMMA StartCheckIInv == IInv /\ StartCheck => IInv'
<1> SUFFICES ASSUME IInv, StartCheck PROVE IInv'
  OBVIOUS
<1>0. PICK c \in Clusters : StartCheck!2!(c)
  BY DEF StartCheck
<1>1. CASE c.listed
  <2>1. TypeOK'
    <3>1. wpc' \in [Worker -> {"none", "recv", "inspect", "host", "report", "exit", "gone"}]
      BY <1>0, <1>1, FreshWorkers
    <3>2. wnode' \in [Worker -> Nat] /\ wres' \in [Worker -> ClusterCheckResult]
      BY <1>0, <1>1, FreshWorkers
    <3>3. /\ chan' \in Seq(Nat) /\ Len(chan') <= WorkerCount
          /\ results' \in Seq(ClusterCheckResult) /\ reply' \in Seq(ClusterCheckResult)
      BY <1>0, <1>1, WorkerCountAssumption
    <3>4. /\ main' \in {"idle", "spawn", "add", "feed", "send", "wait"} /\ cluster' \in Clusters
          /\ spawned' \in 0 .. WorkerCount /\ nextNode' \in Nat \ {0} /\ wg' \in Nat
          /\ hostESXIVersions' \subseteq HostRef
      BY <1>0, <1>1, WorkerCountAssumption DEF IInv, TypeOK
    <3>5. closed' \in BOOLEAN /\ panicked' \in BOOLEAN
      BY <1>0, <1>1, Zenon DEF IInv, TypeOK
    <3> QED
      BY <3>1, <3>2, <3>3, <3>4, <3>5 DEF TypeOK
  <2>2. PoolInv'
    BY <1>0, <1>1, WorkerCountAssumption DEF StartCheck, IInv, PoolInv, Busy, Worker
  <2>3. NodesInv' /\ FailInv' /\ CoverInv'
    BY <1>0, <1>1, ClusterTypes DEF NodesInv, FailInv, CoverInv, Busy
  <2>4. FailuresAreReal' /\ PassIsSound'
    BY <1>0, <1>1 DEF FailuresAreReal, PassIsSound, Passed
  <2> QED
    BY <2>1, <2>2, <2>3, <2>4 DEF IInv
<1>2. CASE ~c.listed
  <2> DEFINE r == MakeClusterDegradedError("openshift_api_error")
  <2>0. /\ r \in ClusterCheckResult /\ Failed(r)
        /\ <<r>> \in Seq(ClusterCheckResult) /\ DOMAIN <<r>> = {1} /\ <<r>>[1] = r
    BY ResultTypes, OneResult
  <2>a. reply' = <<r>> /\ cluster' = c
    BY <1>0, <1>2
  <2> HIDE DEF r
  <2>1. TypeOK'
    BY <1>0, <1>2, <2>0, <2>a DEF IInv, TypeOK, poolVars, workVars
  <2>2. PoolInv' /\ NodesInv' /\ FailInv' /\ CoverInv'
    BY <1>0, <1>2 DEF StartCheck, IInv, PoolInv, NodesInv, FailInv, CoverInv, Busy,
                      poolVars, workVars
  <2>3. ~cluster'.listed
    BY <2>a, <1>2
  <2>4. FailuresAreReal'
    BY <2>0, <2>a, <2>3 DEF FailuresAreReal, r
  <2>5. PassIsSound'
    BY <2>0, <2>a DEF PassIsSound, Passed
  <2> QED
    BY <2>1, <2>2, <2>4, <2>5 DEF IInv
<1> QED
  BY <1>1, <1>2

(* Starting a worker; the last one completes the pool. *)
LEMMA SpawnIInv == IInv /\ Spawn => IInv'
<1> SUFFICES ASSUME IInv, Spawn PROVE IInv'
  OBVIOUS
<1> USE WorkerCountAssumption
<1>1. FailuresAreReal' /\ PassIsSound'
  <2>1. reply' = << >>
    BY DEF Spawn, IInv, PoolInv
  <2> QED
    BY <2>1 DEF FailuresAreReal, PassIsSound, Passed
<1>2. TypeOK'
  BY SMTT(30) DEF Spawn, IInv, TypeOK, poolVars, Worker
<1>3. FailInv'
  BY DEF Spawn, IInv, TypeOK, PoolInv, FailInv, Worker
<1>4. NodesInv'
  BY ClusterTypes DEF Spawn, IInv, TypeOK, PoolInv, NodesInv, Worker, poolVars
<1>5. CASE spawned < WorkerCount
  <2>1. PoolInv'
    BY <1>5 DEF Spawn, IInv, TypeOK, PoolInv, Worker, poolVars, Busy
  <2>2. CoverInv'
    BY <1>5 DEF Spawn, CoverInv, Busy
  <2> QED
    BY <1>1, <1>2, <1>3, <1>4, <2>1, <2>2 DEF IInv
<1>6. CASE ~(spawned < WorkerCount)
  <2>1. spawned = WorkerCount /\ wg = WorkerCount /\ \A w \in Worker : wpc[w] = "recv"
    BY <1>6 DEF Spawn, IInv, TypeOK, PoolInv, Worker
  <2>2. Live' = 1 .. WorkerCount
    BY <2>1, <1>6 DEF Spawn, Live, Worker
  <2>3. Cardinality(1 .. WorkerCount) = WorkerCount
    BY FS_Interval
  <2>4. PoolInv'
    BY <1>6, <2>1, <2>2, <2>3 DEF Spawn, IInv, PoolInv, poolVars, Busy
  <2>5. CoverInv'
    BY <1>6, <2>1 DEF Spawn, IInv, PoolInv, TypeOK, CoverInv, NodesCovered, HostsCovered,
                      LeftAfterWork, poolVars
  <2> QED
    BY <1>1, <1>2, <1>3, <1>4, <2>4, <2>5 DEF IInv
<1> QED
  BY <1>5, <1>6

(* Counting the worker just started. *)
LEMMA AddIInv == IInv /\ Add => IInv'
<1> SUFFICES ASSUME IInv, Add PROVE IInv'
  OBVIOUS
<1>1. FailuresAreReal' /\ PassIsSound'
  <2>1. reply' = << >>
    BY DEF Add, IInv, PoolInv
  <2> QED
    BY <2>1 DEF FailuresAreReal, PassIsSound, Passed
<1>2. TypeOK'
  BY DEF Add, IInv, TypeOK, workVars
<1>3. FailInv'
  BY DEF Add, IInv, FailInv, RealFailure, workVars
<1>4. NodesInv'
  BY DEF Add, IInv, NodesInv, workVars
<1>5. PoolInv'
  BY DEF Add, IInv, TypeOK, PoolInv, workVars, Busy
<1>6. CoverInv'
  BY DEF Add, CoverInv, Busy
<1> QED
  BY <1>1, <1>2, <1>3, <1>4, <1>5, <1>6 DEF IInv

(* Deciding to hand out a node, or to close the channel. *)
LEMMA FeedIInv == IInv /\ Feed => IInv'
<1> SUFFICES ASSUME IInv, Feed PROVE IInv'
  OBVIOUS
<1>1. FailuresAreReal' /\ PassIsSound'
  <2>1. reply' = << >>
    BY DEF Feed, IInv, PoolInv
  <2> QED
    BY <2>1 DEF FailuresAreReal, PassIsSound, Passed
<1>a. closed' \in BOOLEAN
  BY Zenon DEF Feed, IInv, TypeOK
<1>2. TypeOK'
  BY <1>a DEF Feed, IInv, TypeOK, workVars
<1>3. FailInv'
  BY DEF Feed, IInv, FailInv, RealFailure, workVars
<1>4. NodesInv'
  BY ClusterTypes DEF Feed, IInv, TypeOK, NodesInv, workVars
<1>5. PoolInv'
  <2>1. Live' = Live
    BY DEF Feed, Live, workVars
  <2> QED
    BY <2>1 DEF Feed, IInv, PoolInv, workVars, Busy
<1>6. CoverInv'
  <2> SUFFICES ASSUME ~Bad' PROVE (NodesCovered /\ HostsCovered /\ LeftAfterWork)'
    BY DEF CoverInv
  <2>1. ~Bad /\ NodesCovered /\ HostsCovered /\ LeftAfterWork
    BY DEF Feed, IInv, CoverInv, Busy, Bad, workVars
  <2>2. NodesCovered' /\ HostsCovered'
    BY <2>1 DEF Feed, NodesCovered, HostsCovered, RefOn, workVars
  <2>3. LeftAfterWork'
    <3>1. \A w \in Worker : wpc[w] \notin {"exit", "gone"}
      BY <2>1 DEF Feed, IInv, PoolInv, LeftAfterWork
    <3>2. main' = "wait" => nextNode = Len(cluster.nodes) + 1
      BY <2>1, ClusterTypes DEF Feed, IInv, TypeOK, NodesInv, Bad
    <3> QED
      BY <3>1, <3>2 DEF Feed, LeftAfterWork, workVars
  <2> QED
    BY <2>2, <2>3
<1> QED
  BY <1>1, <1>2, <1>3, <1>4, <1>5, <1>6 DEF IInv

(* Handing a node to the channel. *)
LEMMA SendIInv == IInv /\ Send => IInv'
<1> SUFFICES ASSUME IInv, Send PROVE IInv'
  OBVIOUS
<1>1. FailuresAreReal' /\ PassIsSound'
  <2>1. reply' = << >>
    BY DEF Send, IInv, PoolInv
  <2> QED
    BY <2>1 DEF FailuresAreReal, PassIsSound, Passed
<1>a. /\ chan' \in Seq(Nat) /\ Len(chan') = Len(chan) + 1
      /\ \A i \in 1 .. Len(chan) : chan'[i] = chan[i]
      /\ chan'[Len(chan) + 1] = nextNode
      /\ Len(chan) \in Nat /\ nextNode \in Nat
  BY DEF Send, IInv, TypeOK
<1>2. TypeOK'
  BY <1>a, WorkerCountAssumption DEF Send, IInv, TypeOK, workVars
<1>3. FailInv'
  BY DEF Send, IInv, FailInv, RealFailure, workVars
<1>4. NodesInv'
  BY <1>a, ClusterTypes, SMTT(30) DEF Send, IInv, TypeOK, NodesInv, workVars
<1>5. PoolInv'
  <2>1. Live' = Live
    BY DEF Send, Live, workVars
  <2> QED
    BY <2>1 DEF Send, IInv, PoolInv, workVars, Busy
<1>6. CoverInv'
  <2> SUFFICES ASSUME ~Bad' PROVE (NodesCovered /\ HostsCovered /\ LeftAfterWork)'
    BY DEF CoverInv
  <2>1. ~Bad /\ NodesCovered /\ HostsCovered /\ LeftAfterWork
    BY DEF Send, IInv, CoverInv, Busy, Bad, workVars
  <2>2. NodesCovered'
    <3> SUFFICES ASSUME NEW n \in 1 .. nextNode' - 1 PROVE NodesCovered!(n)'
      BY DEF NodesCovered
    <3>1. CASE n = nextNode
      <4>1. Len(chan) + 1 \in 1 .. Len(chan') /\ chan'[Len(chan) + 1] = n
        BY <1>a, <3>1
      <4> QED
        BY <4>1
    <3>2. CASE n # nextNode
      <4>1. n \in 1 .. nextNode - 1
        BY <1>a, <3>2 DEF Send
      <4>2. CASE \E i \in 1 .. Len(chan) : chan[i] = n
        BY <1>a, <4>2
      <4> QED
        BY <2>1, <4>1, <4>2 DEF NodesCovered, Send, RefOn, workVars
    <3> QED
      BY <3>1, <3>2
  <2>3. HostsCovered'
    BY <2>1 DEF Send, HostsCovered, RefOn, workVars
  <2>4. LeftAfterWork'
    BY <2>1 DEF Send, IInv, PoolInv, LeftAfterWork, workVars
  <2> QED
    BY <2>2, <2>3, <2>4
<1> QED
  BY <1>1, <1>2, <1>3, <1>4, <1>5, <1>6 DEF IInv

(* When the WaitGroup lets Check go, every worker is gone. *)
LEMMA AllGone ==
  ASSUME IInv, main = "wait", wg = 0
  PROVE  \A w \in Worker : wpc[w] = "gone"
<1>1. IsFiniteSet(Live)
  <2>1. IsFiniteSet(Worker)
    BY FS_Interval, WorkerCountAssumption DEF Worker
  <2> QED
    BY <2>1, FS_Subset DEF Live
<1>2. Cardinality(Live) = 0
  BY DEF IInv, PoolInv, Busy
<1>3. Live = {}
  BY <1>1, <1>2, FS_EmptySet
<1> QED
  BY <1>3 DEF Live

(* Returning the results: here the cover of the nodes becomes a sound pass. *)
LEMMA waitForWorkFinishIInv == IInv /\ waitForWorkFinish => IInv'
<1> SUFFICES ASSUME IInv, waitForWorkFinish PROVE IInv'
  OBVIOUS
<1>1. \A w \in Worker : wpc[w] = "gone"
  BY AllGone DEF waitForWorkFinish
<1>2. PoolInv' /\ NodesInv' /\ FailInv' /\ CoverInv'
  BY <1>1 DEF waitForWorkFinish, PoolInv, NodesInv, FailInv, CoverInv, Busy, poolVars, workVars
<1>3. cluster' = cluster /\ cluster \in Clusters /\ cluster.listed
  BY DEF waitForWorkFinish, IInv, TypeOK, PoolInv
<1>4. CASE results # << >>
  <2>1. reply' = results
    BY <1>4 DEF waitForWorkFinish
  <2>2. DOMAIN reply' = 1 .. Len(results)
    BY <2>1 DEF IInv, TypeOK
  <2>3. \A i \in 1 .. Len(results) : RealFailure(results[i])
    BY DEF IInv, FailInv, waitForWorkFinish
  <2>4. TypeOK'
    BY <2>1 DEF waitForWorkFinish, IInv, TypeOK, poolVars, workVars
  <2>5. FailuresAreReal'
    BY <2>1, <2>2, <2>3, <1>3 DEF FailuresAreReal, RealFailure
  <2>6. PassIsSound'
    BY <2>1, <2>2, <2>3 DEF PassIsSound, Passed, RealFailure
  <2> QED
    BY <1>2, <2>4, <2>5, <2>6 DEF IInv
<1>5. CASE results = << >>
  <2> DEFINE r == MakeClusterCheckResultPass
  <2>0. /\ r \in ClusterCheckResult /\ ~Failed(r)
        /\ <<r>> \in Seq(ClusterCheckResult) /\ DOMAIN <<r>> = {1} /\ <<r>>[1] = r
    BY ResultTypes, OneResult
  <2>1. reply' = <<r>>
    BY <1>5 DEF waitForWorkFinish
  <2> HIDE DEF r
  <2>2. TypeOK'
    BY <2>0, <2>1 DEF waitForWorkFinish, IInv, TypeOK, poolVars, workVars
  <2>3. FailuresAreReal'
    BY <2>0, <2>1 DEF FailuresAreReal
  <2>4. NodesCovered /\ HostsCovered /\ LeftAfterWork
    BY <1>1, <1>5 DEF IInv, CoverInv, Busy, Bad, waitForWorkFinish
  <2>5. chan = << >> /\ nextNode = Len(cluster.nodes) + 1
    BY <1>1, <2>4, WorkerCountAssumption DEF LeftAfterWork, Worker, waitForWorkFinish
  <2>6. ASSUME UnambiguousRefs(cluster), NEW n \in Node(cluster)
        PROVE  Healthy(cluster, n)
    <3>1. n \in 1 .. nextNode - 1 /\ cluster.nodes[n] \in VMFacts
      BY <2>5, <1>3, ClusterTypes
    <3>2. VMGood(cluster.nodes[n]) /\ RefOn(n) \in hostESXIVersions
      BY <3>1, <2>4, <2>5, <1>1 DEF NodesCovered
    <3>3. ~Failed(HostCheck(cluster, RefOn(n)))
      BY <3>2, <2>4, <1>1 DEF HostsCovered
    <3>4. cluster.nodes[n].host \in Host
      BY <3>1, <3>2, VMGoodHasHost
    <3>5. /\ cluster.hosts[cluster.nodes[n].host].load = "ok"
          /\ ~Failed(VersionCheck(cluster, cluster.hosts[cluster.nodes[n].host].version))
      BY <2>6, <3>3, <3>4, <1>3, ClusterTypes, HostPassIsSound DEF RefOn
    <3> QED
      BY <3>2, <3>5 DEF Healthy, VMGood
  <2>7. PassIsSound'
    BY <2>6, <1>3 DEF PassIsSound
  <2> QED
    BY <1>2, <2>2, <2>3, <2>7 DEF IInv
<1> QED
  BY <1>4, <1>5

(* A worker that does anything but receive works for a check whose pool is *)
(* complete, and so does one that gets a node or finds the channel closed. *)
LEMMA WorkerIsBusy ==
  ASSUME IInv, NEW w \in Worker,
         wpc[w] \in {"recv", "inspect", "host", "report", "exit"},
         wpc[w] = "recv" => chan # << >> \/ closed
  PROVE  Busy
BY DEF IInv, TypeOK, PoolInv, Busy

(* Steps of a worker that neither end it nor touch the pool. *)
LEMMA PoolKept ==
  ASSUME IInv, Busy, NEW w \in Worker, wpc[w] # "gone",
         NEW pc \in {"recv", "inspect", "host", "report", "exit"},
         wpc' = [wpc EXCEPT ![w] = pc],
         UNCHANGED <<mainVars, wg, closed, reply>>
  PROVE  PoolInv'
<1>1. \A v \in Worker : wpc'[v] = IF v = w THEN pc ELSE wpc[v]
  BY DEF IInv, TypeOK
<1>2. Live' = Live
  BY <1>1 DEF Live
<1> QED
  BY <1>1, <1>2 DEF IInv, PoolInv, Busy, mainVars

(* A worker takes a node, or leaves a channel closed and drained. *)
LEMMA ReceiveIInv == ASSUME NEW w \in Worker PROVE IInv /\ Receive(w) => IInv'
<1> SUFFICES ASSUME IInv, Receive(w) PROVE IInv'
  OBVIOUS
<1>0. Busy /\ Busy'
  <2>1. Busy
    BY WorkerIsBusy DEF Receive
  <2> QED
    BY <2>1 DEF Busy, Receive, mainVars
<1>1. FailuresAreReal' /\ PassIsSound'
  <2>1. reply' = << >>
    BY <1>0 DEF Receive, IInv, PoolInv, Busy
  <2> QED
    BY <2>1 DEF FailuresAreReal, PassIsSound, Passed
<1>2. PICK pc \in {"inspect", "exit"} : wpc' = [wpc EXCEPT ![w] = pc]
  BY DEF Receive
<1>3. \A v \in Worker : wpc'[v] = IF v = w THEN pc ELSE wpc[v]
  BY <1>2 DEF IInv, TypeOK
<1>4. PoolInv'
  BY <1>0, <1>2, PoolKept DEF Receive
<1>5. FailInv'
  BY <1>0, <1>3 DEF Receive, IInv, FailInv, RealFailure, mainVars, Busy
<1>6. CASE chan # << >> /\ wnode' = [wnode EXCEPT ![w] = Head(chan)]
             /\ chan' = Tail(chan) /\ pc = "inspect"
  <2>1. /\ Len(chan) \in Nat \ {0} /\ Len(chan') = Len(chan) - 1 /\ chan' \in Seq(Nat)
        /\ \A i \in 1 .. Len(chan') : chan'[i] = chan[i + 1]
        /\ \A i \in 2 .. Len(chan) : chan[i] = chan'[i - 1]
        /\ Head(chan) = chan[1] /\ chan[1] \in Nat
    BY <1>6 DEF IInv, TypeOK
  <2>2. \A v \in Worker : wnode'[v] = IF v = w THEN chan[1] ELSE wnode[v]
    BY <1>6, <2>1 DEF IInv, TypeOK
  <2>3. TypeOK'
    <3>1. wnode' \in [Worker -> Nat]
      BY <1>6, <2>1 DEF IInv, TypeOK
    <3>2. wpc' \in [Worker -> {"none", "recv", "inspect", "host", "report", "exit", "gone"}]
      BY <1>2 DEF IInv, TypeOK
    <3>3. Len(chan') <= WorkerCount
      BY <2>1, WorkerCountAssumption DEF IInv, TypeOK
    <3> QED
      BY <2>1, <3>1, <3>2, <3>3 DEF Receive, IInv, TypeOK, mainVars
  <2>4. NodesInv'
    <3>1. NodesInv!2 /\ UNCHANGED <<main, cluster, nextNode>>
      BY <1>0 DEF Receive, IInv, NodesInv, mainVars, Busy
    <3>2. \A i \in 1 .. Len(chan') : chan'[i] \in 1 .. nextNode - 1
      BY <2>1, <3>1
    <3>3. chan[1] \in 1 .. nextNode - 1
      BY <2>1, <3>1
    <3>4. \A v \in Worker : wpc'[v] \in {"inspect", "host"} => wnode'[v] \in 1 .. nextNode - 1
      BY <1>3, <2>2, <3>1, <3>3
    <3>5. \A v \in Worker : wpc'[v] = "host" => VMGood(cluster.nodes[wnode'[v]])
      BY <1>3, <1>6, <2>2, <3>1
    <3> QED
      BY <3>1, <3>2, <3>4, <3>5 DEF NodesInv
  <2>5. CoverInv'
    <3> SUFFICES ASSUME ~Bad' PROVE (NodesCovered /\ HostsCovered /\ LeftAfterWork)'
      BY DEF CoverInv
    <3>1. ~Bad /\ NodesCovered /\ HostsCovered /\ LeftAfterWork
      BY <1>0, <1>3, <1>6 DEF Receive, IInv, CoverInv, Bad
    <3>2. NodesCovered'
      <4> SUFFICES ASSUME NEW n \in 1 .. nextNode' - 1 PROVE NodesCovered!(n)'
        BY DEF NodesCovered
      <4>1. n \in 1 .. nextNode - 1
        BY DEF Receive, mainVars
      <4>2. CASE \E i \in 1 .. Len(chan) : chan[i] = n
        <5>1. PICK i \in 1 .. Len(chan) : chan[i] = n
          BY <4>2
        <5>2. CASE i = 1
          BY <1>3, <1>6, <2>2, <5>1, <5>2
        <5>3. CASE i # 1
          <6>1. i - 1 \in 1 .. Len(chan') /\ chan'[i - 1] = n
            BY <2>1, <5>1, <5>3
          <6> QED
            BY <6>1
        <5> QED
          BY <5>2, <5>3
      <4>3. CASE \E v \in Worker : wpc[v] = "inspect" /\ wnode[v] = n
        BY <4>3, <1>3, <2>2 DEF Receive
      <4>4. CASE VMGood(cluster.nodes[n]) /\ RefOn(n) \in hostESXIVersions
        BY <4>4 DEF Receive, mainVars, RefOn
      <4> QED
        BY <3>1, <4>1, <4>2, <4>3, <4>4 DEF NodesCovered
    <3>3. HostsCovered'
      BY <3>1, <1>3, <2>2 DEF Receive, HostsCovered, RefOn, mainVars
    <3>4. LeftAfterWork'
      BY <3>1, <1>3, <1>6 DEF Receive, LeftAfterWork, mainVars
    <3> QED
      BY <3>2, <3>3, <3>4
  <2> QED
    BY <1>1, <1>4, <1>5, <2>3, <2>4, <2>5 DEF IInv
<1>7. CASE chan = << >> /\ closed /\ pc = "exit" /\ UNCHANGED <<wnode, chan>>
  <2>1. TypeOK'
    BY <1>2, <1>7 DEF Receive, IInv, TypeOK, mainVars
  <2>2. NodesInv'
    BY <1>0, <1>3, <1>7 DEF Receive, IInv, NodesInv, mainVars, Busy
  <2>3. CoverInv'
    <3> SUFFICES ASSUME ~Bad' PROVE (NodesCovered /\ HostsCovered /\ LeftAfterWork)'
      BY DEF CoverInv
    <3>1. ~Bad /\ NodesCovered /\ HostsCovered /\ LeftAfterWork
      BY <1>0, <1>3, <1>7 DEF Receive, IInv, CoverInv, Bad
    <3>2. NodesCovered' /\ HostsCovered'
      BY <3>1, <1>3, <1>7 DEF Receive, NodesCovered, HostsCovered, RefOn, mainVars
    <3>3. LeftAfterWork'
      BY <3>1, <1>3, <1>7 DEF Receive, LeftAfterWork, mainVars
    <3> QED
      BY <3>2, <3>3
  <2> QED
    BY <1>1, <1>4, <1>5, <2>1, <2>2, <2>3 DEF IInv
<1>8. \/ chan # << >> /\ wnode' = [wnode EXCEPT ![w] = Head(chan)]
             /\ chan' = Tail(chan) /\ pc = "inspect"
      \/ chan = << >> /\ closed /\ pc = "exit" /\ UNCHANGED <<wnode, chan>>
  BY <1>2, <1>3 DEF Receive, IInv, TypeOK
<1> QED
  BY <1>6, <1>7, <1>8

(* The node in the hands of a worker is a node of the cluster. *)
LEMMA NodeInHand ==
  ASSUME IInv, Busy, NEW w \in Worker, wpc[w] \in {"inspect", "host"}
  PROVE  /\ wnode[w] \in Node(cluster) /\ wnode[w] \in 1 .. nextNode - 1
         /\ cluster.nodes[wnode[w]] \in VMFacts
         /\ wpc[w] = "host" => VMGood(cluster.nodes[wnode[w]])
         /\ cluster \in ClusterFacts
<1>1. NodesInv!2 /\ cluster \in Clusters /\ nextNode \in Nat
  BY DEF IInv, TypeOK, NodesInv, Busy
<1>2. wnode[w] \in 1 .. nextNode - 1 /\ wnode[w] \in Node(cluster)
  BY <1>1, ClusterTypes
<1> QED
  BY <1>1, <1>2, ClusterTypes

(* A worker looks at the VM of its node and may take on its host. *)
LEMMA InspectIInv == ASSUME NEW w \in Worker PROVE IInv /\ Inspect(w) => IInv'
<1> SUFFICES ASSUME IInv, Inspect(w) PROVE IInv'
  OBVIOUS
<1> DEFINE n   == wnode[w]
           vm  == cluster.nodes[n]
           ref == cluster.hosts[vm.host].ref
<1>0. Busy /\ Busy' /\ wpc[w] = "inspect"
  <2>1. Busy
    BY WorkerIsBusy DEF Inspect
  <2> QED
    BY <2>1 DEF Busy, Inspect, mainVars
<1>n. n \in Node(cluster) /\ vm \in VMFacts /\ cluster \in ClusterFacts
  BY <1>0, NodeInHand
<1>1. FailuresAreReal' /\ PassIsSound'
  <2>1. reply' = << >>
    BY <1>0 DEF Inspect, IInv, PoolInv, Busy
  <2> QED
    BY <2>1 DEF FailuresAreReal, PassIsSound, Passed
<1>2. CASE VMPanics(vm) /\ panicked' = TRUE /\ UNCHANGED <<wpc, wres, hostESXIVersions>>
  <2>0. panicked' \in BOOLEAN
    BY <1>2, Zenon
  <2>1. TypeOK'
    BY <1>2, <2>0 DEF Inspect, IInv, TypeOK, mainVars, poolVars
  <2>2. PoolInv' /\ NodesInv' /\ FailInv'
    BY <1>2 DEF Inspect, IInv, PoolInv, NodesInv, FailInv, RealFailure, Busy, Live,
                mainVars, poolVars
  <2>3. CoverInv'
    BY <1>2 DEF Inspect, IInv, CoverInv, NodesCovered, HostsCovered, LeftAfterWork, Bad,
                RefOn, Busy, mainVars, poolVars
  <2> QED
    BY <1>1, <2>1, <2>2, <2>3 DEF IInv
<1>3. CASE /\ ~VMPanics(vm) /\ Failed(VMCheck(vm))
           /\ wres' = [wres EXCEPT ![w] = VMCheck(vm)]
           /\ wpc' = [wpc EXCEPT ![w] = "report"]
           /\ UNCHANGED <<hostESXIVersions, panicked>>
  <2>1. /\ \A v \in Worker : wpc'[v] = IF v = w THEN "report" ELSE wpc[v]
        /\ \A v \in Worker : wres'[v] = IF v = w THEN VMCheck(vm) ELSE wres[v]
    BY <1>3 DEF IInv, TypeOK
  <2>2. TypeOK'
    <3>1. wres' \in [Worker -> ClusterCheckResult]
      BY <1>3, <1>n, VMCheckType DEF IInv, TypeOK
    <3> QED
      BY <1>3, <3>1 DEF Inspect, IInv, TypeOK, mainVars, poolVars
  <2>3. PoolInv'
    BY <1>0, <1>3, PoolKept DEF Inspect, poolVars
  <2>4. NodesInv'
    BY <2>1 DEF Inspect, IInv, NodesInv, mainVars, poolVars
  <2>5. FailInv'
    <3>1. VMCheck(vm) \in NodeFailures(cluster, n)
      BY <1>3 DEF NodeFailures
    <3>2. RealFailure(VMCheck(vm))
      BY <1>3, <1>n, <3>1 DEF RealFailure
    <3>3. FailInv!2 /\ results' = results
      BY <1>0 DEF IInv, FailInv, Busy, Inspect
    <3> QED
      BY <2>1, <3>2, <3>3 DEF FailInv, RealFailure, Inspect, mainVars
  <2>6. CoverInv'
    BY <2>1 DEF CoverInv, Bad
  <2> QED
    BY <1>1, <2>2, <2>3, <2>4, <2>5, <2>6 DEF IInv
<1>4. CASE /\ ~VMPanics(vm) /\ ~Failed(VMCheck(vm))
           /\ wpc' = [wpc EXCEPT ![w] = IF ref \in hostESXIVersions THEN "recv" ELSE "host"]
           /\ hostESXIVersions' = hostESXIVersions \cup {ref}
           /\ UNCHANGED <<wres, panicked>>
  <2> DEFINE pc == IF ref \in hostESXIVersions THEN "recv" ELSE "host"
  <2>0. VMGood(vm) /\ ref \in HostRef
    <3>1. VMGood(vm)
      BY <1>4 DEF VMGood
    <3>2. vm.host \in Host
      BY <3>1, <1>n, VMGoodHasHost
    <3> QED
      BY <3>1, <3>2, <1>n DEF ClusterFacts, HostFacts
  <2>1. /\ \A v \in Worker : wpc'[v] = IF v = w THEN pc ELSE wpc[v]
        /\ pc \in {"recv", "host"}
    BY <1>4 DEF IInv, TypeOK
  <2>2. TypeOK'
    BY <1>4, <2>0 DEF Inspect, IInv, TypeOK, mainVars, poolVars
  <2>3. PoolInv'
    BY <1>0, <1>4, <2>1, PoolKept DEF Inspect, poolVars
  <2>4. NodesInv'
    <3>1. NodesInv!2 /\ UNCHANGED <<main, cluster, nextNode, chan, wnode>>
      BY <1>0 DEF Inspect, IInv, NodesInv, mainVars, poolVars, Busy
    <3>2. \A v \in Worker : wpc'[v] = "host" => VMGood(cluster.nodes[wnode[v]])
      BY <2>0, <2>1, <3>1
    <3>3. \A v \in Worker : wpc'[v] \in {"inspect", "host"} => wnode[v] \in 1 .. nextNode - 1
      BY <1>0, <2>1, <3>1
    <3> QED
      BY <3>1, <3>2, <3>3 DEF NodesInv
  <2>5. FailInv'
    BY <1>0, <1>4, <2>1 DEF Inspect, IInv, FailInv, RealFailure, Busy, mainVars
  <2>6. CoverInv'
    <3> SUFFICES ASSUME ~Bad' PROVE (NodesCovered /\ HostsCovered /\ LeftAfterWork)'
      BY DEF CoverInv
    <3>1. ~Bad /\ NodesCovered /\ HostsCovered /\ LeftAfterWork
      BY <1>0, <2>1 DEF Inspect, IInv, CoverInv, Bad
    <3>2. UNCHANGED <<main, cluster, nextNode, chan, closed, wnode>>
      BY DEF Inspect, mainVars, poolVars
    <3>3. \A m : RefOn(m)' = RefOn(m)
      BY <3>2 DEF RefOn
    <3>4. NodesCovered'
      <4> SUFFICES ASSUME NEW m \in 1 .. nextNode' - 1 PROVE NodesCovered!(m)'
        BY DEF NodesCovered
      <4>1. NodesCovered!(m)
        BY <3>1, <3>2 DEF NodesCovered
      <4>2. CASE m = n
        BY <4>2, <2>0, <1>4, <3>2 DEF RefOn
      <4>3. CASE m # n
        BY <4>1, <4>3, <2>1, <1>4, <3>2 DEF RefOn
      <4> QED
        BY <4>2, <4>3
    <3>5. HostsCovered'
      <4> SUFFICES ASSUME NEW r \in hostESXIVersions' PROVE HostsCovered!(r)'
        BY DEF HostsCovered
      <4>1. CASE r \in hostESXIVersions
        BY <4>1, <3>1, <3>2, <2>1, <1>0 DEF HostsCovered, RefOn
      <4>2. CASE r \notin hostESXIVersions
        <5>1. r = ref /\ wpc'[w] = "host"
          BY <4>2, <1>4, <2>1
        <5> QED
          BY <5>1, <3>2 DEF RefOn
      <4> QED
        BY <4>1, <4>2
    <3>6. LeftAfterWork'
      BY <3>1, <3>2, <2>1 DEF LeftAfterWork
    <3> QED
      BY <3>4, <3>5, <3>6
  <2> QED
    BY <1>1, <2>2, <2>3, <2>4, <2>5, <2>6 DEF IInv
<1> QED
  BY <1>2, <1>3, <1>4 DEF Inspect

(* A worker looks at the host it took on. *)
LEMMA InspectHostIInv == ASSUME NEW w \in Worker PROVE IInv /\ InspectHost(w) => IInv'
<1> SUFFICES ASSUME IInv, InspectHost(w) PROVE IInv'
  OBVIOUS
<1> DEFINE n   == wnode[w]
           vm  == cluster.nodes[n]
           ref == cluster.hosts[vm.host].ref
           res == HostCheck(cluster, ref)
<1>0. Busy /\ Busy' /\ wpc[w] = "host"
  <2>1. Busy
    BY WorkerIsBusy DEF InspectHost
  <2> QED
    BY <2>1 DEF Busy, InspectHost, mainVars
<1>n. n \in Node(cluster) /\ vm \in VMFacts /\ cluster \in ClusterFacts /\ VMGood(vm)
  BY <1>0, NodeInHand
<1>h. vm.host \in Host /\ ref \in HostRef
  <2>1. vm.host \in Host
    BY <1>n, VMGoodHasHost
  <2> QED
    BY <2>1, <1>n DEF ClusterFacts, HostFacts
<1>1. FailuresAreReal' /\ PassIsSound'
  <2>1. reply' = << >>
    BY <1>0 DEF InspectHost, IInv, PoolInv, Busy
  <2> QED
    BY <2>1 DEF FailuresAreReal, PassIsSound, Passed
<1>2. CASE /\ Failed(res)
           /\ wres' = [wres EXCEPT ![w] = res]
           /\ wpc' = [wpc EXCEPT ![w] = "report"]
  <2>1. /\ \A v \in Worker : wpc'[v] = IF v = w THEN "report" ELSE wpc[v]
        /\ \A v \in Worker : wres'[v] = IF v = w THEN res ELSE wres[v]
    BY <1>2 DEF IInv, TypeOK
  <2>2. TypeOK'
    <3>1. wres' \in [Worker -> ClusterCheckResult]
      BY <1>2, <1>n, <1>h, HostCheckType DEF IInv, TypeOK
    <3> QED
      BY <1>2, <3>1 DEF InspectHost, IInv, TypeOK, mainVars, poolVars
  <2>3. PoolInv'
    BY <1>0, <1>2, PoolKept DEF InspectHost, poolVars
  <2>4. NodesInv'
    BY <2>1 DEF InspectHost, IInv, NodesInv, mainVars, poolVars
  <2>5. FailInv'
    <3>1. vm.host # NoHost
      BY <1>h, NoHostAssumption
    <3>2. res \in NodeFailures(cluster, n)
      BY <1>2, <3>1 DEF NodeFailures
    <3>3. RealFailure(res)
      BY <1>2, <1>n, <3>2 DEF RealFailure
    <3>4. FailInv!2 /\ results' = results
      BY <1>0 DEF IInv, FailInv, Busy, InspectHost
    <3> QED
      BY <2>1, <3>3, <3>4 DEF FailInv, RealFailure, InspectHost, mainVars
  <2>6. CoverInv'
    BY <2>1 DEF CoverInv, Bad
  <2> QED
    BY <1>1, <2>2, <2>3, <2>4, <2>5, <2>6 DEF IInv
<1>3. CASE ~Failed(res) /\ wpc' = [wpc EXCEPT ![w] = "recv"] /\ UNCHANGED wres
  <2>1. \A v \in Worker : wpc'[v] = IF v = w THEN "recv" ELSE wpc[v]
    BY <1>3 DEF IInv, TypeOK
  <2>2. TypeOK'
    BY <1>3 DEF InspectHost, IInv, TypeOK, mainVars, poolVars
  <2>3. PoolInv'
    BY <1>0, <1>3, PoolKept DEF InspectHost, poolVars
  <2>4. NodesInv'
    BY <2>1 DEF InspectHost, IInv, NodesInv, mainVars, poolVars
  <2>5. FailInv'
    BY <1>0, <1>3, <2>1 DEF InspectHost, IInv, FailInv, RealFailure, Busy, mainVars
  <2>6. CoverInv'
    <3> SUFFICES ASSUME ~Bad' PROVE (NodesCovered /\ HostsCovered /\ LeftAfterWork)'
      BY DEF CoverInv
    <3>1. ~Bad /\ NodesCovered /\ HostsCovered /\ LeftAfterWork
      BY <1>0, <2>1 DEF InspectHost, IInv, CoverInv, Bad
    <3>2. UNCHANGED <<main, cluster, nextNode, chan, closed, wnode, hostESXIVersions>>
      BY DEF InspectHost, mainVars, poolVars
    <3>3. NodesCovered'
      BY <3>1, <3>2, <2>1, <1>0 DEF NodesCovered, RefOn
    <3>4. HostsCovered'
      <4> SUFFICES ASSUME NEW r \in hostESXIVersions PROVE HostsCovered!(r)'
        BY <3>2 DEF HostsCovered
      <4>1. CASE r = ref
        BY <4>1, <1>3, <3>2
      <4>2. CASE r # ref
        BY <4>2, <3>1, <3>2, <2>1 DEF HostsCovered, RefOn
      <4> QED
        BY <4>1, <4>2
    <3>5. LeftAfterWork'
      BY <3>1, <3>2, <2>1 DEF LeftAfterWork
    <3> QED
      BY <3>3, <3>4, <3>5
  <2> QED
    BY <1>1, <2>2, <2>3, <2>4, <2>5, <2>6 DEF IInv
<1> QED
  BY <1>2, <1>3 DEF InspectHost

(* A worker reports the failure it met. *)
LEMMA addResultIInv == ASSUME NEW w \in Worker PROVE IInv /\ addResult(w) => IInv'
<1> SUFFICES ASSUME IInv, addResult(w) PROVE IInv'
  OBVIOUS
<1>0. Busy /\ Busy' /\ wpc[w] = "report"
  <2>1. Busy
    BY WorkerIsBusy DEF addResult
  <2> QED
    BY <2>1 DEF Busy, addResult, mainVars
<1>1. FailuresAreReal' /\ PassIsSound'
  <2>1. reply' = << >>
    BY <1>0 DEF addResult, IInv, PoolInv, Busy
  <2> QED
    BY <2>1 DEF FailuresAreReal, PassIsSound, Passed
<1>2. \A v \in Worker : wpc'[v] = IF v = w THEN "exit" ELSE wpc[v]
  BY DEF addResult, IInv, TypeOK
<1>3. /\ results' \in Seq(ClusterCheckResult) /\ Len(results') = Len(results) + 1
      /\ \A i \in 1 .. Len(results) : results'[i] = results[i]
      /\ results'[Len(results) + 1] = wres[w] /\ Len(results) \in Nat
  BY DEF addResult, IInv, TypeOK
<1>4. TypeOK'
  <2>1. wpc' \in [Worker -> {"none", "recv", "inspect", "host", "report", "exit", "gone"}]
    BY DEF addResult, IInv, TypeOK
  <2> QED
    BY <1>3, <2>1 DEF addResult, IInv, TypeOK, mainVars, poolVars
<1>5. PoolInv'
  BY <1>0, PoolKept DEF addResult, poolVars
<1>6. NodesInv'
  BY <1>2 DEF addResult, IInv, NodesInv, mainVars, poolVars
<1>7. FailInv'
  <2>1. FailInv!2 /\ RealFailure(wres[w])
    BY <1>0 DEF IInv, FailInv, Busy
  <2>2. \A i \in 1 .. Len(results') : RealFailure(results'[i])
    BY <1>3, <2>1
  <2> QED
    BY <1>2, <2>1, <2>2 DEF FailInv, RealFailure, addResult, mainVars
<1>8. CoverInv'
  <2>1. results' # << >>
    BY <1>3
  <2> QED
    BY <2>1 DEF CoverInv, Bad
<1> QED
  BY <1>1, <1>4, <1>5, <1>6, <1>7, <1>8 DEF IInv

(* A worker leaves the WaitGroup. *)
LEMMA DoneIInv == ASSUME NEW w \in Worker PROVE IInv /\ Done(w) => IInv'
<1> SUFFICES ASSUME IInv, Done(w) PROVE IInv'
  OBVIOUS
<1>0. Busy /\ Busy' /\ wpc[w] = "exit"
  <2>1. Busy
    BY WorkerIsBusy DEF Done
  <2> QED
    BY <2>1 DEF Busy, Done, mainVars
<1>1. FailuresAreReal' /\ PassIsSound'
  <2>1. reply' = << >>
    BY <1>0 DEF Done, IInv, PoolInv, Busy
  <2> QED
    BY <2>1 DEF FailuresAreReal, PassIsSound, Passed
<1>2. \A v \in Worker : wpc'[v] = IF v = w THEN "gone" ELSE wpc[v]
  BY DEF Done, IInv, TypeOK
<1>3. wg' = Cardinality(Live') /\ wg' \in Nat
  <2>1. IsFiniteSet(Live) /\ w \in Live
    <3>1. IsFiniteSet(Worker)
      BY FS_Interval, WorkerCountAssumption DEF Worker
    <3> QED
      BY <3>1, <1>0, FS_Subset DEF Live
  <2>2. Live' = Live \ {w}
    BY <1>2 DEF Live
  <2>3. /\ IsFiniteSet(Live \ {w})
        /\ Cardinality(Live \ {w}) = Cardinality(Live) - 1
    BY <2>1, FS_RemoveElement
  <2>4. Cardinality(Live \ {w}) \in Nat
    BY <2>3, FS_CardinalityType
  <2>5. wg' = Cardinality(Live) - 1
    BY <1>0 DEF IInv, PoolInv, Done
  <2> QED
    BY <2>2, <2>3, <2>4, <2>5
<1>4. TypeOK'
  <2>1. wpc' \in [Worker -> {"none", "recv", "inspect", "host", "report", "exit", "gone"}]
    BY DEF Done, IInv, TypeOK
  <2> QED
    BY <1>3, <2>1 DEF Done, IInv, TypeOK, mainVars
<1>5. PoolInv'
  BY <1>0, <1>2, <1>3 DEF Done, IInv, PoolInv, Busy, mainVars
<1>6. NodesInv'
  BY <1>2 DEF Done, IInv, NodesInv, mainVars
<1>7. FailInv'
  BY <1>0, <1>2 DEF Done, IInv, FailInv, RealFailure, Busy, mainVars
<1>8. CoverInv'
  <2> SUFFICES ASSUME ~Bad' PROVE (NodesCovered /\ HostsCovered /\ LeftAfterWork)'
    BY DEF CoverInv
  <2>1. ~Bad /\ NodesCovered /\ HostsCovered /\ LeftAfterWork
    BY <1>0, <1>2 DEF Done, IInv, CoverInv, Bad
  <2>2. NodesCovered' /\ HostsCovered'
    BY <2>1, <1>0, <1>2 DEF Done, NodesCovered, HostsCovered, RefOn, mainVars
  <2>3. LeftAfterWork'
    BY <2>1, <1>0, <1>2 DEF Done, LeftAfterWork, mainVars
  <2> QED
    BY <2>2, <2>3
<1> QED
  BY <1>1, <1>4, <1>5, <1>6, <1>7, <1>8 DEF IInv

(* The process starts again after a panic. *)
LEMMA RestartIInv == IInv /\ Restart => IInv'
<1> SUFFICES ASSUME IInv, Restart PROVE IInv'
  OBVIOUS
<1>1. TypeOK'
  <2>1. wpc' \in [Worker -> {"none", "recv", "inspect", "host", "report", "exit", "gone"}]
    BY FreshWorkers DEF Restart
  <2>2. wnode' \in [Worker -> Nat] /\ wres' \in [Worker -> ClusterCheckResult]
    BY FreshWorkers DEF Restart
  <2>3. /\ chan' \in Seq(Nat) /\ Len(chan') <= WorkerCount
        /\ results' \in Seq(ClusterCheckResult) /\ reply' \in Seq(ClusterCheckResult)
    BY WorkerCountAssumption DEF Restart
  <2>4. /\ main' \in {"idle", "spawn", "add", "feed", "send", "wait"} /\ cluster' \in Clusters
        /\ spawned' \in 0 .. WorkerCount /\ nextNode' \in Nat \ {0} /\ wg' \in Nat
        /\ hostESXIVersions' \subseteq HostRef
    BY WorkerCountAssumption DEF Restart, IInv, TypeOK
  <2>5. closed' \in BOOLEAN /\ panicked' \in BOOLEAN
    BY Zenon DEF Restart
  <2> QED
    BY <2>1, <2>2, <2>3, <2>4, <2>5 DEF TypeOK
<1>2. PoolInv' /\ NodesInv' /\ FailInv' /\ CoverInv'
  BY DEF Restart, PoolInv, NodesInv, FailInv, CoverInv, Busy
<1>3. FailuresAreReal' /\ PassIsSound'
  BY DEF Restart, FailuresAreReal, PassIsSound, Passed
<1> QED
  BY <1>1, <1>2, <1>3 DEF IInv

(* A step that changes nothing. *)
LEMMA StutterIInv == IInv /\ UNCHANGED vars => IInv'
<1> SUFFICES ASSUME IInv, UNCHANGED vars PROVE IInv'
  OBVIOUS
<1> USE DEF vars, mainVars, poolVars, workVars
<1>1. TypeOK' /\ NodesInv'
  BY DEF IInv, TypeOK, NodesInv
<1>2. PoolInv'
  BY DEF IInv, PoolInv, Live, Busy
<1>3. FailInv' /\ FailuresAreReal' /\ PassIsSound'
  BY DEF IInv, FailInv, RealFailure, FailuresAreReal, PassIsSound, Passed
<1>4. CoverInv'
  BY DEF IInv, CoverInv, Busy, Bad, NodesCovered, HostsCovered, LeftAfterWork, RefOn
<1> QED
  BY <1>1, <1>2, <1>3, <1>4 DEF IInv

(* Every step preserves the invariant. *)
LEMMA NextIInv == IInv /\ [Next]_vars => IInv'
<1>1. ASSUME NEW w \in Worker, IInv, runWorker(w) PROVE IInv'
  BY <1>1, ReceiveIInv, InspectIInv, InspectHostIInv, addResultIInv, DoneIInv DEF runWorker
<1>2. IInv /\ Check => IInv'
  BY SpawnIInv, AddIInv, FeedIInv, SendIInv, waitForWorkFinishIInv DEF Check
<1> QED
  BY <1>1, <1>2, StartCheckIInv, RestartIInv, StutterIInv DEF Next

----------------------------------------------------------------------------
(* The theorems. *)

(* The types hold: workChannel never holds more than workerCount nodes and *)
(* wg.Done never takes the WaitGroup below zero, for any size of the pool. *)
THEOREM TypeCorrect == Spec => []TypeOK
<1>1. IInv => TypeOK
  BY DEF IInv
<1> QED
  BY InitIInv, NextIInv, <1>1, PTL DEF Spec

(* Check never returns before the last worker it started has ended, though *)
(* wg.Add comes after the go statement it counts.                          *)
THEOREM AllWorkersAwaited == Spec => []NoWorkerAfterReturn
<1>1. IInv => NoWorkerAfterReturn
  BY DEF IInv, PoolInv, NoWorkerAfterReturn
<1> QED
  BY InitIInv, NextIInv, <1>1, PTL DEF Spec

(* Every failure Check returns is that of a node of this check. *)
THEOREM ResultsAreReal == Spec => []FailuresAreReal
<1>1. IInv => FailuresAreReal
  BY DEF IInv
<1> QED
  BY InitIInv, NextIInv, <1>1, PTL DEF Spec

(* Check passes a cluster only if every node and every host below one is   *)
(* good, for any number of nodes, hosts and workers and any interleaving,  *)
(* as long as host references are unambiguous.                             *)
THEOREM PassSoundness == Spec => []PassIsSound
<1>1. IInv => PassIsSound
  BY DEF IInv
<1> QED
  BY InitIInv, NextIInv, <1>1, PTL DEF Spec

(* No failure of a node comes with the action of a pass. *)
LEMMA FailuresAct ==
  ASSUME NEW c, NEW n, NEW r \in NodeFailures(c, n)
  PROVE  r.action > CheckActionPass
<1> USE DEF Result, MakeClusterDegradedError, makeDeprecatedEnvironmentError,
            MakeClusterUnupgradeableError, CheckActionPass,
            CheckActionDegrade, CheckActionBlockUpgrade, CheckActionBlockUpgradeOrDegrade
<1>1. \A vm : \/ VMCheck(vm) = MakeClusterCheckResultPass
              \/ VMCheck(vm).action > CheckActionPass
  BY DEF VMCheck
<1>2. \A version : \/ VersionCheck(c, version) = MakeClusterCheckResultPass
                   \/ VersionCheck(c, version).action > CheckActionPass
  BY DEF VersionCheck
<1>3. \A ref : \/ HostCheck(c, ref) = MakeClusterCheckResultPass
               \/ HostCheck(c, ref).action > CheckActionPass
  BY <1>2 DEF HostCheck
<1>4. ~Failed(MakeClusterCheckResultPass)
  <2>1. MakeClusterCheckResultPass.status = "pass"
    BY DEF MakeClusterCheckResultPass
  <2> QED
    BY <2>1, Zenon DEF Failed
<1> QED
  BY <1>1, <1>3, <1>4, Zenon DEF NodeFailures

(* Whatever NodeChecker returns is what CompositeCheck assumes of it: a    *)
(* failure always has an action, so the merge never takes it for a pass.   *)
THEOREM RepliesAct == Spec => []IsCheckerReply(reply)
<1>1. TypeOK /\ FailuresAreReal => IsCheckerReply(reply)
  <2> SUFFICES ASSUME TypeOK, FailuresAreReal, NEW i \in DOMAIN reply, Failed(reply[i])
               PROVE  reply[i].action > CheckActionPass
    BY DEF TypeOK, IsCheckerReply
  <2>1. CASE reply[i] = MakeClusterDegradedError("openshift_api_error")
    BY <2>1 DEF MakeClusterDegradedError, Result, CheckActionDegrade, CheckActionPass
  <2>2. CASE \E n \in Node(cluster) : reply[i] \in NodeFailures(cluster, n)
    BY <2>2, FailuresAct
  <2> QED
    BY <2>1, <2>2 DEF FailuresAreReal
<1> QED
  BY <1>1, TypeCorrect, ResultsAreReal, PTL

----------------------------------------------------------------------------
(* Check is not stuck, and every step brings it nearer to its end.         *)

(* Somebody can take a step: Check itself, a worker, or the kubelet. *)
CanStep ==
  \/ panicked
  \/ main \in {"spawn", "add", "feed"}
  \/ main = "send" /\ Len(chan) < WorkerCount
  \/ main = "wait" /\ wg = 0
  \/ \E w \in Worker : \/ wpc[w] \in {"inspect", "host", "report", "exit"}
                       \/ wpc[w] = "recv" /\ (chan # << >> \/ closed)

(* Workers with a node in hand, or gone for one. *)
Took == {w \in Worker : wpc[w] \notin {"none", "recv"}}

(* Until the channel is closed a worker gets to leave its loop only with a *)
(* node, and nodes in the channel and in its hands were handed out.        *)
TookInv ==
  main \in {"feed", "send"} => Len(chan) + Cardinality(Took) <= nextNode - 1

(* Workers are finitely many. *)
LEMMA Workers ==
  /\ IsFiniteSet(Worker) /\ Cardinality(Worker) = WorkerCount
  /\ \A S \in SUBSET Worker : IsFiniteSet(S) /\ Cardinality(S) \in Nat
<1>1. IsFiniteSet(Worker) /\ Cardinality(Worker) = WorkerCount
  BY FS_Interval, WorkerCountAssumption DEF Worker
<1> QED
  BY <1>1, FS_Subset, FS_CardinalityType

(* How a set of workers changes with one of them. *)
LEMMA OneWorker ==
  ASSUME NEW w \in Worker, NEW S \in SUBSET Worker, NEW T \in SUBSET Worker,
         \A v \in Worker \ {w} : v \in S <=> v \in T
  PROVE  Cardinality(T) = Cardinality(S) - (IF w \in S THEN 1 ELSE 0)
                                         + (IF w \in T THEN 1 ELSE 0)
<1>1. /\ IsFiniteSet(S) /\ Cardinality(S) \in Nat
      /\ IsFiniteSet(T) /\ Cardinality(T) \in Nat
  BY Workers
<1>2. CASE w \in S /\ w \in T
  <2>1. S = T
    BY <1>2
  <2> QED
    BY <1>1, <1>2, <2>1
<1>3. CASE w \notin S /\ w \notin T
  <2>1. S = T
    BY <1>3
  <2> QED
    BY <1>1, <1>3, <2>1
<1>4. CASE w \in S /\ w \notin T
  <2>1. T = S \ {w}
    BY <1>4
  <2>2. Cardinality(S \ {w}) = Cardinality(S) - 1
    BY <1>1, <1>4, FS_RemoveElement
  <2> QED
    BY <1>1, <1>4, <2>1, <2>2
<1>5. CASE w \notin S /\ w \in T
  <2>1. T = S \cup {w}
    BY <1>5
  <2>2. Cardinality(S \cup {w}) = Cardinality(S) + 1
    BY <1>1, <1>5, FS_AddElement
  <2> QED
    BY <1>1, <1>5, <2>1, <2>2
<1> QED
  BY <1>2, <1>3, <1>4, <1>5

(* What a step of a worker is. *)
LEMMA WorkerSteps ==
  ASSUME IInv, NEW w \in Worker, runWorker(w)
  PROVE  /\ Busy /\ UNCHANGED mainVars /\ closed' = closed
         /\ \/ /\ panicked = FALSE /\ panicked' = TRUE /\ UNCHANGED <<wpc, chan>>
            \/ /\ panicked = FALSE /\ panicked' = FALSE
               /\ \E next : /\ wpc' = [wpc EXCEPT ![w] = next]
                            /\ \/ /\ wpc[w] = "recv" /\ next = "inspect"
                                  /\ chan # << >> /\ chan' = Tail(chan)
                               \/ /\ wpc[w] = "recv" /\ next = "exit" /\ closed /\ chan' = chan
                               \/ /\ wpc[w] = "inspect" /\ next \in {"recv", "host", "report"}
                                  /\ chan' = chan
                               \/ /\ wpc[w] = "host" /\ next \in {"recv", "report"} /\ chan' = chan
                               \/ wpc[w] = "report" /\ next = "exit" /\ chan' = chan
                               \/ wpc[w] = "exit" /\ next = "gone" /\ chan' = chan
<1>0. panicked \in BOOLEAN
  BY DEF IInv, TypeOK
<1>1. CASE Receive(w)
  BY <1>0, <1>1, WorkerIsBusy DEF Receive
<1>2. CASE Inspect(w)
  <2>1. Busy
    BY <1>2, WorkerIsBusy DEF Inspect
  <2> QED
    BY <1>0, <1>2, <2>1 DEF Inspect, poolVars
<1>3. CASE InspectHost(w)
  BY <1>0, <1>3, WorkerIsBusy DEF InspectHost, poolVars
<1>4. CASE addResult(w)
  BY <1>0, <1>4, WorkerIsBusy DEF addResult, poolVars
<1>5. CASE Done(w)
  BY <1>0, <1>5, WorkerIsBusy DEF Done
<1> QED
  BY <1>1, <1>2, <1>3, <1>4, <1>5 DEF runWorker

(* It holds while nobody has a node ... *)
LEMMA InitTook == Init => TookInv
  BY DEF Init, TookInv

(* ... and every node taken was handed out before. *)
LEMMA NextTook == IInv /\ TookInv /\ [Next]_vars => TookInv'
<1> SUFFICES ASSUME IInv, TookInv, [Next]_vars, main' \in {"feed", "send"}
             PROVE  Len(chan') + Cardinality(Took') <= nextNode' - 1
  BY DEF TookInv
<1>0. /\ chan \in Seq(Nat) /\ Len(chan) \in Nat /\ nextNode \in Nat
      /\ wpc \in [Worker -> {"none", "recv", "inspect", "host", "report", "exit", "gone"}]
      /\ Took \in SUBSET Worker /\ Took' \in SUBSET Worker /\ Cardinality(Took) \in Nat
  BY Workers DEF IInv, TypeOK, Took
<1>1. CASE StartCheck \/ Restart
  BY <1>1 DEF StartCheck, Restart
<1>2. CASE Spawn
  <2>1. spawned = WorkerCount /\ UNCHANGED <<wpc, chan, nextNode>>
    BY <1>2, WorkerCountAssumption DEF Spawn, IInv, TypeOK, poolVars
  <2>2. chan = << >> /\ nextNode = 1 /\ \A w \in Worker : wpc[w] = "recv"
    BY <1>2, <2>1 DEF Spawn, IInv, PoolInv, Worker
  <2>3. Took' = {}
    BY <2>1, <2>2 DEF Took
  <2> QED
    BY <2>1, <2>2, <2>3, FS_EmptySet
<1>3. CASE Add
  BY <1>3 DEF Add
<1>4. CASE Feed
  <2>1. UNCHANGED <<chan, nextNode, wpc>> /\ main = "feed"
    BY <1>4 DEF Feed, workVars
  <2>2. Took' = Took
    BY <2>1 DEF Took
  <2> QED
    BY <2>1, <2>2 DEF TookInv
<1>5. CASE Send
  <2>1. /\ wpc' = wpc /\ main = "send" /\ nextNode' = nextNode + 1
        /\ Len(chan') = Len(chan) + 1
    BY <1>0, <1>5 DEF Send, workVars
  <2>2. Took' = Took
    BY <2>1 DEF Took
  <2> QED
    BY <1>0, <2>1, <2>2 DEF TookInv
<1>6. CASE waitForWorkFinish
  BY <1>6 DEF waitForWorkFinish
<1>7. ASSUME NEW w \in Worker, runWorker(w)
      PROVE  Len(chan') + Cardinality(Took') <= nextNode' - 1
  <2>1. main \in {"feed", "send"} /\ nextNode' = nextNode /\ closed = FALSE
    BY <1>7, WorkerSteps DEF mainVars, IInv, TypeOK, PoolInv
  <2>2. CASE UNCHANGED <<wpc, chan>>
    <3>1. Took' = Took
      BY <2>2 DEF Took
    <3> QED
      BY <2>1, <2>2, <3>1 DEF TookInv
  <2>3. ASSUME NEW next, wpc' = [wpc EXCEPT ![w] = next],
               \/ /\ wpc[w] = "recv" /\ next = "inspect" /\ chan # << >> /\ chan' = Tail(chan)
               \/ wpc[w] \notin {"none", "recv"} /\ chan' = chan
        PROVE  Len(chan') + Cardinality(Took') <= nextNode' - 1
    <3>1. \A v \in Worker \ {w} : v \in Took <=> v \in Took'
      BY <1>0, <2>3 DEF Took
    <3>2. Cardinality(Took') = Cardinality(Took) - (IF w \in Took THEN 1 ELSE 0)
                                                 + (IF w \in Took' THEN 1 ELSE 0)
      BY <1>0, <3>1, OneWorker
    <3>3. CASE wpc[w] = "recv" /\ chan # << >> /\ chan' = Tail(chan)
      <4>1. w \notin Took /\ Len(chan') = Len(chan) - 1
        BY <1>0, <3>3 DEF Took
      <4> QED
        BY <1>0, <2>1, <3>2, <4>1 DEF TookInv
    <3>4. CASE wpc[w] \notin {"none", "recv"} /\ chan' = chan
      <4>1. w \in Took
        BY <3>4 DEF Took
      <4> QED
        BY <1>0, <2>1, <3>2, <3>4, <4>1 DEF TookInv
    <3> QED
      BY <2>3, <3>3, <3>4
  <2>4. CASE \E next : wpc' = [wpc EXCEPT ![w] = next]
                       /\ (\/ /\ wpc[w] = "recv" /\ next = "inspect"
                              /\ chan # << >> /\ chan' = Tail(chan)
                           \/ wpc[w] \notin {"none", "recv"} /\ chan' = chan)
    BY <2>3, <2>4
  <2> QED
    BY <1>7, <2>1, <2>2, <2>4, WorkerSteps
<1>8. CASE UNCHANGED vars
  <2>1. Took' = Took
    BY <1>8 DEF Took, vars, workVars
  <2> QED
    BY <1>8, <2>1 DEF TookInv, vars, mainVars, poolVars
<1> QED
  BY <1>1, <1>2, <1>3, <1>4, <1>5, <1>6, <1>7, <1>8 DEF Next, Check

(* The one way for Check to hang: addWork at a channel that is full, all   *)
(* workers gone after failures.  It takes more nodes than the channel and  *)
(* the workers can hold together; with 2 * workerCount nodes or fewer      *)
(* somebody can always take a step.                                        *)
THEOREM HangsOnlyWhenFull ==
  Spec => [](main # "idle" /\ ~CanStep =>
               /\ main = "send" /\ Len(chan) = WorkerCount /\ results # << >>
               /\ \A w \in Worker : wpc[w] = "gone"
               /\ Len(cluster.nodes) > 2 * WorkerCount)
<1>1. ASSUME IInv, TookInv, main # "idle", ~CanStep
      PROVE  /\ main = "send" /\ Len(chan) = WorkerCount /\ results # << >>
             /\ \A w \in Worker : wpc[w] = "gone"
             /\ Len(cluster.nodes) > 2 * WorkerCount
  <2>0. /\ chan \in Seq(Nat) /\ Len(chan) <= WorkerCount /\ nextNode \in Nat
        /\ wpc \in [Worker -> {"none", "recv", "inspect", "host", "report", "exit", "gone"}]
        /\ main \in {"idle", "spawn", "add", "feed", "send", "wait"}
        /\ cluster \in Clusters /\ WorkerCount \in Nat \ {0} /\ closed \in BOOLEAN
    BY <1>1, WorkerCountAssumption DEF IInv, TypeOK
  <2>1. main \in {"send", "wait"} /\ Busy
    BY <1>1, <2>0 DEF CanStep, Busy
  <2>2. main # "wait"
    <3> SUFFICES ASSUME main = "wait" PROVE FALSE
      OBVIOUS
    <3>1. closed /\ wg = Cardinality(Live)
      BY <1>1, <2>1 DEF IInv, PoolInv
    <3>2. \A w \in Worker : wpc[w] = "gone"
      BY <1>1, <2>0, <2>1, <3>1 DEF CanStep, IInv, PoolInv
    <3>3. Live = {}
      BY <3>2 DEF Live
    <3> QED
      BY <1>1, <3>1, <3>3, FS_EmptySet DEF CanStep
  <2>3. main = "send" /\ Len(chan) = WorkerCount /\ chan # << >>
    BY <1>1, <2>0, <2>1, <2>2 DEF CanStep
  <2>4. \A w \in Worker : wpc[w] = "gone"
    BY <1>1, <2>0, <2>1, <2>3 DEF CanStep, IInv, PoolInv
  <2>5. Cardinality(Took) = WorkerCount
    <3>1. Took = Worker
      BY <2>4 DEF Took
    <3> QED
      BY <3>1, Workers
  <2>6. Len(cluster.nodes) > 2 * WorkerCount
    <3>1. nextNode <= Len(cluster.nodes) /\ Len(cluster.nodes) \in Nat
      BY <1>1, <2>0, <2>3, ClusterTypes DEF IInv, NodesInv
    <3>2. WorkerCount + WorkerCount <= nextNode - 1
      BY <1>1, <2>3, <2>5 DEF TookInv
    <3> QED
      BY <2>0, <3>1, <3>2
  <2>7. results # << >>
    <3>1. 1 \in Worker /\ ~closed
      BY <1>1, <2>0, <2>3 DEF Worker, IInv, PoolInv
    <3>2. ~LeftAfterWork
      BY <2>4, <3>1 DEF LeftAfterWork
    <3> QED
      BY <1>1, <2>1, <2>4, <3>2 DEF IInv, CoverInv, Bad
  <2> QED
    BY <2>3, <2>4, <2>6, <2>7
<1> QED
  BY InitIInv, NextIInv, InitTook, NextTook, <1>1, PTL DEF Spec

(* The steps a worker may still take with the node in its hands, or with   *)
(* none, before it leaves.                                                 *)
Height(place) ==
  CASE place = "gone" -> 0 [] place = "exit" -> 1 [] place = "recv" -> 2
    [] place = "report" -> 3 [] place = "host" -> 4 [] OTHER -> 5

AtLeast(k) == {w \in Worker : Height(wpc[w]) >= k}

Ahead ==
  Cardinality(AtLeast(1)) + Cardinality(AtLeast(2)) + Cardinality(AtLeast(3))
  + Cardinality(AtLeast(4)) + Cardinality(AtLeast(5))

(* The steps Check itself may take before the next node or the next worker *)
(* makes the others fewer.                                                 *)
Leg == CASE main = "add" -> 4 [] main = "spawn" -> 3 [] main = "feed" -> 2
         [] main = "send" -> 1 [] OTHER -> 0

(* A bound on the steps left: those for the nodes still to be handed out,  *)
(* for the nodes in the channel, those of the workers, of Check itself, and *)
(* a panic.                                                                *)
ToFeed    == 6 * (Len(cluster.nodes) + 1 - nextNode)
Queued    == 4 * Len(chan)
MayPanic  == IF panicked THEN 0 ELSE 1
Remaining == ToFeed + Queued + Ahead + Leg + MayPanic

(* A step of one worker changes Ahead by the difference of its heights. *)
LEMMA AheadSteps ==
  ASSUME wpc \in [Worker -> {"none", "recv", "inspect", "host", "report", "exit", "gone"}],
         NEW w \in Worker, NEW next, wpc' = [wpc EXCEPT ![w] = next]
  PROVE  Ahead' = Ahead - Height(wpc[w]) + Height(next)
<1>1. \A k \in 1 .. 5 :
        /\ Cardinality(AtLeast(k)) \in Nat
        /\ Cardinality(AtLeast(k)') = Cardinality(AtLeast(k))
             - (IF Height(wpc[w]) >= k THEN 1 ELSE 0) + (IF Height(next) >= k THEN 1 ELSE 0)
  <2> SUFFICES ASSUME NEW k \in 1 .. 5
               PROVE  /\ Cardinality(AtLeast(k)) \in Nat
                      /\ Cardinality(AtLeast(k)') = Cardinality(AtLeast(k))
                           - (IF Height(wpc[w]) >= k THEN 1 ELSE 0)
                           + (IF Height(next) >= k THEN 1 ELSE 0)
    OBVIOUS
  <2>1. AtLeast(k) \in SUBSET Worker /\ AtLeast(k)' \in SUBSET Worker
    BY DEF AtLeast
  <2>2. \A v \in Worker \ {w} : wpc'[v] = wpc[v]
    OBVIOUS
  <2>3. \A v \in Worker \ {w} : v \in AtLeast(k) <=> v \in AtLeast(k)'
    BY <2>2 DEF AtLeast
  <2>4. wpc'[w] = next
    OBVIOUS
  <2>5. /\ w \in AtLeast(k) <=> Height(wpc[w]) >= k
        /\ w \in AtLeast(k)' <=> Height(next) >= k
    BY <2>4 DEF AtLeast
  <2>6. Cardinality(AtLeast(k)') = Cardinality(AtLeast(k))
          - (IF w \in AtLeast(k) THEN 1 ELSE 0) + (IF w \in AtLeast(k)' THEN 1 ELSE 0)
    BY <2>1, <2>3, OneWorker
  <2> QED
    BY <2>1, <2>5, <2>6, Workers
<1>2. Height(wpc[w]) \in 0 .. 5 /\ Height(next) \in 0 .. 5
  BY DEF Height
<1> DEFINE c(k) == Cardinality(AtLeast(k))
           up(h, k) == IF h >= k THEN 1 ELSE 0
<1>3. \A h \in 0 .. 5 : up(h, 1) + up(h, 2) + up(h, 3) + up(h, 4) + up(h, 5) = h
  OBVIOUS
<1>4. /\ c(1) \in Nat /\ c(1)' = c(1) - up(Height(wpc[w]), 1) + up(Height(next), 1)
      /\ c(2) \in Nat /\ c(2)' = c(2) - up(Height(wpc[w]), 2) + up(Height(next), 2)
      /\ c(3) \in Nat /\ c(3)' = c(3) - up(Height(wpc[w]), 3) + up(Height(next), 3)
      /\ c(4) \in Nat /\ c(4)' = c(4) - up(Height(wpc[w]), 4) + up(Height(next), 4)
      /\ c(5) \in Nat /\ c(5)' = c(5) - up(Height(wpc[w]), 5) + up(Height(next), 5)
  BY <1>1
<1>5. Ahead = c(1) + c(2) + c(3) + c(4) + c(5)
  BY DEF Ahead
<1>6. Ahead' = c(1)' + c(2)' + c(3)' + c(4)' + c(5)'
  BY DEF Ahead
<1>7. up(Height(next), 1) \in Int /\ up(Height(next), 2) \in Int /\ up(Height(next), 3) \in Int
      /\ up(Height(next), 4) \in Int /\ up(Height(next), 5) \in Int
  OBVIOUS
<1> QED
  BY <1>2, <1>3, <1>4, <1>5, <1>6

(* The bound is a number: no more nodes are handed out than there are. *)
LEMMA RemainingIsNat ==
  ASSUME IInv, main # "idle"
  PROVE  /\ ToFeed \in Nat /\ Queued \in Nat /\ Ahead \in Nat /\ Leg \in Nat
         /\ MayPanic \in Nat /\ Remaining \in Nat
<1>1. Ahead \in Nat
  <2>1. \A k \in 1 .. 5 : Cardinality(AtLeast(k)) \in Nat
    BY Workers DEF AtLeast
  <2> QED
    BY <2>1 DEF Ahead
<1>2. Len(cluster.nodes) \in Nat /\ nextNode \in Nat /\ Len(chan) \in Nat
  BY ClusterTypes DEF IInv, TypeOK
<1>3. nextNode <= Len(cluster.nodes) + 1
  BY DEF IInv, NodesInv
<1>4. Leg \in Nat /\ MayPanic \in Nat
  BY DEF Leg, MayPanic
<1>5. ToFeed \in Nat /\ Queued \in Nat
  BY <1>2, <1>3 DEF ToFeed, Queued
<1> QED
  BY <1>1, <1>4, <1>5 DEF Remaining

(* When a check starts, all workers are still to be spawned. *)
LEMMA AheadAtStart ==
  ASSUME wpc' = [w \in Worker |-> "none"]
  PROVE  Ahead' = 5 * WorkerCount
<1>1. \A k \in 1 .. 5 : AtLeast(k)' = Worker
  BY DEF AtLeast, Height
<1> QED
  BY <1>1, Workers, WorkerCountAssumption DEF Ahead

(* A step of a worker takes it nearer to its end, or a node off the        *)
(* channel, or is the last one of the process.                             *)
LEMMA WorkerNearsEnd ==
  ASSUME IInv, NEW w \in Worker, runWorker(w)
  PROVE  Remaining' < Remaining
<1>0. /\ wpc \in [Worker -> {"none", "recv", "inspect", "host", "report", "exit", "gone"}]
      /\ chan \in Seq(Nat) /\ Len(chan) \in Nat
  BY DEF IInv, TypeOK
<1>1. UNCHANGED <<main, cluster, nextNode>> /\ main # "idle"
  BY WorkerSteps DEF mainVars, Busy
<1>2. Leg' = Leg /\ ToFeed' = ToFeed
  BY <1>1 DEF Leg, ToFeed
<1>3. ToFeed \in Nat /\ Queued \in Nat /\ Ahead \in Nat /\ Leg \in Nat
  BY <1>1, RemainingIsNat
<1>4. CASE panicked = FALSE /\ panicked' = TRUE /\ UNCHANGED <<wpc, chan>>
  <2>1. Ahead' = Ahead /\ Queued' = Queued
    BY <1>4 DEF Ahead, AtLeast, Queued
  <2>2. MayPanic = 1 /\ MayPanic' = 0
    BY <1>4 DEF MayPanic
  <2> QED
    BY <1>2, <1>3, <2>1, <2>2 DEF Remaining
<1>5. ASSUME panicked = FALSE, panicked' = FALSE, NEW next, wpc' = [wpc EXCEPT ![w] = next],
             Queued' \in Nat, Queued' + Height(next) < Queued + Height(wpc[w])
      PROVE  Remaining' < Remaining
  <2>1. Ahead' = Ahead - Height(wpc[w]) + Height(next)
    BY <1>0, <1>5, AheadSteps
  <2>2. Height(wpc[w]) \in Nat /\ Height(next) \in Nat
    BY DEF Height
  <2>3. MayPanic = 1 /\ MayPanic' = 1
    BY <1>5 DEF MayPanic
  <2> QED
    BY <1>2, <1>3, <1>5, <2>1, <2>2, <2>3 DEF Remaining
<1>6. /\ chan # << >> /\ chan' = Tail(chan) => Queued' \in Nat /\ Queued' = Queued - 4
      /\ chan' = chan => Queued' \in Nat /\ Queued' = Queued
  BY <1>0 DEF Queued
<1>7. \A next :
        \/ /\ wpc[w] = "recv" /\ next = "inspect" /\ chan # << >> /\ chan' = Tail(chan)
        \/ wpc[w] = "recv" /\ next = "exit" /\ closed /\ chan' = chan
        \/ wpc[w] = "inspect" /\ next \in {"recv", "host", "report"} /\ chan' = chan
        \/ wpc[w] = "host" /\ next \in {"recv", "report"} /\ chan' = chan
        \/ wpc[w] = "report" /\ next = "exit" /\ chan' = chan
        \/ wpc[w] = "exit" /\ next = "gone" /\ chan' = chan
        => Queued' \in Nat /\ Queued' + Height(next) < Queued + Height(wpc[w])
  BY <1>3, <1>6 DEF Height
<1> QED
  BY <1>4, <1>5, <1>7, WorkerSteps

(* A step of Check itself does so as well, unless it is the last one. *)
LEMMA CheckNearsEnd ==
  ASSUME IInv, Check, main' # "idle"
  PROVE  Remaining' < Remaining
<1>0. /\ wpc \in [Worker -> {"none", "recv", "inspect", "host", "report", "exit", "gone"}]
      /\ chan \in Seq(Nat) /\ nextNode \in Nat
      /\ spawned \in 0 .. WorkerCount /\ WorkerCount \in Nat
      /\ Len(cluster.nodes) \in Nat
  BY WorkerCountAssumption, ClusterTypes DEF IInv, TypeOK
<1>1. main # "idle" /\ cluster' = cluster /\ panicked' = panicked
  BY DEF Check, Spawn, Add, Feed, Send, waitForWorkFinish
<1>2. /\ ToFeed \in Nat /\ Queued \in Nat /\ Ahead \in Nat /\ Leg \in Nat
      /\ MayPanic \in Nat /\ MayPanic' = MayPanic
  BY <1>1, RemainingIsNat DEF MayPanic
<1>3. /\ wpc' = wpc => Ahead' = Ahead
      /\ nextNode' = nextNode => ToFeed' = ToFeed
      /\ chan' = chan => Queued' = Queued
  BY <1>1 DEF Ahead, AtLeast, ToFeed, Queued
<1>4. CASE Spawn /\ spawned < WorkerCount
  <2>1. /\ spawned + 1 \in Worker /\ wpc[spawned + 1] = "none"
        /\ wpc' = [wpc EXCEPT ![spawned + 1] = "recv"]
    BY <1>0, <1>4 DEF Spawn, IInv, PoolInv, Worker
  <2>2. Ahead' = Ahead - Height("none") + Height("recv")
    BY <1>0, <2>1, AheadSteps
  <2>3. Ahead' = Ahead - 3
    BY <1>2, <2>2 DEF Height
  <2>4. Leg = 3 /\ Leg' = 4
    BY <1>4 DEF Spawn, Leg
  <2>5. nextNode' = nextNode /\ chan' = chan
    BY <1>4 DEF Spawn, poolVars
  <2> QED
    BY <1>2, <1>3, <2>3, <2>4, <2>5 DEF Remaining
<1>5. CASE (Spawn /\ spawned >= WorkerCount) \/ Add \/ Feed
  <2>1. nextNode' = nextNode /\ chan' = chan /\ wpc' = wpc /\ Leg' < Leg
    BY <1>0, <1>5 DEF Spawn, Add, Feed, Leg, poolVars, workVars
  <2>2. Leg' \in Nat
    BY DEF Leg
  <2>3. ToFeed' = ToFeed /\ Queued' = Queued /\ Ahead' = Ahead
    BY <1>3, <2>1
  <2>4. Remaining' = ToFeed + Queued + Ahead + Leg' + MayPanic
    BY <1>2, <2>3 DEF Remaining
  <2>5. \A a, b, c, d, e, f \in Nat : d < e => a + b + c + d + f < a + b + c + e + f
    OBVIOUS
  <2> QED
    BY <1>2, <2>1, <2>2, <2>4, <2>5 DEF Remaining
<1>6. CASE Send
  <2>1. /\ nextNode' = nextNode + 1 /\ Len(chan') = Len(chan) + 1 /\ wpc' = wpc
        /\ Leg = 1 /\ Leg' = 2
    BY <1>0, <1>6 DEF Send, Leg, workVars
  <2>2. ToFeed' = ToFeed - 6
    <3>1. \A m, n \in Nat : 6 * (m + 1 - (n + 1)) = 6 * (m + 1 - n) - 6
      OBVIOUS
    <3>2. ToFeed' = 6 * (Len(cluster.nodes) + 1 - (nextNode + 1))
      BY <1>1, <2>1 DEF ToFeed
    <3> QED
      BY <1>0, <3>1, <3>2 DEF ToFeed
  <2>3. Queued' = Queued + 4
    BY <1>0, <2>1 DEF Queued
  <2> QED
    BY <1>2, <1>3, <2>1, <2>2, <2>3 DEF Remaining
<1>7. CASE waitForWorkFinish
  BY <1>7 DEF waitForWorkFinish
<1> QED
  BY <1>0, <1>4, <1>5, <1>6, <1>7 DEF Check

(* Every step of a check, and of the workers it started, counts: a check   *)
(* of n nodes is at its end, or stuck as above, after 6 n + 5 workerCount  *)
(* + 4 steps at most.                                                      *)
THEOREM EveryStepCounts ==
  Spec => /\ [](main # "idle" => Remaining \in Nat)
          /\ [][/\ main = "idle" /\ main' # "idle" =>
                     Remaining' = 6 * Len(cluster'.nodes) + 5 * WorkerCount + 4
                /\ main # "idle" /\ main' # "idle" => Remaining' < Remaining]_vars
<1> DEFINE Starts == main = "idle" /\ main' # "idle" =>
                       Remaining' = 6 * Len(cluster'.nodes) + 5 * WorkerCount + 4
           GoesOn == main # "idle" /\ main' # "idle" => Remaining' < Remaining
<1>1. IInv => (main # "idle" => Remaining \in Nat)
  BY RemainingIsNat
<1>2. IInv /\ [Next]_vars => [Starts /\ GoesOn]_vars
  <2> SUFFICES ASSUME IInv, Next, main' # "idle" PROVE Starts /\ GoesOn
    OBVIOUS
  <2>1. CASE StartCheck
    <3>1. PICK c \in Clusters : StartCheck!2!(c)
      BY <2>1 DEF StartCheck
    <3>2. /\ cluster' = c /\ main = "idle" /\ main' = "spawn" /\ nextNode' = 1
          /\ chan' = << >> /\ wpc' = [w \in Worker |-> "none"] /\ panicked' = FALSE
      BY <2>1, <3>1 DEF StartCheck, poolVars
    <3>3. Ahead' = 5 * WorkerCount
      BY <3>2, AheadAtStart
    <3>4. Leg' = 3 /\ Len(cluster'.nodes) \in Nat
      BY <3>2, ClusterTypes DEF Leg
    <3>5. ToFeed' = 6 * Len(cluster'.nodes) /\ Queued' = 0 /\ MayPanic' = 1
      BY <3>2, <3>4 DEF ToFeed, Queued, MayPanic
    <3> QED
      BY <3>2, <3>3, <3>4, <3>5, WorkerCountAssumption DEF Remaining
  <2>2. CASE Check
    BY <2>2, CheckNearsEnd DEF Check, Spawn, Add, Feed, Send, waitForWorkFinish
  <2>3. ASSUME NEW w \in Worker, runWorker(w) PROVE Starts /\ GoesOn
    <3>1. main # "idle"
      BY <2>3, WorkerSteps DEF Busy
    <3> QED
      BY <2>3, <3>1, WorkerNearsEnd
  <2>4. CASE Restart
    BY <2>4 DEF Restart
  <2> QED
    BY <2>1, <2>2, <2>3, <2>4 DEF Next
<1> QED
  BY <1>1, <1>2, InitIInv, NextIInv, PTL DEF Spec

=============================================================================
