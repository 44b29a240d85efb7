--------------------------- MODULE MCNodeChecker ---------------------------
(* Instances of NodeChecker: pools of two workers on hand-picked families  *)
(* of clusters.                                                            *)
EXTENDS NodeChecker

CONSTANTS h1, h2, nohost, r1, r2

MCHost == {h1, h2}
MCHostRef == {r1, r2}

GoodVM(h) ==
  [vsphere |-> TRUE, found |-> TRUE, config |-> TRUE, hw |-> 15, host |-> h]

LostVM == [GoodVM(h1) EXCEPT !.found = FALSE]

(* One VM for every way through checkOnNode. *)
VMKinds ==
  { GoodVM(h1), GoodVM(h2), LostVM,
    [GoodVM(h1) EXCEPT !.vsphere = FALSE],
    [GoodVM(h1) EXCEPT !.config = FALSE],
    [GoodVM(h1) EXCEPT !.hw = Unparsable],
    [GoodVM(h1) EXCEPT !.hw = 14],
    [GoodVM(h1) EXCEPT !.host = nohost] }

GoodHost(vc, ref) == [vc |-> vc, ref |-> ref, load |-> "ok", version |-> 800]

(* Hosts of one vCenter: the second one varies. *)
HostsWith(load, version) ==
  [h \in MCHost |-> IF h = h1 THEN GoodHost(1, r1)
                    ELSE [vc |-> 1, ref |-> r2, load |-> load, version |-> version]]

Cluster(nodes, hosts, highLimit) ==
  [listed |-> TRUE, nodes |-> nodes, hosts |-> hosts, highLimit |-> highLimit]

Unlisted == [Cluster(<< >>, HostsWith("ok", 800), FALSE) EXCEPT !.listed = FALSE]

(* Every pair of VM kinds, every kind of host, and up to 2 * WorkerCount   *)
(* nodes among which any number is lost.                                   *)
SmallClusters ==
  { Cluster(ns, HostsWith("ok", 650), FALSE) : ns \in [1 .. 2 -> VMKinds] }
  \cup
  { Cluster(<<GoodVM(h1), GoodVM(h2)>>, HostsWith(l, v), b) :
      l \in {"ok", "error", "noconfig"}, v \in {0, 650, 673, 702, 800}, b \in BOOLEAN }
  \cup
  { Cluster(ns, HostsWith("ok", v), FALSE) :
      ns \in [1 .. 4 -> {GoodVM(h2), LostVM}], v \in {673, 800} }
  \cup { Cluster(<< >>, HostsWith("ok", 800), FALSE), Unlisted }

(* As many nodes as the pool can hold, and one more. *)
LargeClusters ==
  { Cluster(ns, HostsWith("ok", 800), FALSE) :
      ns \in [1 .. 2 * WorkerCount + 1 -> {LostVM}] }
=============================================================================
