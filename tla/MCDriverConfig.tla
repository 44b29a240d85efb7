--------------------------- MODULE MCDriverConfig ---------------------------
(* An instance of DriverConfig with two vCenters, vc1 and vc2. *)
EXTENDS DriverConfig

INI(servers) ==
  [legacy |-> TRUE, virtualCenter |-> [s \in servers |-> s], sections |-> servers,
   workspace |-> FailureDomain("vc1", "dc1", "ds1", Unset, Unset)]

YAML(servers) ==
  [legacy |-> FALSE, virtualCenter |-> [s \in servers |-> s], sections |-> {},
   workspace |-> FailureDomain(Unset, Unset, Unset, Unset, Unset)]

Spec0 == [vCenters |-> {}, failureDomains |-> << >>]

Zonal(server, datacenter, zone) ==
  FailureDomain(server, datacenter, "ds1", "region1", zone)

(* The defaults, and all options set. *)
Options(categories, maxVolumes, limit) ==
  [vSphere |-> TRUE, categories |-> categories, maxVolumes |-> maxVolumes,
   snapshots |-> [o \in SnapshotOption |-> IF o = "global" THEN limit ELSE NoLimit]]
Defaults   == Options(<< >>, 0, NoLimit)
AllOptions == Options(<<"k8s-zone">>, 100, 0)

(* An old cluster with nothing filled in; one whose INI config lists a      *)
(* vCenter that the Infrastructure lacks; one with two vCenters, where a    *)
(* datastore of the same name is in each datacenter.  A change of one       *)
(* object at a time mixes them.                                             *)
MCClusters ==
  {[infra |-> Spec0, config |-> INI({"vc1"}), driver |-> Defaults],
   [infra |-> [Spec0 EXCEPT !.vCenters = {"vc1"}], config |-> INI({"vc1", "vc2"}),
    driver |-> AllOptions],
   [infra |-> [vCenters |-> {"vc1", "vc2"},
               failureDomains |-> <<Zonal("vc1", "dc1", "zone1"), Zonal("vc2", "dc2", "zone2")>>],
    config |-> YAML({"vc1", "vc2"}), driver |-> Defaults]}
=============================================================================
