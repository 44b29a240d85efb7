---------------------------- MODULE PlatformSpec ----------------------------
(***************************************************************************)
(* The pure functions between the cluster's description of vSphere and the *)
(* driver's configuration: the cloud config with its lookups, the          *)
(* conversion of the Infrastructure's platform spec, topology categories,  *)
(* the options of ClusterCSIDriver and the metrics.                        *)
(*                                                                         *)
(* A config is [legacy, virtualCenter, sections, workspace]: legacy says   *)
(* that LegacyConfig was parsed, too (an INI text), virtualCenter maps the *)
(* names of Config.VirtualCenter to their VCenterIP, sections are the      *)
(* names in LegacyConfig.VirtualCenter (a vCenter given by [Global] alone  *)
(* is not among them), workspace is a failure domain made of [Workspace].  *)
(*                                                                         *)
(* A platform spec is [vCenters, failureDomains]; a nil one and an empty   *)
(* one are the same to every reader.  vCenters is a set: no two sections   *)
(* are about the same server.  The empty string stands for what is not set.*)
(***************************************************************************)
EXTENDS Integers, Sequences, FiniteSets

Unset == ""

(* An element of infra.Spec.PlatformSpec.VSphere.FailureDomains.           *)
FailureDomain(server, datacenter, datastore, region, zone) ==
  [server |-> server, datacenter |-> datacenter, datastore |-> datastore,
   region |-> region, zone |-> zone]

FailureDomains ==
  [server : STRING, datacenter : STRING, datastore : STRING, region : STRING, zone : STRING]

----------------------------------------------------------------------------
(* ConvertToPlatformSpec.                                                  *)

(* The names of the config that a vCenter is known under. *)
Names(config) == DOMAIN config.virtualCenter

(* The servers the config is about. *)
Servers(config) == {config.virtualCenter[name] : name \in Names(config)}

addFailureDomainsToPlatformSpec(config, spec) ==
  [spec EXCEPT !.failureDomains = Append(@, config.workspace)]

(* addVCenter for every server the spec lacks: the server is looked up by  *)
(* its address, although the config is keyed by name.                      *)
MissingVCenters(config, spec) ==
  {config.virtualCenter[server] :
     server \in (Servers(config) \ spec.vCenters) \cap Names(config)}

(* An Infrastructure older than the config format: all of it comes from    *)
(* [Workspace], if that names a section.                                   *)
convertIntreeToPlatformSpec(config, spec) ==
  IF config.workspace.server \in config.sections
  THEN addFailureDomainsToPlatformSpec(config,
         [spec EXCEPT !.vCenters = @ \cup {config.workspace.server}])
  ELSE spec

(* Mutant: the vCenters are left as they are. *)
ConvertDomainsOnly(config, spec) ==
  IF config.legacy /\ spec.failureDomains = << >>
  THEN addFailureDomainsToPlatformSpec(config, spec)
  ELSE spec

ConvertToPlatformSpec(config, spec) ==
  IF ~config.legacy THEN spec
  ELSE IF spec.vCenters # {}
  THEN LET added == [spec EXCEPT !.vCenters = @ \cup MissingVCenters(config, spec)]
       IN  IF spec.failureDomains = << >>
           THEN addFailureDomainsToPlatformSpec(config, added)
           ELSE added
  ELSE IF Cardinality(Names(config)) = 1
  THEN convertIntreeToPlatformSpec(config, spec)
  ELSE spec

----------------------------------------------------------------------------
(* Connections and the default datastore.                                  *)

(* createVCenterConnection finds every vCenter of the spec in the config. *)
CanConnect(config, spec) == spec.vCenters \subseteq Names(config)

(* GetVCenterHostname of each connection. *)
Hostnames(config, spec) == {config.virtualCenter[name] : name \in spec.vCenters}

(* NewStoragePolicyAPI: the failure domains of this vCenter. *)
DomainsOf(spec, hostname) ==
  {i \in DOMAIN spec.failureDomains : spec.failureDomains[i].server = hostname}

(* GetDefaultDatastore: that of the first failure domain, else of          *)
(* [Workspace], which needs the legacy config.                             *)
HasDefaultDatastore(config, spec, hostname) ==
  DomainsOf(spec, hostname) # {} \/ config.legacy

GetDefaultDatastore(config, spec, hostname) ==
  IF DomainsOf(spec, hostname) # {}
  THEN LET first == CHOOSE i \in DomainsOf(spec, hostname) :
                      \A j \in DomainsOf(spec, hostname) : i <= j
       IN  spec.failureDomains[first].datastore
  ELSE config.workspace.datastore

(* createStoragePolicy without failure domains reads LegacyConfig, which   *)
(* may be nil.                                                             *)
NilDereference(config, spec) ==
  spec.vCenters # {} /\ spec.failureDomains = << >> /\ ~config.legacy

----------------------------------------------------------------------------
(* Topology, options, features.  A ClusterCSIDriver is                     *)
(* [vSphere, categories, maxVolumes, snapshots]: whether DriverType is     *)
(* vSphere, and the fields of DriverConfig.VSphere.                        *)

GetInfraTopologyCategories(spec) ==
  IF Len(spec.failureDomains) > 1 THEN <<"openshift-zone", "openshift-region">> ELSE << >>

GetCSIDriverTopologyCategories(driver) == IF driver.vSphere THEN driver.categories ELSE << >>

(* The Infrastructure goes before the ClusterCSIDriver. *)
GetTopologyCategories(driver, spec) ==
  IF GetInfraTopologyCategories(spec) # << >>
  THEN GetInfraTopologyCategories(spec)
  ELSE GetCSIDriverTopologyCategories(driver)

isCSIMigrationSupported(spec) == Cardinality(spec.vCenters) <= 1

MaxVolumesPerNodeVSphere7 == 59

GetMaxVolumesPerNode(driver) ==
  IF driver.maxVolumes > 0 THEN driver.maxVolumes ELSE MaxVolumesPerNodeVSphere7

SnapshotOption == {"global", "vsan", "vvol"}
NoLimit == -1

(* Mutant: an option that is not set is written like the others. *)
GetSnapshotOptionsAll(driver) ==
  {<<option, driver.snapshots[option]>> : option \in SnapshotOption}

(* A limit of zero is a limit; only one that is not set is left out. *)
GetSnapshotOptions(driver) ==
  {<<option, driver.snapshots[option]>> :
     option \in {o \in SnapshotOption : driver.snapshots[o] # NoLimit}}

----------------------------------------------------------------------------
(* UpdateMetrics: one pass over the failure domains.                       *)

(* m[key] gets value; an empty key counts for nothing, an empty value      *)
(* leaves an empty entry.                                                  *)
Insert(m, key, value) ==
  IF key = Unset THEN m
  ELSE [k \in DOMAIN m \cup {key} |->
          (IF k \in DOMAIN m THEN m[k] ELSE {})
          \cup (IF k = key /\ value # Unset THEN {value} ELSE {})]

(* Mutant: a datastore of the same name in another datacenter is not told  *)
(* apart.                                                                  *)
CountFlat(m) == Cardinality(UNION {m[k] : k \in DOMAIN m})

Count(m) == Cardinality(UNION {{k} \X m[k] : k \in DOMAIN m})

UpdateMetrics(spec, driver) ==
  LET fds == spec.failureDomains
      tally[n \in 0 .. Len(fds)] ==
        IF n = 0 THEN [stores |-> << >>, zones |-> << >>, vCenters |-> {}]
        ELSE [stores   |-> Insert(tally[n - 1].stores, fds[n].datacenter, fds[n].datastore),
              zones    |-> Insert(tally[n - 1].zones, fds[n].region, fds[n].zone),
              vCenters |-> tally[n - 1].vCenters \cup ({fds[n].server} \ {Unset})]
      total == tally[Len(fds)]
  IN  [categories     |-> Len(GetCSIDriverTopologyCategories(driver)),
       infraTags      |-> Len(GetInfraTopologyCategories(spec)),
       datacenters    |-> Cardinality(DOMAIN total.stores),
       datastores     |-> Count(total.stores),
       regions        |-> Cardinality(DOMAIN total.zones),
       zones          |-> Count(total.zones),
       vCenters       |-> Cardinality(total.vCenters),
       failureDomains |-> Len(fds)]
=============================================================================
