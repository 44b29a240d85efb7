------------------------ MODULE DriverConfig_proofs ------------------------
(* Proofs about the conversion of the Infrastructure, the Secret sync      *)
(* writes from it, the metrics and the types of all that is written, for   *)
(* any clusters and any number of changes and failures.                    *)
EXTENDS DriverConfig, FiniteSetTheorems, WellFoundedInduction, TLAPS

----------------------------------------------------------------------------
(* The conversion. *)

(* A config with one name that the spec's vCenters are among has these and *)
(* no other.                                                               *)
LEMMA SingleName ==
  ASSUME NEW config, NEW spec, CanConnect(config, spec), spec.vCenters # {},
         IsFiniteSet(Names(config)), Cardinality(Names(config)) = 1
  PROVE  spec.vCenters = Names(config) /\ Cardinality(spec.vCenters) = 1
<1>1. PICK name : Names(config) = {name}
  BY FS_Singleton
<1>2. spec.vCenters = Names(config)
  BY <1>1 DEF CanConnect
<1> QED
  BY <1>2

(* Conversion of an INI config adds every vCenter the config names. *)
LEMMA ConversionAddsVCenters ==
  ASSUME NEW config, NEW spec \in PlatformSpecs,
         config.legacy, PlainNames(config), IsFiniteSet(Names(config)),
         CanConnect(config, ConvertToPlatformSpec(config, spec)),
         ConvertToPlatformSpec(config, spec).vCenters # {}
  PROVE  ConvertToPlatformSpec(config, spec).vCenters = Names(config)
<1> DEFINE platform == ConvertToPlatformSpec(config, spec)
<1>1. CASE spec.vCenters # {}
  <2>1. Servers(config) = Names(config)
    BY DEF Servers, PlainNames
  <2>2. MissingVCenters(config, spec) = Names(config) \ spec.vCenters
    BY <2>1 DEF MissingVCenters, PlainNames
  <2>3. platform.vCenters = spec.vCenters \cup (Names(config) \ spec.vCenters)
    BY <1>1, <2>2 DEF ConvertToPlatformSpec, addFailureDomainsToPlatformSpec, PlatformSpecs
  <2> QED
    BY <2>3 DEF CanConnect
<1>2. CASE spec.vCenters = {}
  <2>1. Cardinality(Names(config)) = 1
    BY <1>2 DEF ConvertToPlatformSpec
  <2> QED
    BY <2>1, SingleName
<1> QED
  BY <1>1, <1>2

(* Conversion adds a failure domain only where there is none, so that one  *)
(* is left: no topology comes of it, if failure domains come with vCenters.*)
THEOREM ConversionKeepsTopology ==
  ASSUME NEW config, NEW driver, NEW spec \in PlatformSpecs,
         spec.failureDomains # << >> => spec.vCenters # {}
  PROVE  GetTopologyCategories(driver, ConvertToPlatformSpec(config, spec))
           = GetTopologyCategories(driver, spec)
<1> DEFINE platform == ConvertToPlatformSpec(config, spec)
<1>1. CASE platform.failureDomains = spec.failureDomains
  BY <1>1 DEF GetTopologyCategories, GetInfraTopologyCategories
<1>2. CASE platform.failureDomains # spec.failureDomains
  <2>1. spec.failureDomains = << >>
    BY <1>2 DEF ConvertToPlatformSpec, addFailureDomainsToPlatformSpec,
                convertIntreeToPlatformSpec, PlatformSpecs
  <2>2. platform.failureDomains = Append(spec.failureDomains, config.workspace)
    BY <1>2 DEF ConvertToPlatformSpec, addFailureDomainsToPlatformSpec,
                convertIntreeToPlatformSpec, PlatformSpecs
  <2>3. Len(spec.failureDomains) = 0 /\ Len(Append(spec.failureDomains, config.workspace)) = 1
    BY <2>1
  <2> QED
    BY <2>2, <2>3 DEF GetTopologyCategories, GetInfraTopologyCategories
<1> QED
  BY <1>1, <1>2

----------------------------------------------------------------------------
(* The metrics. *)

(* Induction, for a set in the place of a predicate. *)
LEMMA Induction ==
  ASSUME NEW T, 0 \in T, \A n \in Nat : n \in T => n + 1 \in T
  PROVE  Nat \subseteq T
<1> SUFFICES ASSUME Nat \ T # {} PROVE FALSE
  OBVIOUS
<1>1. PICK m \in Nat \ T : \A k \in Nat \ T : ~ (<<k, m>> \in OpToRel(<, Nat))
  <2>1. Nat \ T \subseteq Nat
    OBVIOUS
  <2> QED
    BY <2>1, NatLessThanWellFounded, WFMin, Zenon
<1>2. \A k \in Nat \ T : ~ (k < m)
  BY <1>1 DEF OpToRel
<1>3. m # 0 /\ m - 1 \in Nat
  OBVIOUS
<1>4. m - 1 \in T
  BY <1>2, <1>3
<1> QED
  BY <1>3, <1>4

(* What UpdateMetrics has counted after n failure domains, given what it   *)
(* had before.                                                             *)
NothingCounted == [stores |-> << >>, zones |-> << >>, vCenters |-> {}]

Counted(total, fd) ==
  [stores   |-> Insert(total.stores, fd.datacenter, fd.datastore),
   zones    |-> Insert(total.zones, fd.region, fd.zone),
   vCenters |-> total.vCenters \cup ({fd.server} \ {Unset})]

Pass(fds, tally, n) == IF n = 0 THEN NothingCounted ELSE Counted(tally[n - 1], fds[n])

(* There is a pass over n failure domains, for every n. *)
LEMMA PassRuns ==
  ASSUME NEW fds, NEW n \in Nat
  PROVE  \E tally : tally = [i \in 0 .. n |-> Pass(fds, tally, i)]
<1> DEFINE T == {k \in Nat : \E f : f = [i \in 0 .. k |-> Pass(fds, f, i)]}
<1>1. 0 \in T
  <2> DEFINE f == [i \in 0 .. 0 |-> NothingCounted]
  <2>1. f = [i \in 0 .. 0 |-> Pass(fds, f, i)]
    BY DEF Pass
  <2> QED
    BY <2>1
<1>2. ASSUME NEW k \in Nat, k \in T PROVE k + 1 \in T
  <2>1. PICK f : f = [i \in 0 .. k |-> Pass(fds, f, i)]
    BY <1>2
  <2> DEFINE g == [i \in 0 .. k + 1 |-> Pass(fds, f, i)]
  <2>2. ASSUME NEW i \in 0 .. k + 1 PROVE Pass(fds, f, i) = Pass(fds, g, i)
    <3>1. CASE i = 0
      BY <3>1 DEF Pass
    <3>2. CASE i # 0
      <4>1. i - 1 \in 0 .. k /\ i - 1 \in 0 .. k + 1
        BY <3>2
      <4>2. f[i - 1] = g[i - 1]
        BY <2>1, <4>1, Zenon
      <4> QED
        BY <4>2 DEF Pass
    <3> QED
      BY <3>1, <3>2
  <2>3. g = [i \in 0 .. k + 1 |-> Pass(fds, g, i)]
    BY <2>2, Zenon
  <2> HIDE DEF g
  <2>4. \E h : h = [i \in 0 .. k + 1 |-> Pass(fds, h, i)]
    BY <2>3, Zenon
  <2> QED
    BY <2>4
<1> HIDE DEF T
<1>3. Nat \subseteq T
  BY <1>1, <1>2, Induction
<1> QED
  BY <1>3 DEF T

(* m holds the pairs: their keys but the unset one, and with each key its  *)
(* values but the unset one.                                               *)
Holds(m, pairs) ==
  /\ DOMAIN m = {p[1] : p \in pairs} \ {Unset}
  /\ \A k \in DOMAIN m : m[k] = {p[2] : p \in {q \in pairs : q[1] = k}} \ {Unset}

(* An empty map holds no pairs. *)
LEMMA HoldsNone == Holds(<< >>, {})
  BY DEF Holds

(* Insert adds one pair. *)
LEMMA InsertHolds ==
  ASSUME NEW m, NEW pairs, Holds(m, pairs), NEW key, NEW value
  PROVE  Holds(Insert(m, key, value), pairs \cup {<<key, value>>})
<1> DEFINE all == pairs \cup {<<key, value>>}
           new == Insert(m, key, value)
<1>1. CASE key = Unset
  <2>1. new = m
    BY <1>1 DEF Insert
  <2>2. {p[1] : p \in all} \ {Unset} = {p[1] : p \in pairs} \ {Unset}
    BY <1>1
  <2>3. ASSUME NEW k \in DOMAIN m
        PROVE  {q \in all : q[1] = k} = {q \in pairs : q[1] = k}
    BY <1>1 DEF Holds
  <2>4. DOMAIN m = {p[1] : p \in all} \ {Unset}
    BY <2>2 DEF Holds
  <2>5. ASSUME NEW k \in DOMAIN m
        PROVE  m[k] = {p[2] : p \in {q \in all : q[1] = k}} \ {Unset}
    BY <2>3 DEF Holds
  <2>6. Holds(m, all)
    BY <2>4, <2>5, Zenon DEF Holds
  <2> QED
    BY <2>1, <2>6
<1>2. CASE key # Unset
  <2>1. new = [k \in DOMAIN m \cup {key} |->
                 (IF k \in DOMAIN m THEN m[k] ELSE {})
                 \cup (IF k = key /\ value # Unset THEN {value} ELSE {})]
    BY <1>2 DEF Insert
  <2>2. DOMAIN new = {p[1] : p \in all} \ {Unset}
    <3>1. DOMAIN new = DOMAIN m \cup {key}
      BY <2>1
    <3>2. <<key, value>>[1] = key
      OBVIOUS
    <3>3. {p[1] : p \in all} = {p[1] : p \in pairs} \cup {key}
      BY <3>2, Zenon
    <3>4. DOMAIN m = {p[1] : p \in pairs} \ {Unset}
      BY DEF Holds
    <3> HIDE DEF all, new
    <3> QED
      BY <1>2, <3>1, <3>3, <3>4
  <2>3. ASSUME NEW k \in DOMAIN new
        PROVE  new[k] = {p[2] : p \in {q \in all : q[1] = k}} \ {Unset}
    <3> DEFINE old == {p[2] : p \in {q \in pairs : q[1] = k}} \ {Unset}
    <3>1. (IF k \in DOMAIN m THEN m[k] ELSE {}) = old
      BY <1>2, <2>3, <2>1 DEF Holds
    <3>2. new[k] = old \cup (IF k = key /\ value # Unset THEN {value} ELSE {})
      BY <2>1, <2>3, <3>1
    <3>3. CASE k = key
      <4>1. {q \in all : q[1] = k} = {q \in pairs : q[1] = k} \cup {<<key, value>>}
        BY <3>3
      <4>2. <<key, value>>[2] = value
        OBVIOUS
      <4>3. {p[2] : p \in {q \in all : q[1] = k}}
              = {p[2] : p \in {q \in pairs : q[1] = k}} \cup {value}
        BY <4>1, <4>2, Zenon
      <4> QED
        BY <3>2, <3>3, <4>3
    <3>4. CASE k # key
      <4>1. {q \in all : q[1] = k} = {q \in pairs : q[1] = k}
        BY <3>4
      <4> QED
        BY <3>2, <3>4, <4>1
    <3> QED
      BY <3>3, <3>4
  <2> QED
    BY <2>2, <2>3 DEF Holds
<1> QED
  BY <1>1, <1>2

(* What is then counted. *)
LEMMA HeldCount ==
  ASSUME NEW m, NEW pairs, Holds(m, pairs), \A p \in pairs : p = <<p[1], p[2]>>
  PROVE  Count(m) = Cardinality({p \in pairs : p[1] # Unset /\ p[2] # Unset})
<1> DEFINE left  == UNION {{k} \X m[k] : k \in DOMAIN m}
           right == {p \in pairs : p[1] # Unset /\ p[2] # Unset}
<1>1. ASSUME NEW p \in left PROVE p \in right
  <2>1. PICK k \in DOMAIN m : p \in {k} \X m[k]
    OBVIOUS
  <2>2. PICK v \in m[k] : p = <<k, v>>
    BY <2>1
  <2>3. k # Unset /\ v # Unset /\ (\E q \in pairs : q[1] = k /\ q[2] = v)
    BY <2>2 DEF Holds
  <2> QED
    BY <2>2, <2>3
<1>2. ASSUME NEW p \in right PROVE p \in left
  <2>1. p[1] \in DOMAIN m /\ p[2] \in m[p[1]]
    BY DEF Holds
  <2>2. p \in {p[1]} \X m[p[1]]
    BY <2>1
  <2> QED
    BY <2>1, <2>2
<1>3. left = right
  BY <1>1, <1>2
<1> QED
  BY <1>3 DEF Count

(* What has been counted after n failure domains. *)
Stores(fds, n) == {<<fds[i].datacenter, fds[i].datastore>> : i \in 1 .. n}
Zones(fds, n) == {<<fds[i].region, fds[i].zone>> : i \in 1 .. n}
HostsOf(fds, n) == {fds[i].server : i \in 1 .. n} \ {Unset}

IsCount(total, fds, n) ==
  /\ Holds(total.stores, Stores(fds, n))
  /\ Holds(total.zones, Zones(fds, n))
  /\ total.vCenters = HostsOf(fds, n)

(* Before the first failure domain nothing has been counted. *)
LEMMA CountedNone == ASSUME NEW fds PROVE IsCount(NothingCounted, fds, 0)
<1>1. Stores(fds, 0) = {} /\ Zones(fds, 0) = {} /\ HostsOf(fds, 0) = {}
  BY DEF Stores, Zones, HostsOf
<1> QED
  BY <1>1, HoldsNone DEF IsCount, NothingCounted

(* A turn of the loop counts one failure domain more. *)
LEMMA CountsOneMore ==
  ASSUME NEW fds, NEW n \in Nat, NEW total, IsCount(total, fds, n)
  PROVE  IsCount(Counted(total, fds[n + 1]), fds, n + 1)
<1> DEFINE fd == fds[n + 1]
<1>1. 1 .. n + 1 = 1 .. n \cup {n + 1}
  OBVIOUS
<1>2. Stores(fds, n + 1) = Stores(fds, n) \cup {<<fd.datacenter, fd.datastore>>}
  BY <1>1 DEF Stores
<1>3. Zones(fds, n + 1) = Zones(fds, n) \cup {<<fd.region, fd.zone>>}
  BY <1>1 DEF Zones
<1>4. HostsOf(fds, n + 1) = HostsOf(fds, n) \cup ({fd.server} \ {Unset})
  BY <1>1 DEF HostsOf
<1>5. Holds(Insert(total.stores, fd.datacenter, fd.datastore), Stores(fds, n + 1))
  BY <1>2, InsertHolds DEF IsCount
<1>6. Holds(Insert(total.zones, fd.region, fd.zone), Zones(fds, n + 1))
  BY <1>3, InsertHolds DEF IsCount
<1> QED
  BY <1>4, <1>5, <1>6 DEF IsCount, Counted

(* After the last turn all of them are counted. *)
LEMMA PassCounts ==
  ASSUME NEW fds, NEW last \in Nat, NEW tally, \A n \in 0 .. last : tally[n] = Pass(fds, tally, n)
  PROVE  IsCount(tally[last], fds, last)
<1> DEFINE T == {n \in Nat : n <= last => IsCount(tally[n], fds, n)}
<1>1. 0 \in T
  <2>1. tally[0] = Pass(fds, tally, 0)
    OBVIOUS
  <2>2. tally[0] = NothingCounted
    BY <2>1 DEF Pass
  <2> QED
    BY <2>2, CountedNone
<1>2. ASSUME NEW n \in Nat, n \in T PROVE n + 1 \in T
  <2> SUFFICES ASSUME n + 1 <= last PROVE IsCount(tally[n + 1], fds, n + 1)
    OBVIOUS
  <2>1. IsCount(tally[n], fds, n) /\ n + 1 \in 0 .. last /\ (n + 1) - 1 = n /\ n + 1 # 0
    BY <1>2
  <2>2. tally[n + 1] = Counted(tally[n], fds[n + 1])
    BY <2>1 DEF Pass
  <2> QED
    BY <2>1, <2>2, CountsOneMore
<1> HIDE DEF T
<1>3. Nat \subseteq T
  BY <1>1, <1>2, Induction
<1> QED
  BY <1>3 DEF T

(* The pass of UpdateMetrics is such a pass. *)
LEMMA MetricsPass ==
  ASSUME NEW spec, NEW driver, Len(spec.failureDomains) \in Nat
  PROVE  \E total :
           /\ IsCount(total, spec.failureDomains, Len(spec.failureDomains))
           /\ UpdateMetrics(spec, driver) =
                [categories     |-> Len(GetCSIDriverTopologyCategories(driver)),
                 infraTags      |-> Len(GetInfraTopologyCategories(spec)),
                 datacenters    |-> Cardinality(DOMAIN total.stores),
                 datastores     |-> Count(total.stores),
                 regions        |-> Cardinality(DOMAIN total.zones),
                 zones          |-> Count(total.zones),
                 vCenters       |-> Cardinality(total.vCenters),
                 failureDomains |-> Len(spec.failureDomains)]
<1> DEFINE fds == spec.failureDomains
           f == CHOOSE tally : tally = [n \in 0 .. Len(fds) |-> Pass(fds, tally, n)]
<1>1. f = [n \in 0 .. Len(fds) |-> Pass(fds, f, n)]
  BY PassRuns
<1>2. \A n \in 0 .. Len(fds) : f[n] = Pass(fds, f, n)
  BY <1>1, Zenon
<1>3. IsCount(f[Len(fds)], fds, Len(fds))
  BY <1>2, PassCounts
<1>4. UpdateMetrics(spec, driver) =
        [categories     |-> Len(GetCSIDriverTopologyCategories(driver)),
         infraTags      |-> Len(GetInfraTopologyCategories(spec)),
         datacenters    |-> Cardinality(DOMAIN f[Len(fds)].stores),
         datastores     |-> Count(f[Len(fds)].stores),
         regions        |-> Cardinality(DOMAIN f[Len(fds)].zones),
         zones          |-> Count(f[Len(fds)].zones),
         vCenters       |-> Cardinality(f[Len(fds)].vCenters),
         failureDomains |-> Len(fds)]
  BY Zenon DEF UpdateMetrics, Pass, Counted, NothingCounted
<1> HIDE DEF f
<1> QED
  BY <1>3, <1>4, Zenon

(* What is counted of the pairs, over the failure domains of a spec. *)
LEMMA CountedPairs ==
  ASSUME NEW fds, Len(fds) \in Nat, DOMAIN fds = 1 .. Len(fds), NEW m,
         NEW domains, domains = {fds[i] : i \in DOMAIN fds}
  PROVE  /\ Holds(m, Stores(fds, Len(fds))) =>
              /\ DOMAIN m = {d.datacenter : d \in domains} \ {Unset}
              /\ Count(m) = Cardinality({<<d.datacenter, d.datastore>> : d \in
                              {e \in domains : e.datacenter # Unset /\ e.datastore # Unset}})
         /\ Holds(m, Zones(fds, Len(fds))) =>
              /\ DOMAIN m = {d.region : d \in domains} \ {Unset}
              /\ Count(m) = Cardinality({<<d.region, d.zone>> : d \in
                              {e \in domains : e.region # Unset /\ e.zone # Unset}})
<1> DEFINE stores == Stores(fds, Len(fds))
           zones  == Zones(fds, Len(fds))
<1>1. /\ stores = {<<d.datacenter, d.datastore>> : d \in domains}
      /\ zones = {<<d.region, d.zone>> : d \in domains}
  BY DEF Stores, Zones
<1>2. /\ {p[1] : p \in stores} = {d.datacenter : d \in domains}
      /\ {p[1] : p \in zones} = {d.region : d \in domains}
      /\ \A p \in stores \cup zones : p = <<p[1], p[2]>>
  <2>1. \A a, b : <<a, b>>[1] = a /\ <<a, b>>[2] = b
    OBVIOUS
  <2> HIDE DEF stores, zones
  <2>2. {p[1] : p \in stores} = {d.datacenter : d \in domains}
    <3>1. ASSUME NEW p \in stores PROVE p[1] \in {d.datacenter : d \in domains}
      BY <1>1
    <3>2. ASSUME NEW d \in domains PROVE d.datacenter \in {p[1] : p \in stores}
      <4>1. <<d.datacenter, d.datastore>> \in stores
        BY <1>1
      <4> QED
        BY <2>1, <4>1, Zenon
    <3> QED
      BY <3>1, <3>2
  <2>3. {p[1] : p \in zones} = {d.region : d \in domains}
    <3>1. ASSUME NEW p \in zones PROVE p[1] \in {d.region : d \in domains}
      BY <1>1
    <3>2. ASSUME NEW d \in domains PROVE d.region \in {p[1] : p \in zones}
      <4>1. <<d.region, d.zone>> \in zones
        BY <1>1
      <4> QED
        BY <2>1, <4>1, Zenon
    <3> QED
      BY <3>1, <3>2
  <2>4. \A p \in stores \cup zones : p = <<p[1], p[2]>>
    BY <1>1
  <2> QED
    BY <2>2, <2>3, <2>4
<1>3. /\ {p \in stores : p[1] # Unset /\ p[2] # Unset}
            = {<<d.datacenter, d.datastore>> : d \in
                 {e \in domains : e.datacenter # Unset /\ e.datastore # Unset}}
      /\ {p \in zones : p[1] # Unset /\ p[2] # Unset}
            = {<<d.region, d.zone>> : d \in
                 {e \in domains : e.region # Unset /\ e.zone # Unset}}
  BY <1>1
<1> HIDE DEF stores, zones
<1>4. ASSUME Holds(m, stores)
      PROVE  Count(m) = Cardinality({p \in stores : p[1] # Unset /\ p[2] # Unset})
  BY <1>2, <1>4, HeldCount
<1>5. ASSUME Holds(m, zones)
      PROVE  Count(m) = Cardinality({p \in zones : p[1] # Unset /\ p[2] # Unset})
  BY <1>2, <1>5, HeldCount
<1>6. ASSUME Holds(m, stores) PROVE DOMAIN m = {d.datacenter : d \in domains} \ {Unset}
  BY <1>2, <1>6 DEF Holds
<1>7. ASSUME Holds(m, zones) PROVE DOMAIN m = {d.region : d \in domains} \ {Unset}
  BY <1>2, <1>7 DEF Holds
<1> QED
  BY <1>3, <1>4, <1>5, <1>6, <1>7, Zenon DEF stores, zones

(* The one pass of UpdateMetrics counts what the metrics promise, for      *)
(* every list of failure domains: names within names, each once, and       *)
(* nothing for a name that is not set.                                     *)
THEOREM MetricsAreCensus ==
  ASSUME NEW spec \in PlatformSpecs, NEW driver
  PROVE  UpdateMetrics(spec, driver) = Census(spec, driver)
<1> DEFINE fds == spec.failureDomains
           domains == {fds[i] : i \in DOMAIN fds}
<1>1. Len(fds) \in Nat /\ DOMAIN fds = 1 .. Len(fds)
  BY DEF PlatformSpecs
<1>2. PICK total :
        /\ IsCount(total, fds, Len(fds))
        /\ UpdateMetrics(spec, driver) =
             [categories     |-> Len(GetCSIDriverTopologyCategories(driver)),
              infraTags      |-> Len(GetInfraTopologyCategories(spec)),
              datacenters    |-> Cardinality(DOMAIN total.stores),
              datastores     |-> Count(total.stores),
              regions        |-> Cardinality(DOMAIN total.zones),
              zones          |-> Count(total.zones),
              vCenters       |-> Cardinality(total.vCenters),
              failureDomains |-> Len(fds)]
  BY <1>1, MetricsPass, Zenon
<1>3. /\ DOMAIN total.stores = {d.datacenter : d \in domains} \ {Unset}
      /\ Count(total.stores) = Cardinality({<<d.datacenter, d.datastore>> : d \in
                              {e \in domains : e.datacenter # Unset /\ e.datastore # Unset}})
      /\ DOMAIN total.zones = {d.region : d \in domains} \ {Unset}
      /\ Count(total.zones) = Cardinality({<<d.region, d.zone>> : d \in
                              {e \in domains : e.region # Unset /\ e.zone # Unset}})
  BY <1>1, <1>2, CountedPairs, Zenon DEF IsCount
<1>4. total.vCenters = {d.server : d \in domains} \ {Unset}
  BY <1>1, <1>2 DEF IsCount, HostsOf
<1>5. Len(GetCSIDriverTopologyCategories(driver))
        = IF driver.vSphere THEN Len(driver.categories) ELSE 0
  BY DEF GetCSIDriverTopologyCategories
<1>6. Len(GetInfraTopologyCategories(spec)) = IF Len(fds) > 1 THEN 2 ELSE 0
  BY DEF GetInfraTopologyCategories
<1> HIDE DEF fds
<1> QED
  BY <1>2, <1>3, <1>4, <1>5, <1>6, Zenon DEF Census, fds

----------------------------------------------------------------------------
(* The inductive invariant. *)

(* The objects read through informers have their five fields, and come     *)
(* from the clusters there are.                                            *)
IsObjects(o) ==
  /\ o = [field \in Fields |-> o[field]]
  /\ o.config \in Configs /\ o.infra \in Infras

(* What sync holds was loaded from such objects. *)
IsJob(j) ==
  /\ j.config \in Configs
  /\ \E infra \in Infras : j.platform = ConvertToPlatformSpec(j.config, infra)

(* Sync gets to the Secret only with vCenters the config knows, and past   *)
(* it only with the datastore that is needed; until it returns, nobody     *)
(* else writes the Secret.                                                 *)
SyncInv ==
  \A j \in job :
    /\ IsJob(j)
    /\ pc = "secret" \/ SecretWritten => CanConnect(j.config, j.platform)
    /\ SecretWritten =>
         /\ NeedsDatastore(j.platform) => FindsDatastore(j.config, j.platform)
         /\ cluster.secret = {applyClusterCSIDriverChange(j)}

(* All of it; an idle sync holds nothing. *)
IInv ==
  /\ IsObjects(cluster) /\ IsObjects(seen)
  /\ SyncInv /\ AtMostOne(job)
  /\ pc = "idle" => job = {}

(* Clusters are described by configs, specs and options of their kind. *)
LEMMA Described ==
  /\ \A infra \in Infras : infra \in PlatformSpecs /\ IsFiniteSet(infra.vCenters)
  /\ \A config \in Configs : IsConfig(config)
  /\ \A config \in Configs : IsFiniteSet(Names(config))
  /\ Drivers \subseteq DriverSpecs
  BY ClustersAssumption DEF Configs, Infras, Drivers, IsConfig

(* One field of the objects is set. *)
LEMMA FieldSet ==
  ASSUME NEW o, IsObjects(o), NEW field \in Fields, NEW v,
         field = "config" => v \in Configs, field = "infra" => v \in Infras
  PROVE  /\ IsObjects([o EXCEPT ![field] = v])
         /\ [o EXCEPT ![field] = v][field] = v
         /\ field # "secret" => [o EXCEPT ![field] = v].secret = o.secret
<1> DEFINE p == [o EXCEPT ![field] = v]
<1>1. DOMAIN o = Fields
  BY DEF IsObjects
<1>2. p = [g \in Fields |-> IF g = field THEN v ELSE o[g]]
  BY <1>1 DEF IsObjects
<1>3. p = [g \in Fields |-> p[g]]
  BY <1>2
<1>4. {"config", "infra", "secret"} \subseteq Fields
  BY DEF Fields
<1>5. /\ p.config = IF field = "config" THEN v ELSE o.config
      /\ p.infra = IF field = "infra" THEN v ELSE o.infra
      /\ p.secret = IF field = "secret" THEN v ELSE o.secret
      /\ p[field] = v
  BY <1>2, <1>4
<1> QED
  BY <1>3, <1>5 DEF IsObjects

(* Before the first sync. *)
LEMMA InitIInv == Init => IInv
<1> SUFFICES ASSUME Init PROVE IInv
  OBVIOUS
<1>1. PICK c \in Clusters :
        cluster = [managementState |-> "Managed", infra |-> c.infra, config |-> c.config,
                   driver |-> c.driver, secret |-> {}]
  BY DEF Init
<1>2. cluster = [field \in Fields |-> cluster[field]]
  <2>1. DOMAIN cluster = Fields
    BY <1>1 DEF Fields
  <2>2. cluster = [field \in DOMAIN cluster |-> cluster[field]]
    BY <1>1
  <2> QED
    BY <2>1, <2>2
<1>3. cluster.config \in Configs /\ cluster.infra \in Infras
  BY <1>1 DEF Configs, Infras
<1>4. seen = cluster /\ job = {}
  BY DEF Init
<1> QED
  BY <1>2, <1>3, <1>4 DEF IInv, IsObjects, SyncInv, AtMostOne

(* A write of a field by anybody; the Secret stays as it is unless it is   *)
(* the field.                                                              *)
LEMMA WriteKeeps ==
  ASSUME IInv, NEW field \in Fields, NEW v, Write(field, v),
         field = "config" => v \in Configs, field = "infra" => v \in Infras
  PROVE  /\ IsObjects(cluster') /\ cluster'[field] = v
         /\ field # "secret" => cluster'.secret = cluster.secret
<1>1. cluster' = [cluster EXCEPT ![field] = v]
  BY DEF Write
<1>2. IsObjects(cluster)
  BY DEF IInv
<1>3. /\ IsObjects([cluster EXCEPT ![field] = v])
      /\ [cluster EXCEPT ![field] = v][field] = v
      /\ field # "secret" => [cluster EXCEPT ![field] = v].secret = cluster.secret
  BY <1>2, FieldSet
<1> QED
  BY <1>1, <1>3

(* Sync loads, logs in and writes the Secret; what it holds is dropped     *)
(* when it returns, and with the process.                                  *)
LEMMA SyncKeeps == IInv /\ Sync => IInv'
<1> SUFFICES ASSUME IInv, Sync PROVE IInv'
  OBVIOUS
<1>0. IsObjects(cluster) /\ IsObjects(seen) /\ SyncInv /\ AtMostOne(job)
  BY DEF IInv
<1>1. ASSUME IsObjects(cluster'), seen' = seen, job' = {} PROVE IInv'
  BY <1>0, <1>1 DEF IInv, SyncInv, AtMostOne
<1>2. CASE SyncManaged
  <2>1. CASE job' = {LoadedFrom(seen)} /\ pc' = "login"
    <3>1. IsJob(LoadedFrom(seen))
      BY <1>0 DEF IsObjects, IsJob, LoadedFrom
    <3>2. UNCHANGED <<cluster, seen>>
      BY <1>2 DEF SyncManaged, apiVars
    <3> QED
      BY <1>0, <2>1, <3>1, <3>2 DEF IInv, SyncInv, SecretWritten, AtMostOne
  <2>2. CASE SyncReturns
    BY <1>0, <1>1, <1>2, <2>2 DEF SyncManaged, SyncReturns, apiVars
  <2> QED
    BY <1>2, <2>1, <2>2 DEF SyncManaged
<1>3. CASE loginToVCenter
  <2>1. UNCHANGED <<cluster, seen>>
    BY <1>3 DEF loginToVCenter, apiVars
  <2>2. CASE SyncReturns
    BY <1>0, <1>1, <2>1, <2>2 DEF SyncReturns
  <2>3. ASSUME NEW j \in job, CanConnect(j.config, j.platform), Goto("secret") PROVE IInv'
    BY <1>0, <2>1, <2>3 DEF IInv, SyncInv, SecretWritten, AtMostOne, Goto
  <2> QED
    BY <1>3, <2>2, <2>3 DEF loginToVCenter
<1>4. CASE createCSISecret
  <2>1. seen' = seen /\ pc = "secret"
    BY <1>4 DEF createCSISecret, At
  <2>2. CASE SyncReturns /\ UNCHANGED cluster
    BY <1>0, <1>1, <2>1, <2>2 DEF SyncReturns
  <2>3. ASSUME NEW j \in job, Goto("check"),
               NeedsDatastore(j.platform) => FindsDatastore(j.config, j.platform),
               Write("secret", {applyClusterCSIDriverChange(j)})
        PROVE  IInv'
    <3>1. IsObjects(cluster') /\ cluster'.secret = {applyClusterCSIDriverChange(j)}
      BY <2>3, WriteKeeps DEF Fields
    <3>2. job' = {j} /\ job = {j} /\ pc' = "check"
      BY <1>0, <2>3 DEF Goto, AtMostOne
    <3>3. IsJob(j) /\ CanConnect(j.config, j.platform)
      BY <1>0, <2>1, <2>3 DEF SyncInv
    <3> QED
      BY <1>0, <2>1, <2>3, <3>1, <3>2, <3>3 DEF IInv, SyncInv, SecretWritten, AtMostOne
  <2> QED
    BY <1>4, <2>2, <2>3 DEF createCSISecret
<1>5. CASE installCSIDriver \/ SkipChecks
  <2>1. UNCHANGED <<cluster, seen>> /\ pc = "check"
    BY <1>5 DEF installCSIDriver, SkipChecks, At, apiVars
  <2>2. CASE SyncReturns
    BY <1>0, <1>1, <2>1, <2>2 DEF SyncReturns
  <2>3. CASE Goto("storageclass")
    BY <1>0, <2>1, <2>3 DEF IInv, SyncInv, SecretWritten, AtMostOne, Goto
  <2> QED
    BY <1>5, <2>2, <2>3 DEF installCSIDriver, SkipChecks
<1>6. CASE SyncStorageClass \/ SyncExit
  <2>1. UNCHANGED <<cluster, seen>> /\ job' = {}
    BY <1>6 DEF SyncStorageClass, SyncExit, SyncReturns, ProcessEnds, apiVars
  <2> QED
    BY <1>0, <1>1, <2>1
<1>7. CASE removeOperands
  <2>1. pc = "idle" /\ job' = job /\ seen' = seen
    BY <1>7 DEF removeOperands, At
  <2>2. PICK v : Write("secret", v)
    BY <1>7 DEF removeOperands
  <2>3. IsObjects(cluster')
    BY <2>2, WriteKeeps DEF Fields
  <2>4. job' = {}
    BY <2>1 DEF IInv
  <2> QED
    BY <1>1, <2>1, <2>3, <2>4
<1> QED
  BY <1>2, <1>3, <1>4, <1>5, <1>6, <1>7 DEF Sync

(* The other controllers, informers and administrators leave the Secret    *)
(* and what sync holds alone; a crash drops it.                            *)
LEMMA OthersKeep == IInv /\ [Next]_vars /\ ~Sync => IInv'
<1> SUFFICES ASSUME IInv, [Next]_vars, ~Sync PROVE IInv'
  OBVIOUS
<1>0. IsObjects(cluster) /\ IsObjects(seen) /\ SyncInv /\ AtMostOne(job)
  BY DEF IInv
<1>1. ASSUME IsObjects(cluster'), IsObjects(seen'), cluster'.secret = cluster.secret,
             UNCHANGED <<pc, job>>
      PROVE  IInv'
  BY <1>1 DEF IInv, SyncInv, SecretWritten, AtMostOne
<1>2. CASE ReadFeatures \/ ApplyFeatures \/ ApplyDeployment \/ ApplyDaemonSet \/ UNCHANGED vars
  <2>1. UNCHANGED <<cluster, seen, pc, job>>
    BY <1>2 DEF ReadFeatures, ApplyFeatures, ApplyDeployment, ApplyDaemonSet, vars, apiVars
  <2> QED
    BY <1>0, <1>1, <2>1
<1>3. ASSUME NEW field \in Fields, Observe(field) PROVE IInv'
  <2>1. UNCHANGED <<cluster, pc, job>> /\ seen' = [seen EXCEPT ![field] = cluster[field]]
    BY <1>3 DEF Observe, apiVars
  <2>2. /\ field = "config" => cluster[field] \in Configs
        /\ field = "infra" => cluster[field] \in Infras
    BY <1>0 DEF IsObjects
  <2>3. IsObjects(seen')
    BY <1>0, <2>1, <2>2, FieldSet
  <2> QED
    BY <1>0, <1>1, <2>1, <2>3
<1>4. CASE Restart
  BY <1>0, <1>1, <1>4 DEF Restart, apiVars
<1>5. CASE Crash
  <2>1. UNCHANGED <<cluster, seen>> /\ job' = {}
    BY <1>5 DEF Crash, ProcessEnds, apiVars
  <2> QED
    BY <1>0, <2>1 DEF IInv, SyncInv, AtMostOne
<1>6. CASE AdminChanges
  <2>1. PICK field, v :
          /\ field \in Fields \ {"secret"}
          /\ Write(field, v)
          /\ field = "config" => v \in Configs
          /\ field = "infra" => v \in Infras
    BY <1>6 DEF AdminChanges, Fields
  <2>2. IsObjects(cluster') /\ cluster'.secret = cluster.secret
    BY <2>1, WriteKeeps
  <2>3. UNCHANGED <<seen, pc, job>>
    BY <1>6 DEF AdminChanges
  <2> QED
    BY <1>0, <1>1, <2>2, <2>3
<1> QED
  BY <1>2, <1>3, <1>4, <1>5, <1>6 DEF Next

(* The invariant is inductive. *)
LEMMA NextIInv == IInv /\ [Next]_vars => IInv'
  BY SyncKeeps, OthersKeep

----------------------------------------------------------------------------
(* The types. *)

(* Each object is a set of at most one. *)
AtMost(T) == {s \in SUBSET T : AtMostOne(s)}

Objects ==
  [managementState : ManagementState, infra : Infras, config : Configs, driver : Drivers,
   secret : AtMost(Secrets)]

FeatureStates == {FeaturesFor(i, d) : i \in Infras, d \in Drivers}
Deployments   == [topology : BOOLEAN, secret : SUBSET Secrets]
DaemonSets    == [maxVolumes : Nat, secret : SUBSET Secrets]
MetricValues  == {UpdateMetrics(i, d) : i \in Infras, d \in Drivers}
Jobs          == [config : Configs, platform : PlatformSpecs, driver : Drivers]

(* No object, and one of its type, are of the type. *)
LEMMA NoneOrOne ==
  ASSUME NEW T
  PROVE  {} \in AtMost(T) /\ \A x \in T : {x} \in AtMost(T)
  BY DEF AtMost, AtMostOne

(* A conversion makes a platform spec of a platform spec. *)
LEMMA ConversionType ==
  ASSUME NEW config, IsConfig(config), NEW spec \in PlatformSpecs
  PROVE  ConvertToPlatformSpec(config, spec) \in PlatformSpecs
<1> DEFINE added == [spec EXCEPT !.vCenters = @ \cup MissingVCenters(config, spec)]
           intree == [spec EXCEPT !.vCenters = @ \cup {config.workspace.server}]
<1>1. config.workspace \in FailureDomains /\ config.workspace.server \in STRING
  BY DEF IsConfig, FailureDomains
<1>2. MissingVCenters(config, spec) \subseteq STRING
  BY DEF MissingVCenters, IsConfig, Names, Servers
<1>3. added \in PlatformSpecs /\ intree \in PlatformSpecs
  BY <1>1, <1>2 DEF PlatformSpecs
<1>4. ASSUME NEW s \in PlatformSpecs
      PROVE  addFailureDomainsToPlatformSpec(config, s) \in PlatformSpecs
  <2>1. Append(s.failureDomains, config.workspace) \in Seq(FailureDomains)
    BY <1>1 DEF PlatformSpecs
  <2> QED
    BY <2>1 DEF addFailureDomainsToPlatformSpec, PlatformSpecs
<1>5. convertIntreeToPlatformSpec(config, spec) \in PlatformSpecs
  BY <1>3, <1>4 DEF convertIntreeToPlatformSpec
<1> HIDE DEF intree
<1> QED
  BY <1>3, <1>4, <1>5 DEF ConvertToPlatformSpec

(* A set of numbers has a first one. *)
LEMMA First ==
  ASSUME NEW T, T \subseteq Nat, T # {}
  PROVE  \E i \in T : \A j \in T : i <= j
<1>1. PICK m \in T : \A k \in T : ~ (<<k, m>> \in OpToRel(<, Nat))
  BY NatLessThanWellFounded, WFMin, Zenon
<1>2. \A k \in T : ~ (k < m)
  BY <1>1 DEF OpToRel
<1> QED
  BY <1>2

(* The default datastore is one of the spec or of the config. *)
LEMMA DatastoreType ==
  ASSUME NEW config, IsConfig(config), NEW spec \in PlatformSpecs
  PROVE  datastoreURL(config, spec) \in STRING \cup {Unset}
<1>1. ASSUME NEW h PROVE GetDefaultDatastore(config, spec, h) \in STRING
  <2> DEFINE D == DomainsOf(spec, h)
             first == CHOOSE i \in D : \A j \in D : i <= j
  <2>1. CASE D # {}
    <3>1. D \subseteq DOMAIN spec.failureDomains /\ D \subseteq Nat
      BY DEF DomainsOf, PlatformSpecs
    <3>2. \E i \in D : \A j \in D : i <= j
      BY <2>1, <3>1, First
    <3>3. first \in DOMAIN spec.failureDomains
      BY <3>1, <3>2
    <3> HIDE DEF first, D
    <3>4. spec.failureDomains[first] \in FailureDomains
      BY <3>3 DEF PlatformSpecs
    <3>5. spec.failureDomains[first].datastore \in STRING
      BY <3>4 DEF FailureDomains
    <3> QED
      BY <2>1, <3>5, Zenon DEF GetDefaultDatastore, first, D
  <2>2. CASE D = {}
    <3>1. config.workspace.datastore \in STRING
      BY DEF IsConfig, FailureDomains
    <3> QED
      BY <2>2, <3>1, Zenon DEF GetDefaultDatastore
  <2> QED
    BY <2>1, <2>2
<1> QED
  BY <1>1 DEF datastoreURL

(* Categories are of the Infrastructure or of the ClusterCSIDriver. *)
LEMMA CategoriesType ==
  ASSUME NEW driver \in DriverSpecs, NEW spec \in PlatformSpecs
  PROVE  GetTopologyCategories(driver, spec)
           \in Seq(STRING) \cup {<<"openshift-zone", "openshift-region">>}
  BY DEF GetTopologyCategories, GetInfraTopologyCategories, GetCSIDriverTopologyCategories,
         DriverSpecs

(* Only limits that are set are written: none is NoLimit. *)
LEMMA SnapshotsType ==
  ASSUME NEW driver \in DriverSpecs
  PROVE  GetSnapshotOptions(driver) \subseteq SnapshotOption \X Nat
  BY DEF GetSnapshotOptions, DriverSpecs

(* The Secret. *)
LEMMA SecretType ==
  ASSUME NEW j \in Jobs
  PROVE  applyClusterCSIDriverChange(j) \in Secrets
<1>1. IsConfig(j.config) /\ j.platform \in PlatformSpecs /\ j.driver \in DriverSpecs
  BY Described DEF Jobs
<1>2. Servers(j.config) \subseteq STRING
  BY <1>1 DEF Servers, IsConfig, Names
<1>3. (IF Cardinality(Names(j.config)) < 2 THEN datastoreURL(j.config, j.platform) ELSE Unset)
        \in STRING \cup {Unset}
  BY <1>1, DatastoreType
<1>4. GetTopologyCategories(j.driver, j.platform)
        \in Seq(STRING) \cup {<<"openshift-zone", "openshift-region">>}
  BY <1>1, CategoriesType
<1>5. GetSnapshotOptions(j.driver) \in SUBSET (SnapshotOption \X Nat)
  BY <1>1, SnapshotsType
<1> QED
  BY <1>2, <1>3, <1>4, <1>5, Zenon DEF applyClusterCSIDriverChange, Secrets

(* What sync loads. *)
LEMMA LoadedType ==
  ASSUME NEW o \in Objects PROVE LoadedFrom(o) \in Jobs
<1>1. o.config \in Configs /\ o.infra \in PlatformSpecs /\ o.driver \in Drivers
  BY Described DEF Objects
<1>2. ConvertToPlatformSpec(o.config, o.infra) \in PlatformSpecs
  BY <1>1, Described, ConversionType
<1> QED
  BY <1>1, <1>2 DEF LoadedFrom, Jobs

(* Feature states are yes or no. *)
LEMMA FeaturesType ==
  FeatureStates \subseteq [topology : BOOLEAN, migration : BOOLEAN]
<1> SUFFICES ASSUME NEW i \in Infras, NEW d \in Drivers
             PROVE  FeaturesFor(i, d) \in [topology : BOOLEAN, migration : BOOLEAN]
  BY DEF FeatureStates
<1>1. (GetTopologyCategories(d, i) # << >>) \in BOOLEAN
  OBVIOUS
<1>2. isCSIMigrationSupported(i) \in BOOLEAN
  BY DEF isCSIMigrationSupported
<1>3. \A a, b \in BOOLEAN :
        [topology |-> a, migration |-> b] \in [topology : BOOLEAN, migration : BOOLEAN]
  BY Zenon
<1> QED
  BY <1>1, <1>2, <1>3, Zenon DEF FeaturesFor

(* The five fields of the objects may be set each on its own. *)
Values(field) ==
  CASE field = "managementState" -> ManagementState
    [] field = "infra"           -> Infras
    [] field = "config"          -> Configs
    [] field = "driver"          -> Drivers
    [] field = "secret"          -> AtMost(Secrets)

(* One field set to a value of its own kind. *)
LEMMA FieldType ==
  ASSUME NEW o \in Objects, NEW field \in Fields, NEW v \in Values(field)
  PROVE  [o EXCEPT ![field] = v] \in Objects
<1>1. CASE field = "managementState"
  BY <1>1 DEF Objects, Values
<1>2. CASE field = "infra"
  BY <1>2 DEF Objects, Values
<1>3. CASE field = "config"
  BY <1>3 DEF Objects, Values
<1>4. CASE field = "driver"
  BY <1>4 DEF Objects, Values
<1>5. CASE field = "secret"
  BY <1>5 DEF Objects, Values
<1> QED
  BY <1>1, <1>2, <1>3, <1>4, <1>5 DEF Fields

(* One field read. *)
LEMMA FieldValue ==
  ASSUME NEW o \in Objects, NEW field \in Fields
  PROVE  o[field] \in Values(field)
  BY DEF Objects, Values, Fields

Labels     == {"idle", "login", "secret", "check", "storageclass"}
Remembered == {"", "Managed"}

(* The management state is remembered, or nothing is. *)
LEMMA WhatIsRemembered == "Managed" \in Remembered /\ "" \in Remembered
  BY Zenon DEF Remembered

(* The type invariant, one part for each part of the state; metrics and    *)
(* feature states come from clusters as they are described.                *)
ObjectsInv  == cluster \in Objects /\ seen \in Objects
FeaturesInv == features \in AtMost(FeatureStates) /\ desired \in AtMost(FeatureStates)
OperandsInv == deployment \in AtMost(Deployments) /\ daemonSet \in AtMost(DaemonSets)
MetricsInv  == metrics \in AtMost(MetricValues)
WorkInv     == job \in AtMost(Jobs) /\ pc \in Labels /\ pending \subseteq Fields
MemoryInv   == currentManagmentState \in Remembered
FlagsInv    == up \in BOOLEAN /\ operandControllerStarted \in BOOLEAN
BudgetInv   == changes \in 0 .. MaxChanges /\ failures \in 0 .. MaxFailures

TypeInv ==
  /\ ObjectsInv /\ FeaturesInv /\ OperandsInv /\ MetricsInv
  /\ WorkInv /\ MemoryInv /\ FlagsInv /\ BudgetInv

(* A write of a value of its own kind. *)
LEMMA WriteType ==
  ASSUME cluster \in Objects, pending \subseteq Fields,
         NEW field \in Fields, NEW v \in Values(field), Write(field, v)
  PROVE  cluster' \in Objects /\ pending' \subseteq Fields
  BY FieldType DEF Write

(* A failure keeps to its bound. *)
LEMMA FailureType ==
  ASSUME failures \in 0 .. MaxFailures, Failure
  PROVE  failures' \in 0 .. MaxFailures
  BY BoundsAssumption DEF Failure

(* The end of the process. *)
LEMMA EndType ==
  ASSUME ProcessEnds
  PROVE  /\ MetricsInv' /\ MemoryInv' /\ FlagsInv'
         /\ desired' = {} /\ job' = {} /\ pc' \in Labels
<1>1. "idle" \in Labels
  BY DEF Labels
<1>2. FlagsInv'
  BY Zenon DEF FlagsInv, ProcessEnds
<1> QED
  BY <1>1, <1>2, WhatIsRemembered, NoneOrOne DEF ProcessEnds, MetricsInv, MemoryInv

(* Before the first sync. *)
LEMMA InitType == Init => TypeInv
<1> SUFFICES ASSUME Init PROVE TypeInv
  OBVIOUS
<1>1. PICK c \in Clusters :
        cluster = [managementState |-> "Managed", infra |-> c.infra, config |-> c.config,
                   driver |-> c.driver, secret |-> {}]
  BY Zenon DEF Init
<1>2. cluster \in Objects
  BY <1>1, NoneOrOne DEF Objects, Infras, Configs, Drivers, ManagementState
<1>3. FlagsInv /\ ObjectsInv
  BY <1>2, Zenon DEF Init, FlagsInv, ObjectsInv
<1>4. MemoryInv
  BY WhatIsRemembered, Zenon DEF Init, MemoryInv
<1>5. FeaturesInv /\ OperandsInv /\ MetricsInv
  BY NoneOrOne, Zenon DEF Init, FeaturesInv, OperandsInv, MetricsInv
<1>6. "idle" \in Labels
  BY DEF Labels
<1>7. job = {} /\ pc = "idle" /\ pending = {} /\ changes = 0 /\ failures = 0
  BY Zenon DEF Init
<1>8. BudgetInv
  BY <1>7, BoundsAssumption DEF BudgetInv
<1>9. WorkInv
  BY <1>6, <1>7, NoneOrOne DEF WorkInv
<1> QED
  BY <1>3, <1>4, <1>5, <1>8, <1>9 DEF TypeInv

(* Sync and removal. *)
LEMMA SyncTypes == TypeInv /\ Sync => TypeInv'
<1> SUFFICES ASSUME TypeInv, Sync PROVE TypeInv'
  OBVIOUS
<1> USE DEF TypeInv
<1>0. /\ "idle" \in Labels /\ "login" \in Labels /\ "secret" \in Labels
      /\ "check" \in Labels /\ "storageclass" \in Labels
  BY DEF Labels
<1>1. ASSUME SyncReturns, UNCHANGED pending PROVE WorkInv'
  BY <1>0, <1>1, NoneOrOne DEF SyncReturns, WorkInv
<1>2. ASSUME NEW label \in Labels, Goto(label), pending' \subseteq Fields PROVE WorkInv'
  BY <1>2 DEF Goto, WorkInv
<1>3. ASSUME UNCHANGED changes, UNCHANGED failures \/ Failure PROVE BudgetInv'
  BY <1>3, FailureType DEF BudgetInv
<1>4. CASE SyncManaged
  <2>1. UNCHANGED <<cluster, features, deployment, daemonSet, changes, up, seen, pending, desired>>
    BY <1>4 DEF SyncManaged, apiVars
  <2>2. ObjectsInv' /\ FeaturesInv' /\ OperandsInv'
    BY <2>1 DEF ObjectsInv, FeaturesInv, OperandsInv
  <2>3. seen \in Objects
    BY DEF ObjectsInv
  <2>4. UpdateMetrics(seen.infra, seen.driver) \in MetricValues
    BY <2>3 DEF MetricValues, Objects
  <2>5. MetricsInv' /\ MemoryInv'
    BY <1>4, <2>4, NoneOrOne, WhatIsRemembered DEF SyncManaged, MetricsInv, MemoryInv
  <2>6. FlagsInv'
    BY <1>4, Zenon DEF SyncManaged, FlagsInv
  <2>7. WorkInv'
    <3>1. CASE job' = {LoadedFrom(seen)} /\ pc' = "login"
      BY <1>0, <2>1, <2>3, <3>1, LoadedType, NoneOrOne DEF WorkInv
    <3> QED
      BY <1>1, <1>4, <2>1, <3>1 DEF SyncManaged
  <2>8. BudgetInv'
    BY <1>3, <1>4 DEF SyncManaged
  <2> QED
    BY <2>2, <2>5, <2>6, <2>7, <2>8
<1>5. CASE loginToVCenter
  <2>1. UNCHANGED <<cluster, features, deployment, daemonSet, changes, metrics, seen, pending,
                    desired, currentManagmentState>>
    BY <1>5 DEF loginToVCenter, apiVars, procVars
  <2>2. UNCHANGED <<up, operandControllerStarted>>
    BY <1>5, Zenon DEF loginToVCenter, procVars
  <2>3. ObjectsInv' /\ FeaturesInv' /\ OperandsInv' /\ MetricsInv' /\ MemoryInv'
    BY <2>1 DEF ObjectsInv, FeaturesInv, OperandsInv, MetricsInv, MemoryInv
  <2>4. FlagsInv'
    BY <2>2, Zenon DEF FlagsInv
  <2>5. pending \subseteq Fields
    BY DEF WorkInv
  <2>6. WorkInv' /\ BudgetInv'
    BY <1>0, <1>1, <1>2, <1>3, <1>5, <2>1, <2>5 DEF loginToVCenter
  <2> QED
    BY <2>3, <2>4, <2>6
<1>6. CASE createCSISecret
  <2>1. UNCHANGED <<features, deployment, daemonSet, changes, metrics, seen, desired,
                    currentManagmentState>>
    BY <1>6 DEF createCSISecret, procVars
  <2>2. UNCHANGED <<up, operandControllerStarted>>
    BY <1>6, Zenon DEF createCSISecret, procVars
  <2>3. FeaturesInv' /\ OperandsInv' /\ MetricsInv' /\ MemoryInv'
    BY <2>1 DEF FeaturesInv, OperandsInv, MetricsInv, MemoryInv
  <2>4. FlagsInv'
    BY <2>2, Zenon DEF FlagsInv
  <2>5. pending \subseteq Fields /\ cluster \in Objects /\ seen' \in Objects
    BY <2>1 DEF WorkInv, ObjectsInv
  <2>6. BudgetInv'
    BY <1>3, <1>6 DEF createCSISecret
  <2>7. ASSUME NEW j \in job, Write("secret", {applyClusterCSIDriverChange(j)}), Goto("check")
        PROVE  ObjectsInv' /\ WorkInv'
    <3>1. j \in Jobs
      BY DEF WorkInv, AtMost
    <3>2. {applyClusterCSIDriverChange(j)} \in Values("secret") /\ "secret" \in Fields
      BY <3>1, SecretType, NoneOrOne DEF Values, Fields
    <3>3. cluster' \in Objects /\ pending' \subseteq Fields
      BY <2>5, <2>7, <3>2, WriteType
    <3> QED
      BY <1>0, <1>2, <2>5, <2>7, <3>3 DEF ObjectsInv
  <2>8. ASSUME SyncReturns, UNCHANGED <<cluster, pending>>
        PROVE  ObjectsInv' /\ WorkInv'
    BY <1>1, <2>5, <2>8 DEF ObjectsInv
  <2>9. ObjectsInv' /\ WorkInv'
    BY <1>6, <2>7, <2>8 DEF createCSISecret
  <2> QED
    BY <2>3, <2>4, <2>6, <2>9
<1>7. CASE installCSIDriver \/ SkipChecks
  <2>1. UNCHANGED <<cluster, features, deployment, daemonSet, changes, metrics, seen, pending,
                    desired, currentManagmentState>>
    BY <1>7 DEF installCSIDriver, SkipChecks, apiVars, procVars, budget
  <2>2. ObjectsInv' /\ FeaturesInv' /\ OperandsInv' /\ MetricsInv' /\ MemoryInv'
    BY <2>1 DEF ObjectsInv, FeaturesInv, OperandsInv, MetricsInv, MemoryInv
  <2>3. FlagsInv'
    BY <1>7, Zenon DEF installCSIDriver, SkipChecks, FlagsInv, procVars
  <2>4. pending \subseteq Fields
    BY DEF WorkInv
  <2>5. WorkInv'
    <3>1. SyncReturns \/ Goto("storageclass")
      BY <1>7 DEF installCSIDriver, SkipChecks
    <3> QED
      BY <1>0, <1>1, <1>2, <2>1, <2>4, <3>1
  <2>6. BudgetInv'
    BY <1>3, <1>7 DEF installCSIDriver, SkipChecks, budget
  <2> QED
    BY <2>2, <2>3, <2>5, <2>6
<1>8. CASE SyncStorageClass \/ SyncExit
  <2>1. UNCHANGED <<cluster, features, deployment, daemonSet, changes, failures, seen, pending>>
    BY <1>8 DEF SyncStorageClass, SyncExit, apiVars, budget
  <2>2. ObjectsInv' /\ OperandsInv' /\ BudgetInv'
    BY <1>3, <2>1 DEF ObjectsInv, OperandsInv
  <2>3. CASE ProcessEnds
    <3>1. FeaturesInv' /\ WorkInv'
      BY <2>1, <2>3, EndType, NoneOrOne DEF FeaturesInv, WorkInv
    <3> QED
      BY <2>2, <2>3, <3>1, EndType
  <2>4. CASE SyncReturns /\ UNCHANGED <<procVars, desired>>
    <3>1. FeaturesInv' /\ MetricsInv' /\ MemoryInv'
      BY <2>1, <2>4 DEF FeaturesInv, MetricsInv, MemoryInv, procVars
    <3>2. FlagsInv'
      BY <2>4, Zenon DEF FlagsInv, procVars
    <3> QED
      BY <1>1, <2>1, <2>2, <2>4, <3>1, <3>2
  <2> QED
    BY <1>8, <2>3, <2>4 DEF SyncStorageClass, SyncExit
<1>9. CASE removeOperands
  <2>1. UNCHANGED <<changes, metrics, currentManagmentState, seen, pc, job, desired>>
    BY <1>9 DEF removeOperands, procVars
  <2>2. UNCHANGED <<up, operandControllerStarted>>
    BY <1>9, Zenon DEF removeOperands, procVars
  <2>3. FlagsInv'
    BY <2>2, Zenon DEF FlagsInv
  <2>4. /\ features' \in {{}, features} /\ deployment' \in {{}, deployment}
        /\ daemonSet' \in {{}, daemonSet}
    BY <1>9 DEF removeOperands
  <2>5. FeaturesInv' /\ OperandsInv' /\ MetricsInv' /\ MemoryInv'
    BY <2>1, <2>4, NoneOrOne DEF FeaturesInv, OperandsInv, MetricsInv, MemoryInv
  <2>6. PICK secret \in {{}, cluster.secret} : Write("secret", secret)
    BY <1>9 DEF removeOperands
  <2>7. cluster \in Objects /\ seen' \in Objects /\ pending \subseteq Fields
    BY <2>1 DEF ObjectsInv, WorkInv
  <2>8. cluster.secret \in AtMost(Secrets) /\ {} \in AtMost(Secrets)
    BY <2>7, NoneOrOne DEF Objects
  <2>9. secret \in Values("secret") /\ "secret" \in Fields
    BY <2>8 DEF Values, Fields
  <2>10. cluster' \in Objects /\ pending' \subseteq Fields
    BY <2>6, <2>7, <2>9, WriteType
  <2>11. ObjectsInv' /\ WorkInv'
    BY <2>1, <2>7, <2>10 DEF ObjectsInv, WorkInv
  <2>12. BudgetInv'
    BY <1>3, <1>9 DEF removeOperands
  <2> QED
    BY <2>3, <2>5, <2>11, <2>12
<1> QED
  BY <1>4, <1>5, <1>6, <1>7, <1>8, <1>9 DEF Sync

(* The other controllers, informers, administrators, crashes and restarts. *)
LEMMA OthersTypes == TypeInv /\ [Next]_vars /\ ~Sync => TypeInv'
<1> SUFFICES ASSUME TypeInv, [Next]_vars, ~Sync PROVE TypeInv'
  OBVIOUS
<1> USE DEF TypeInv
<1>0. ASSUME UNCHANGED <<features, desired, deployment, daemonSet, metrics>>
      PROVE  FeaturesInv' /\ OperandsInv' /\ MetricsInv'
  BY <1>0 DEF FeaturesInv, OperandsInv, MetricsInv
<1>1. ASSUME UNCHANGED <<job, pc, pending>> PROVE WorkInv'
  BY <1>1 DEF WorkInv
<1>2. ASSUME UNCHANGED <<cluster, seen>> PROVE ObjectsInv'
  BY <1>2 DEF ObjectsInv
<1>3. ASSUME UNCHANGED changes, UNCHANGED failures \/ Failure PROVE BudgetInv'
  BY <1>3, FailureType DEF BudgetInv
<1>4. ASSUME UNCHANGED <<currentManagmentState, up, operandControllerStarted>>
      PROVE  MemoryInv' /\ FlagsInv'
  BY <1>4, Zenon DEF MemoryInv, FlagsInv
<1>5. cluster \in Objects /\ seen \in Objects /\ pending \subseteq Fields
  BY DEF ObjectsInv, WorkInv
<1>6. CASE ReadFeatures
  <2>1. FeaturesFor(seen.infra, seen.driver) \in FeatureStates
    BY <1>5 DEF FeatureStates, Objects
  <2>2. FeaturesInv' /\ OperandsInv' /\ MetricsInv'
    BY <1>6, <2>1, NoneOrOne
       DEF ReadFeatures, FeaturesInv, OperandsInv, MetricsInv, apiVars, procVars
  <2>3. MemoryInv' /\ FlagsInv'
    BY <1>4, <1>6 DEF ReadFeatures, procVars
  <2> QED
    BY <1>1, <1>2, <1>3, <1>6, <2>2, <2>3 DEF ReadFeatures, apiVars, budget
<1>7. CASE ApplyFeatures
  <2>1. FeaturesInv' /\ OperandsInv' /\ MetricsInv'
    BY <1>7, NoneOrOne DEF ApplyFeatures, FeaturesInv, OperandsInv, MetricsInv, procVars
  <2>2. MemoryInv' /\ FlagsInv'
    BY <1>4, <1>7 DEF ApplyFeatures, procVars
  <2> QED
    BY <1>1, <1>2, <1>3, <1>7, <2>1, <2>2 DEF ApplyFeatures
<1>8. ASSUME OperandRuns, NEW T, NEW v \in T PROVE Operand(v) \in AtMost(T)
  BY <1>8, NoneOrOne DEF OperandRuns, Operand
<1>9. seen.secret \in SUBSET Secrets /\ seen.driver \in DriverSpecs
  BY <1>5, Described DEF Objects, AtMost
<1>10. CASE ApplyDeployment
  <2>1. [topology |-> topologyHook, secret |-> seen.secret] \in Deployments
    <3>1. topologyHook \in BOOLEAN
      BY Zenon DEF topologyHook
    <3>2. \A a \in BOOLEAN, b \in SUBSET Secrets : [topology |-> a, secret |-> b] \in Deployments
      BY Zenon DEF Deployments
    <3> QED
      BY <1>9, <3>1, <3>2, Zenon
  <2>2. deployment' \in AtMost(Deployments)
    BY <1>8, <1>10, <2>1, Zenon DEF ApplyDeployment
  <2>3. FeaturesInv' /\ OperandsInv' /\ MetricsInv'
    BY <1>10, <2>2 DEF ApplyDeployment, FeaturesInv, OperandsInv, MetricsInv, procVars
  <2>4. MemoryInv' /\ FlagsInv'
    BY <1>4, <1>10 DEF ApplyDeployment, procVars
  <2> QED
    BY <1>1, <1>2, <1>3, <1>10, <2>3, <2>4 DEF ApplyDeployment, budget
<1>11. CASE ApplyDaemonSet
  <2>1. [maxVolumes |-> WithMaxVolumesPerNodeDaemonSetHook,
         secret |-> WithSecretDaemonSetAnnotationHook] \in DaemonSets
    BY <1>9 DEF DaemonSets, WithMaxVolumesPerNodeDaemonSetHook, WithSecretDaemonSetAnnotationHook,
                GetMaxVolumesPerNode, MaxVolumesPerNodeVSphere7, DriverSpecs
  <2>2. daemonSet' \in AtMost(DaemonSets)
    BY <1>8, <1>11, <2>1, Zenon DEF ApplyDaemonSet
  <2>3. FeaturesInv' /\ OperandsInv' /\ MetricsInv'
    BY <1>11, <2>2 DEF ApplyDaemonSet, FeaturesInv, OperandsInv, MetricsInv, procVars
  <2>4. MemoryInv' /\ FlagsInv'
    BY <1>4, <1>11 DEF ApplyDaemonSet, procVars
  <2> QED
    BY <1>1, <1>2, <1>3, <1>11, <2>3, <2>4 DEF ApplyDaemonSet, budget
<1>12. ASSUME NEW field \in Fields, Observe(field) PROVE TypeInv'
  <2>1. cluster[field] \in Values(field)
    BY <1>5, FieldValue
  <2>2. [seen EXCEPT ![field] = cluster[field]] \in Objects
    BY <1>5, <2>1, FieldType
  <2>3. ObjectsInv'
    BY <1>5, <1>12, <2>2 DEF Observe, ObjectsInv, apiVars
  <2>4. WorkInv'
    BY <1>12 DEF Observe, WorkInv
  <2>5. MemoryInv' /\ FlagsInv'
    BY <1>4, <1>12 DEF Observe, procVars
  <2> QED
    BY <1>0, <1>3, <1>12, <2>3, <2>4, <2>5 DEF Observe, apiVars, budget, procVars
<1>13. CASE Restart
  <2>1. ObjectsInv' /\ WorkInv'
    BY <1>5, <1>13 DEF Restart, ObjectsInv, WorkInv, apiVars
  <2>2. MemoryInv' /\ FlagsInv'
    BY <1>13, Zenon DEF Restart, MemoryInv, FlagsInv
  <2> QED
    BY <1>0, <1>3, <1>13, <2>1, <2>2 DEF Restart, apiVars, budget
<1>14. CASE Crash
  <2>1. FeaturesInv' /\ OperandsInv' /\ WorkInv'
    BY <1>14, EndType, NoneOrOne DEF Crash, FeaturesInv, OperandsInv, WorkInv, apiVars
  <2> QED
    BY <1>2, <1>3, <1>14, <2>1, EndType DEF Crash, apiVars
<1>15. CASE AdminChanges
  <2>1. PICK field, v : field \in Fields /\ v \in Values(field) /\ Write(field, v)
    BY <1>15 DEF AdminChanges, Fields, Values
  <2>2. cluster' \in Objects /\ pending' \subseteq Fields
    BY <1>5, <2>1, WriteType
  <2>3. ObjectsInv' /\ WorkInv'
    BY <1>5, <1>15, <2>2 DEF AdminChanges, ObjectsInv, WorkInv
  <2>4. MemoryInv' /\ FlagsInv'
    BY <1>4, <1>15 DEF AdminChanges, procVars
  <2>5. BudgetInv'
    BY <1>15, BoundsAssumption DEF AdminChanges, BudgetInv
  <2> QED
    BY <1>0, <1>15, <2>3, <2>4, <2>5 DEF AdminChanges, procVars
<1>16. CASE UNCHANGED vars
  <2>1. MemoryInv' /\ FlagsInv'
    BY <1>4, <1>16 DEF vars, procVars
  <2> QED
    BY <1>0, <1>1, <1>2, <1>3, <1>16, <2>1 DEF vars, apiVars, procVars, budget
<1> QED
  BY <1>6, <1>7, <1>10, <1>11, <1>12, <1>13, <1>14, <1>15, <1>16 DEF Next

(* The types are inductive. *)
LEMMA NextType == TypeInv /\ [Next]_vars => TypeInv'
  BY SyncTypes, OthersTypes

(* The invariant says more than the types: where values come from. *)
LEMMA TypesSuffice == TypeInv => TypeOK
<1> SUFFICES ASSUME TypeInv PROVE TypeOK
  OBVIOUS
<1>1. ASSUME NEW o \in Objects
      PROVE  /\ o = [managementState |-> o.managementState, infra |-> o.infra, config |-> o.config,
                     driver |-> o.driver, secret |-> o.secret]
             /\ o.managementState \in ManagementState
             /\ o.infra \in PlatformSpecs /\ IsFiniteSet(o.infra.vCenters)
             /\ o.config \in Configs /\ o.driver \in Drivers
             /\ o.secret \subseteq Secrets /\ AtMostOne(o.secret)
  BY Described DEF Objects, AtMost
<1>2. /\ features \subseteq [topology : BOOLEAN, migration : BOOLEAN] /\ AtMostOne(features)
      /\ desired \subseteq [topology : BOOLEAN, migration : BOOLEAN] /\ AtMostOne(desired)
  BY FeaturesType DEF TypeInv, FeaturesInv, AtMost
<1>3. /\ deployment \subseteq Deployments /\ AtMostOne(deployment)
      /\ daemonSet \subseteq DaemonSets /\ AtMostOne(daemonSet)
      /\ job \subseteq Jobs /\ AtMostOne(job)
  BY DEF TypeInv, OperandsInv, WorkInv, AtMost
<1> QED
  BY <1>1, <1>2, <1>3, Zenon
     DEF TypeInv, ObjectsInv, WorkInv, MemoryInv, FlagsInv, BudgetInv, TypeOK, Deployments,
         DaemonSets, Jobs, Labels, Remembered

----------------------------------------------------------------------------
(* The theorems. *)

(* The Secret lists the vCenters sync is connected to, for every INI       *)
(* config, whatever vCenters the Infrastructure lacks.                     *)
THEOREM SecretListsConnections == Spec => []DriverKnowsItsVCenters
<1>1. IInv => DriverKnowsItsVCenters
  <2> SUFFICES ASSUME IInv, SecretWritten, NEW j \in job, NEW secret \in cluster.secret,
                      j.config.legacy, PlainNames(j.config), j.platform.vCenters # {}
               PROVE  secret.vCenters = Hostnames(j.config, j.platform)
    BY DEF DriverKnowsItsVCenters
  <2>1. IsJob(j) /\ CanConnect(j.config, j.platform) /\ secret = applyClusterCSIDriverChange(j)
    BY DEF IInv, SyncInv
  <2>2. PICK infra \in Infras : j.platform = ConvertToPlatformSpec(j.config, infra)
    BY <2>1 DEF IsJob
  <2>3. infra \in PlatformSpecs /\ IsFiniteSet(Names(j.config))
    BY <2>1, Described DEF IsJob
  <2>4. j.platform.vCenters = Names(j.config)
    BY <2>1, <2>2, <2>3, ConversionAddsVCenters
  <2>5. secret.vCenters = Servers(j.config)
    BY <2>1 DEF applyClusterCSIDriverChange
  <2> QED
    BY <2>4, <2>5 DEF Servers, Hostnames
<1> QED
  BY InitIInv, NextIInv, <1>1, PTL DEF Spec

(* A connected config of one vCenter is never written without datastore.   *)
THEOREM DatastoreIsWritten == Spec => []SecretNamesDatastore
<1>1. IInv => SecretNamesDatastore
  <2> SUFFICES ASSUME IInv, SecretWritten, NEW j \in job, NEW secret \in cluster.secret,
                      j.platform.vCenters # {}, Cardinality(Names(j.config)) = 1
               PROVE  secret.datastore # Unset
    BY DEF SecretNamesDatastore
  <2>1. /\ j.config \in Configs /\ CanConnect(j.config, j.platform)
        /\ secret = applyClusterCSIDriverChange(j)
        /\ NeedsDatastore(j.platform) => FindsDatastore(j.config, j.platform)
    BY DEF IInv, SyncInv, IsJob
  <2>2. Cardinality(j.platform.vCenters) = 1
    BY <2>1, Described, SingleName
  <2>3. PICK hostname \in Hostnames(j.config, j.platform) : TRUE
    BY DEF Hostnames
  <2>4. datastoreURL(j.config, j.platform) # Unset
    BY <2>1, <2>2, <2>3 DEF datastoreURL, NeedsDatastore, FindsDatastore
  <2>5. secret.datastore = datastoreURL(j.config, j.platform)
    BY <2>1 DEF applyClusterCSIDriverChange
  <2> QED
    BY <2>4, <2>5
<1> QED
  BY InitIInv, NextIInv, <1>1, PTL DEF Spec

(* With one vCenter createStoragePolicy never meets a nil LegacyConfig.    *)
THEOREM NilIsNotReached == Spec => []NoNilDereference
<1>1. IInv => NoNilDereference
  <2> SUFFICES ASSUME IInv, pc = "storageclass", NEW j \in job,
                      NilDereference(j.config, j.platform),
                      Cardinality(j.platform.vCenters) = 1
               PROVE  FALSE
    BY DEF NoNilDereference
  <2>1. NeedsDatastore(j.platform) => FindsDatastore(j.config, j.platform)
    BY DEF IInv, SyncInv, SecretWritten
  <2>2. PICK hostname \in Hostnames(j.config, j.platform) : TRUE
    BY DEF Hostnames, NilDereference
  <2>3. HasDefaultDatastore(j.config, j.platform, hostname)
    BY <2>1, <2>2 DEF NeedsDatastore, FindsDatastore
  <2>4. DomainsOf(j.platform, hostname) = {}
    BY DEF NilDereference, DomainsOf
  <2> QED
    BY <2>3, <2>4 DEF HasDefaultDatastore, NilDereference
<1> QED
  BY InitIInv, NextIInv, <1>1, PTL DEF Spec

(* Every variable keeps its type, and no object is ever there twice. *)
THEOREM TypeCorrect == Spec => []TypeOK
<1>1. TypeInv => TypeOK
  BY TypesSuffice
<1> QED
  BY InitType, NextType, <1>1, PTL DEF Spec

(* Sync converts a copy: what the informers hold stays one of the          *)
(* Infrastructures that administrators wrote, the metrics count one, and   *)
(* the feature states, desired or applied, are about one.                  *)
NothingConverted ==
  /\ seen.infra \in Infras
  /\ metrics \subseteq {Census(i, d) : i \in Infras, d \in Drivers}
  /\ features \cup desired \subseteq {FeaturesFor(i, d) : i \in Infras, d \in Drivers}

(* The conversion leaks into nothing but the Secret: neither into the      *)
(* informer's cache, nor into metrics and feature states.                  *)
THEOREM ConversionStaysInSync == Spec => []NothingConverted
<1>1. TypeInv => NothingConverted
  <2> SUFFICES ASSUME TypeInv PROVE NothingConverted
    OBVIOUS
  <2>1. seen.infra \in Infras
    BY DEF TypeInv, ObjectsInv, Objects
  <2>2. metrics \subseteq {Census(i, d) : i \in Infras, d \in Drivers}
    <3>1. metrics \subseteq MetricValues
      BY DEF TypeInv, MetricsInv, AtMost
    <3>2. \A i \in Infras, d \in Drivers : UpdateMetrics(i, d) = Census(i, d)
      BY Described, MetricsAreCensus
    <3> QED
      BY <3>1, <3>2 DEF MetricValues
  <2>3. features \cup desired \subseteq {FeaturesFor(i, d) : i \in Infras, d \in Drivers}
    BY DEF TypeInv, FeaturesInv, AtMost, FeatureStates
  <2> QED
    BY <2>1, <2>2, <2>3 DEF NothingConverted
<1> QED
  BY InitType, NextType, <1>1, PTL DEF Spec

----------------------------------------------------------------------------
(* What is reached is kept: the other half of the properties about what    *)
(* the writers come to.                                                    *)

(* What administrators write. *)
description ==
  <<cluster.managementState, cluster.infra, cluster.config, cluster.driver>>

(* Removed: everything is deleted, and nobody holds anything to write.     *)
RemovedQuiet ==
  /\ cluster.managementState = "Removed" /\ seen.managementState = "Removed"
  /\ cluster.secret = {} /\ features = {} /\ deployment = {} /\ daemonSet = {}
  /\ pc = "idle" /\ desired = {}

(* Managed: everything is written as the cluster is described, what is     *)
(* about to be written is the same, and the informers know.                *)
Agreed ==
  /\ cluster.managementState = "Managed" /\ seen = cluster
  /\ cluster.secret = {applyClusterCSIDriverChange(LoadedFrom(cluster))}
  /\ features = {FeaturesFor(cluster.infra, cluster.driver)} /\ desired \subseteq features
  /\ deployment = {[topology |-> topologyHook, secret |-> seen.secret]}
  /\ daemonSet = {[maxVolumes |-> WithMaxVolumesPerNodeDaemonSetHook,
                   secret |-> WithSecretDaemonSetAnnotationHook]}
  /\ metrics \subseteq {UpdateMetrics(cluster.infra, cluster.driver)}
  /\ job \subseteq {LoadedFrom(cluster)}

(* Setting a field to what it is changes nothing. *)
LEMMA NothingWritten ==
  ASSUME NEW o \in Objects, NEW field \in Fields
  PROVE  [o EXCEPT ![field] = o[field]] = o
<1>1. DOMAIN o = Fields /\ o = [g \in DOMAIN o |-> o[g]]
  BY DEF Objects, Fields
<1> QED
  BY <1>1

(* Administrators change the description. *)
LEMMA AdminChangesDescription ==
  ASSUME TypeInv, AdminChanges PROVE description' # description
<1>1. cluster \in Objects
  BY DEF TypeInv, ObjectsInv
<1>2. PICK field, v : /\ field \in {"managementState", "infra", "config", "driver"}
                      /\ v # cluster[field] /\ Write(field, v)
  BY DEF AdminChanges
<1>3. cluster' = [cluster EXCEPT ![field] = v]
  BY <1>2 DEF Write
<1>4. cluster'[field] = v
  BY <1>1, <1>2, <1>3 DEF Objects
<1> QED
  BY <1>2, <1>4 DEF description

LEMMA RemovedKept ==
  TypeInv /\ RemovedQuiet /\ [Next]_vars /\ cluster'.managementState = "Removed" => RemovedQuiet'
<1> SUFFICES ASSUME TypeInv, RemovedQuiet, [Next]_vars, cluster'.managementState = "Removed"
             PROVE  RemovedQuiet'
  OBVIOUS
<1> USE DEF RemovedQuiet
<1>0. cluster \in Objects /\ seen \in Objects
  BY DEF TypeInv, ObjectsInv
<1>1. ASSUME UNCHANGED <<cluster, features, deployment, daemonSet>>,
             seen'.managementState = "Removed", pc' = "idle", desired' = {}
      PROVE  RemovedQuiet'
  BY <1>1
<1>2. CASE Sync
  <2>1. CASE SyncExit
    BY <1>1, <2>1 DEF SyncExit, ProcessEnds, apiVars
  <2>2. CASE removeOperands
    <3>1. PICK secret \in {{}, cluster.secret} : Write("secret", secret)
      BY <2>2 DEF removeOperands
    <3>2. cluster' = cluster
      <4>1. cluster' = [cluster EXCEPT !["secret"] = cluster["secret"]]
        BY <3>1 DEF Write
      <4> QED
        BY <1>0, <4>1, NothingWritten DEF Fields
    <3> QED
      BY <1>1, <2>2, <3>2 DEF removeOperands
  <2> QED
    BY <1>2, <2>1, <2>2 DEF Sync, SyncManaged, loginToVCenter, createCSISecret, installCSIDriver,
                            SkipChecks, SyncStorageClass, At
<1>3. CASE ReadFeatures \/ ApplyFeatures
  BY <1>3 DEF ReadFeatures, ApplyFeatures
<1>4. CASE ApplyDeployment \/ ApplyDaemonSet
  BY <1>1, <1>4 DEF ApplyDeployment, ApplyDaemonSet, Operand
<1>5. ASSUME NEW field \in Fields, Observe(field) PROVE RemovedQuiet'
  <2>1. seen' = [seen EXCEPT ![field] = cluster[field]]
    BY <1>5 DEF Observe
  <2>2. seen'.managementState = "Removed"
    BY <1>0, <2>1 DEF Objects, Fields
  <2> QED
    BY <1>1, <1>5, <2>2 DEF Observe, apiVars
<1>6. CASE Restart \/ Crash
  BY <1>1, <1>6 DEF Restart, Crash, ProcessEnds, apiVars
<1>7. CASE AdminChanges
  <2>1. PICK field, v : /\ field \in {"infra", "config", "driver"} /\ Write(field, v)
    <3>1. ASSUME NEW v \in ManagementState \ {"Removed"} PROVE ~Write("managementState", v)
      <4>1. [cluster EXCEPT !["managementState"] = v].managementState = v
        BY <1>0 DEF Objects
      <4> QED
        BY <3>1, <4>1 DEF Write
    <3> QED
      BY <1>7, <3>1 DEF AdminChanges
  <2>2. cluster'.secret = cluster.secret
    BY <1>0, <2>1 DEF Write, Objects
  <2> QED
    BY <1>7, <2>2 DEF AdminChanges
<1>8. CASE UNCHANGED vars
  BY <1>1, <1>8 DEF vars, apiVars
<1> QED
  BY <1>2, <1>3, <1>4, <1>5, <1>6, <1>7, <1>8 DEF Next

LEMMA AgreedKept ==
  TypeInv /\ Agreed /\ [Next]_vars /\ description' = description => Agreed'
<1> SUFFICES ASSUME TypeInv, Agreed, [Next]_vars, description' = description
             PROVE  Agreed'
  OBVIOUS
<1> USE DEF Agreed
<1>0. cluster \in Objects /\ seen \in Objects
  BY DEF TypeInv, ObjectsInv
<1>1. ASSUME UNCHANGED <<cluster, seen, features, deployment, daemonSet>>,
             desired' \subseteq features,
             metrics' \in {{}, metrics, {UpdateMetrics(seen.infra, seen.driver)}},
             job' \subseteq {LoadedFrom(seen)}
      PROVE  Agreed'
  BY <1>1 DEF LoadedFrom, topologyHook, WithMaxVolumesPerNodeDaemonSetHook,
              WithSecretDaemonSetAnnotationHook
<1>2. CASE Sync
  <2>1. CASE SyncManaged
    BY <1>1, <2>1 DEF SyncManaged, SyncReturns, apiVars
  <2>2. CASE loginToVCenter
    <3>1. job' \in {job, {}}
      BY <2>2 DEF loginToVCenter, Goto, SyncReturns
    <3> QED
      BY <1>1, <2>2, <3>1 DEF loginToVCenter, apiVars, procVars
  <2>3. CASE createCSISecret
    <3>1. cluster' = cluster
      <4>1. CASE UNCHANGED cluster
        BY <4>1
      <4>2. ASSUME NEW j \in job, Write("secret", {applyClusterCSIDriverChange(j)})
            PROVE  cluster' = cluster
        <5>1. cluster' = [cluster EXCEPT !["secret"] = cluster["secret"]]
          BY <4>2 DEF Write
        <5> QED
          BY <1>0, <5>1, NothingWritten DEF Fields
      <4> QED
        BY <2>3, <4>1, <4>2 DEF createCSISecret
    <3>2. job' \in {job, {}}
      BY <2>3 DEF createCSISecret, Goto, SyncReturns
    <3> QED
      BY <1>1, <2>3, <3>1, <3>2 DEF createCSISecret, procVars
  <2>4. CASE installCSIDriver \/ SkipChecks
    <3>1. job' \in {job, {}}
      BY <2>4 DEF installCSIDriver, SkipChecks, Goto, SyncReturns
    <3> QED
      BY <1>1, <2>4, <3>1 DEF installCSIDriver, SkipChecks, apiVars, procVars
  <2>5. CASE SyncStorageClass \/ SyncExit
    BY <1>1, <2>5 DEF SyncStorageClass, SyncExit, SyncReturns, ProcessEnds, apiVars, procVars
  <2>6. CASE removeOperands
    BY <2>6 DEF removeOperands
  <2> QED
    BY <1>2, <2>1, <2>2, <2>3, <2>4, <2>5, <2>6 DEF Sync
<1>3. CASE ReadFeatures
  BY <1>1, <1>3 DEF ReadFeatures, apiVars, procVars
<1>4. CASE ApplyFeatures
  BY <1>1, <1>4 DEF ApplyFeatures, procVars
<1>5. CASE ApplyDeployment \/ ApplyDaemonSet
  BY <1>1, <1>5 DEF ApplyDeployment, ApplyDaemonSet, Operand, procVars
<1>6. ASSUME NEW field \in Fields, Observe(field) PROVE Agreed'
  <2>1. seen' = seen
    BY <1>0, <1>6, NothingWritten DEF Observe
  <2> QED
    BY <1>1, <1>6, <2>1 DEF Observe, apiVars, procVars
<1>7. CASE Restart \/ Crash
  BY <1>1, <1>7 DEF Restart, Crash, ProcessEnds, apiVars
<1>8. CASE AdminChanges
  BY <1>8, AdminChangesDescription
<1>9. CASE UNCHANGED vars
  BY <1>1, <1>9 DEF vars, apiVars, procVars
<1> QED
  BY <1>2, <1>3, <1>4, <1>5, <1>6, <1>7, <1>8, <1>9 DEF Next

(* Removal is for good: what is deleted comes back only after an           *)
(* administrator has said otherwise, through any crash, restart or late    *)
(* informer (RemovedForGood says that removal gets there).                 *)
THEOREM RemovalIsKept ==
  Spec => [][RemovedQuiet /\ cluster'.managementState = "Removed" => RemovedQuiet']_vars
<1>1. TypeInv /\ [Next]_vars
        => [RemovedQuiet /\ cluster'.managementState = "Removed" => RemovedQuiet']_vars
  BY RemovedKept
<1> QED
  BY InitType, NextType, <1>1, PTL DEF Spec

(* The four writers never leave what they agreed on while the cluster is   *)
(* described the same (WritersAgree says that they come to agree).         *)
THEOREM AgreementIsKept ==
  Spec => [][Agreed /\ description' = description => Agreed']_vars
<1>1. TypeInv /\ [Next]_vars => [Agreed /\ description' = description => Agreed']_vars
  BY AgreedKept
<1> QED
  BY InitType, NextType, <1>1, PTL DEF Spec

(* Writers that agree in that sense give one answer to whether there is    *)
(* topology, although one of them decides on a converted Infrastructure.   *)
THEOREM AgreedIsAgreement ==
  ASSUME TypeInv, Deployable, Agreed
  PROVE  InAgreement /\ features = {FeaturesFor(cluster.infra, cluster.driver)}
<1> DEFINE s == applyClusterCSIDriverChange(LoadedFrom(cluster))
           f == FeaturesFor(cluster.infra, cluster.driver)
           d == [topology |-> topologyHook, secret |-> seen.secret]
           n == [maxVolumes |-> WithMaxVolumesPerNodeDaemonSetHook,
                 secret |-> WithSecretDaemonSetAnnotationHook]
<1>1. cluster.infra \in PlatformSpecs /\ cluster.driver \in DriverSpecs
  BY Described DEF TypeInv, ObjectsInv, Objects
<1>2. s.vCenters = Servers(cluster.config)
  BY DEF applyClusterCSIDriverChange, LoadedFrom
<1>3. s.categories = GetTopologyCategories(cluster.driver, cluster.infra)
  <2>1. cluster.infra.failureDomains # << >> => cluster.infra.vCenters # {}
    BY DEF Deployable
  <2> QED
    BY <1>1, <2>1, ConversionKeepsTopology DEF applyClusterCSIDriverChange, LoadedFrom
<1>4. f.topology = (s.categories # << >>) /\ d.topology = f.topology
  BY <1>3, Zenon DEF FeaturesFor, topologyHook, Agreed
<1>5. d.secret = {s} /\ n.secret = {s}
  BY DEF Agreed, WithSecretDaemonSetAnnotationHook
<1>6. n.maxVolumes = IF ConfigurableMaxVolumes /\ cluster.driver.maxVolumes > 0
                     THEN cluster.driver.maxVolumes ELSE MaxVolumesPerNodeVSphere7
  BY DEF Agreed, WithMaxVolumesPerNodeDaemonSetHook, GetMaxVolumesPerNode
<1>7. s \in cluster.secret /\ f \in features /\ d \in deployment /\ n \in daemonSet
  BY DEF Agreed
<1> HIDE DEF s, f, d, n
<1>8. InAgreement
  BY <1>2, <1>4, <1>5, <1>6, <1>7, Zenon DEF InAgreement
<1> QED
  BY <1>8 DEF Agreed
=============================================================================
