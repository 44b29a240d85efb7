SPECIFICATION Spec
CONSTANTS
  Clusters <- MCClusters
  ConfigurableMaxVolumes = TRUE
  MaxChanges = 1
  MaxFailures = 1
\* Unmanaged, everything stops.
CHECK_DEADLOCK FALSE
INVARIANTS
  TypeOK
  DriverKnowsItsVCenters
  SecretNamesDatastore
  NoNilDereference
PROPERTIES
  WritersAgree
  FeaturesFollowInfra
  RemovedForGood
  MetricsCountInfra
