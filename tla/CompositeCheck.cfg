SPECIFICATION Spec
CONSTANTS
  VersionLists <- MCVersionLists
  NodeResults <- MCNodeResults
INVARIANTS
  TypeOK
  VerdictIsNoWeaker
  PassMeansSupported
