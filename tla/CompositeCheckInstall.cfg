SPECIFICATION Spec
CONSTANTS
  VersionLists <- MCVersionLists
  NodeResults <- MCNodeResults
INVARIANTS
  InstallBlockIsKept
