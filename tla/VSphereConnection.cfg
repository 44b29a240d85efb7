SPECIFICATION Spec
CONSTANTS
  N = 2
  MaxChanges = 2
  MaxFailures = 2
\* A vCenter that hangs for good stops the sync.
CHECK_DEADLOCK FALSE
INVARIANTS
  TypeOK
  EverySessionIsHeldOrLost
  UsesOnlyFullLogins
PROPERTIES
  SyncsGoOn
