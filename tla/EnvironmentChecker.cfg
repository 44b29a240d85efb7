SPECIFICATION Spec
CONSTANTS
  MinDelay = 1
  Cap = 5
  MaxCheckTime = 3
INVARIANTS
  TypeOK
  RecheckIsArmed
PROPERTIES
  ChecksAreSpaced
  RecheckHappens
  BackoffIsAGate
