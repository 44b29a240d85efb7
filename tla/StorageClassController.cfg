SPECIFICATION Spec
CONSTANTS
  VCenters <- MCVCenters
  MaxChanges = 4
INVARIANTS
  TypeOK
  StorageClassHasPolicy
PROPERTIES
  StorageClassArrives
  FailureKeepsComingBack
