SPECIFICATION Spec
CONSTANTS
  d1 = d1
  d2 = d2
  Datastore <- MCDatastore
  DomainLists <- MCDomainLists
  MaxChanges = 3
INVARIANTS
  TypeOK
  SuccessMeansUsable
PROPERTIES
  PolicyIsRepaired
  CallsOnlyImprove
