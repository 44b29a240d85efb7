SPECIFICATION Spec
CONSTANTS
  Envs <- BlockingEnvs
  Logins <- LostVCenter
  ForeignDriver = FALSE
  MaxChanges = 2
PROPERTIES
  DriverGetsInstalledUnlessOrphaned
  RemovalCompletes
  FailureIsReported
