SPECIFICATION Spec
CONSTANTS
  Envs <- AllEnvs
  Logins <- AllLogins
  ForeignDriver = TRUE
  MaxChanges = 2
INVARIANTS
  TypeOK
  RemovalIsExclusive
  InstallOnlyIfNotBlocked
PROPERTIES
  DegradedIsSticky
