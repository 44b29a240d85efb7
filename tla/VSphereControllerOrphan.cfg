SPECIFICATION Spec
CONSTANTS
  Envs <- GoodEnv
  Logins <- GoodLogin
  ForeignDriver = FALSE
  MaxChanges = 2
PROPERTIES
  DriverGetsInstalled
