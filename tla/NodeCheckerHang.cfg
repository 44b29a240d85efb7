SPECIFICATION Spec
CONSTANTS
  WorkerCount = 2
  h1 = h1
  h2 = h2
  nohost = nohost
  r1 = r1
  r2 = r2
  Host <- MCHost
  HostRef <- MCHostRef
  NoHost = nohost
  Clusters <- LargeClusters
PROPERTIES
  CheckReturns
CHECK_DEADLOCK FALSE
