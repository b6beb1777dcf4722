SPECIFICATION SpecClusters

CONSTANTS
  a = a
  b = b
  a1 = a1
  a2 = a2
  b1 = b1
  Cluster <- MCCluster
  Name <- MCSmall
  clusterOf <- MCSmallOf
  Attempts = 0
  Faults <- MCFails
  MaxFaults = 1
  MaxCommands = 4

INVARIANT
  DeleteForgets

\* It stops once MaxCommands commands have ended.
CHECK_DEADLOCK FALSE
