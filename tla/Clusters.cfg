SPECIFICATION FairMachines

CONSTANTS
  a = a
  b = b
  a1 = a1
  a2 = a2
  b1 = b1
  Cluster <- MCCluster
  Name <- MCName
  clusterOf <- MCClusterOf
  Attempts = 0
  Faults <- MCFaults
  MaxFaults = 2
  MaxCommands = 3
  MaxWorkerFaults = 2
  MaxWorkerCommands = 3

INVARIANTS
  ClusterInv
  DeleteEmpties
  FailedCreateUndone
  NextCreateWorks
  ScalingInv
  FailedAddUndone
  WorkDone
  RetryWorks

PROPERTIES
  LineGoesFirst
  CommandsEnd

\* Each machine stops once its commands have ended.
CHECK_DEADLOCK FALSE
