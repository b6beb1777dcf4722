\* The bounds are in the instances of MCServices.
SPECIFICATION Spec

CONSTANTS
  firstNode = firstNode
  devNode = devNode
  labNode = labNode
  clusterOne = clusterOne
  clusterTwo = clusterTwo
  someTab = someTab
  devHere = devHere
  devThere = devThere
  oldWorker = oldWorker
  newWorker = newWorker
  primaryCtl = primaryCtl
  backupCtl = backupCtl
  someWorker = someWorker
  addrOne = addrOne
  addrTwo = addrTwo
  addrThree = addrThree
  None = None

INVARIANTS
  MeshInv
  PowerInv
  ExternalInv
  StackInv
  ActionsInv
  QueryInv
  PagesFresh
  ConfigInv
  PagesInv
  RunsInv

\* Each machine stops at its bounds.
CHECK_DEADLOCK FALSE
