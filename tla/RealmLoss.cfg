\* The dialogs of one cluster with two workers, two tasks.
SPECIFICATION DialogSpec

CONSTANTS
  firstNode = firstNode
  devNode = devNode
  labNode = labNode
  clusterOne = clusterOne
  clusterTwo = clusterTwo
  someTab = someTab
  devHere = devHere
  devThere = devThere
  oldWorker = oldWorker
  newWorker = newWorker
  primaryCtl = primaryCtl
  backupCtl = backupCtl
  someWorker = someWorker
  addrOne = addrOne
  addrTwo = addrTwo
  addrThree = addrThree
  None = None

INVARIANT
  EachVolumeTold

\* The tasks end.
CHECK_DEADLOCK FALSE
