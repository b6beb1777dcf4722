\* Two hosts, three state directories, every failure but a careless removal by hand.
SPECIFICATION Spec
CONSTANTS
  c1 = c1
  c2 = c2
  c3 = c3
  c4 = c4
  p1 = p1
  p2 = p2
  p3 = p3
  Client = {c1, c2, c3}
  FileOnly = {}
  Process = {p1, p2, p3}
  dirOf <- TwoDirs
  procOf <- ProcOf
  siteOf <- TwoHosts
  Blind = {}
  Faults = {"kill", "docker", "late", "pidReuse", "foreign", "rmStale"}
  MaxCalls = 3
INVARIANT TypeOK
INVARIANT MutualExclusion
INVARIANT LockInv
PROPERTY ImplementsMutex
CHECK_DEADLOCK FALSE
