\* Three commands of one host, which may be killed, while the user removes locks
\* by hand; a second goroutine of one
\* command takes the file lock alone.
SPECIFICATION FairSpec
CONSTANTS
  c1 = c1
  c2 = c2
  c3 = c3
  c4 = c4
  p1 = p1
  p2 = p2
  p3 = p3
  Client = {c1, c2, c3, c4}
  FileOnly = {c4}
  Process = {p1, p2, p3}
  dirOf <- GoroutineDirs
  procOf <- GoroutineProcOf
  siteOf <- OneHost
  Blind = {}
  Faults = {"kill", "rmAny"}
  MaxCalls = 3
INVARIANT NoLeftover
PROPERTY LiveLockStays
PROPERTY WaitersServed
CHECK_DEADLOCK FALSE
