SPECIFICATION Spec

CONSTANTS
  n1 = n1
  Name <- MCName
  Attempts = 2
  Faults <- MCKills
  MaxFaults = 2
  MaxCommands = 2

INVARIANT
  RelayKeyed

\* It stops once MaxCommands commands have ended.
CHECK_DEADLOCK FALSE
