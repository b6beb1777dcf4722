SPECIFICATION QuietSpec

CONSTANTS
  MaxDirty = 3
  MaxReconnects = 1

PROPERTY
  EndShown

\* The task ends once.
CHECK_DEADLOCK FALSE
