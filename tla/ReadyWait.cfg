SPECIFICATION FairSpec
CONSTANTS
    sshd = sshd
    munge = munge
    none = none
    Units <- MCUnits
    NoUnit = none
    ProbeUnit <- MCProbeUnit
    InternalCap = 1
    SubCap = 1
    Faults = {"docker"}
    MaxChanges = 2
INVARIANTS
    WaitInv
PROPERTIES
    DeathEnds
    ReadyFound
    WatcherStops
CHECK_DEADLOCK FALSE
