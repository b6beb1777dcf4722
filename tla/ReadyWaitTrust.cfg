SPECIFICATION Spec
CONSTANTS
    sshd = sshd
    munge = munge
    none = none
    Units <- MCUnits
    NoUnit = none
    ProbeUnit <- MCProbeUnit
    InternalCap = 1
    SubCap = 2
    Faults = {"docker", "systemd"}
    MaxChanges = 3
INVARIANTS
    TrustOnlyLive
CHECK_DEADLOCK FALSE
