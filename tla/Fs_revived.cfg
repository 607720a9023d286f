SPECIFICATION Spec
CONSTANTS
    VM = {v1}
    MaxVer = 3
    MaxTime = 2
    MS_PER_SEC = 1
    MaxCreations = 1
    MayReboot = FALSE
    Provisioning = FALSE
    MaxStarts = 1
    MaxPasses = 2
    MaxFaults = 1
INVARIANTS
    StoppedWatchesNothing
CHECK_DEADLOCK FALSE
