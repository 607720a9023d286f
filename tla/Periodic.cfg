SPECIFICATION FairSpec
CONSTANTS
    VM = {v1}
    MaxVer = 3
    MaxTime = 1
    MS_PER_SEC = 2
    MaxCreations = 1
    MayReboot = FALSE
    Provisioning = FALSE
    MaxStarts = 2
INVARIANTS
    PeriodicTypeOK
    SampledIsTold
PROPERTIES
    ChangesAreTold
    StopEndsPolling
    ImplementsWatchers
CHECK_DEADLOCK FALSE
