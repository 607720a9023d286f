SPECIFICATION FairSpec
CONSTANTS
    VM = {v1}
    MaxVer = 4
    MaxTime = 1
    MS_PER_SEC = 1
    MaxCreations = 1
    MayReboot = TRUE
    Provisioning = FALSE
    MaxStarts = 2
INVARIANTS
    ZoneTypeOK
    ZoneStateIsTold
PROPERTIES
    ChangesAreTold
    OnlyStopKills
    ImplementsWatchers
CHECK_DEADLOCK FALSE
