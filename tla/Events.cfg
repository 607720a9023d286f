SPECIFICATION FairSpec
CONSTANTS
    VM = {v1}
    MaxVer = 3
    MaxTime = 1
    MS_PER_SEC = 2
    MaxCreations = 2
    MayReboot = TRUE
    Provisioning = FALSE
    MaxStreams = 3
    MayFailEarly = FALSE
INVARIANTS
    EventsTypeOK
    NothingMissed
PROPERTIES
    ChangesAreTold
CHECK_DEADLOCK FALSE
