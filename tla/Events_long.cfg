SPECIFICATION Spec
CONSTANTS
    VM = {v1}
    MaxVer = 4
    MaxTime = 2
    MS_PER_SEC = 2
    MaxCreations = 2
    MayReboot = FALSE
    Provisioning = TRUE
    MaxStreams = 4
    MayFailEarly = FALSE
INVARIANTS
    EventsTypeOK
    NothingMissed
CHECK_DEADLOCK FALSE
