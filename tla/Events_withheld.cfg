SPECIFICATION Spec
CONSTANTS
    VM = {v1}
    MaxVer = 3
    MaxTime = 1
    MS_PER_SEC = 1
    MaxCreations = 1
    MayReboot = FALSE
    Provisioning = FALSE
    MaxStreams = 4
    MayFailEarly = FALSE
INVARIANTS
    NothingMissedOfAny
CHECK_DEADLOCK FALSE
