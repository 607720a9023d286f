SPECIFICATION Spec
CONSTANTS
    VM = {v1}
    MaxVer = 4
    MaxTime = 2
    MS_PER_SEC = 1
    MaxCreations = 2
    MayReboot = FALSE
    Provisioning = FALSE
    MaxStreams = 3
    MayFailEarly = FALSE
INVARIANTS
    NothingMissedOfAny
CHECK_DEADLOCK FALSE
