SPECIFICATION Spec
CONSTANTS
    VM = {v1}
    MaxVer = 1
    MaxTime = 1
    MS_PER_SEC = 2
    MaxCreations = 1
    MayReboot = FALSE
    Provisioning = FALSE
    MaxStreams = 3
    MayFailEarly = FALSE
INVARIANTS
    NeverCreatedTwice
CHECK_DEADLOCK FALSE
