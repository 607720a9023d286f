SPECIFICATION Spec
CONSTANTS
    VM = {v1}
    MaxVer = 1
    MaxTime = 1
    MS_PER_SEC = 2
    MaxCreations = 1
    MayReboot = FALSE
    Provisioning = FALSE
    MaxStreams = 2
    MayFailEarly = TRUE
INVARIANTS
    RestartKnowsVms
CHECK_DEADLOCK FALSE
