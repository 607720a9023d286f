SPECIFICATION Spec
CONSTANTS
    VM = {v1}
    MaxVer = 2
    MaxTime = 1
    MS_PER_SEC = 2
    MaxCreations = 1
    MayReboot = FALSE
    Provisioning = FALSE
    MaxStarts = 2
INVARIANTS
    StoppedHasNoTimer
CHECK_DEADLOCK FALSE
