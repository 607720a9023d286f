SPECIFICATION Spec
CONSTANTS
    VM = {v1}
    MaxVer = 4
    MaxTime = 1
    MS_PER_SEC = 1
    MaxCreations = 1
    MayReboot = TRUE
    Provisioning = FALSE
    MaxStarts = 1
INVARIANTS
    LinesAreTold
CHECK_DEADLOCK FALSE
