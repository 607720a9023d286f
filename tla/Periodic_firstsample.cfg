SPECIFICATION Spec
CONSTANTS
    VM = {v1}
    MaxVer = 3
    MaxTime = 1
    MS_PER_SEC = 2
    MaxCreations = 0
    MayReboot = FALSE
    Provisioning = FALSE
    MaxStarts = 1
INVARIANTS
    QuotaChangesTold
CHECK_DEADLOCK FALSE
