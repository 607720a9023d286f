SPECIFICATION Spec
CONSTANTS
    VM = {v1}
    MaxVer = 4
    MaxTime = 2
    MS_PER_SEC = 1
    MaxCreations = 2
    MayReboot = FALSE
    Provisioning = FALSE
    MaxStarts = 2
    MaxPasses = 2
    MaxFaults = 0
INVARIANTS
    NoticedIsToldOfAny
CHECK_DEADLOCK FALSE
