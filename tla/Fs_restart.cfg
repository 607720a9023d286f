SPECIFICATION Spec
CONSTANTS
    VM = {v1}
    MaxVer = 3
    MaxTime = 2
    MS_PER_SEC = 1
    MaxCreations = 1
    MayReboot = FALSE
    Provisioning = FALSE
    MaxStarts = 2
    MaxPasses = 2
    MaxFaults = 1
INVARIANTS
    FsTypeOK
    NoticedIsTold
CHECK_DEADLOCK FALSE
