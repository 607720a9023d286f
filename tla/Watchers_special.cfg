SPECIFICATION Spec
CONSTANTS
    VM = {v1}
    MaxVer = 4
    MaxTime = 3
    MS_PER_SEC = 2
    MaxCreations = 1
    MayReboot = FALSE
    MayLapse = FALSE
    Provisioning = TRUE
    Watcher = {"vmadm"}
INVARIANTS
    NoSilentChangeOfAny
CHECK_DEADLOCK FALSE
