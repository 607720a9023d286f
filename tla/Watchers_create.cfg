SPECIFICATION Spec
CONSTANTS
    VM = {v1}
    MaxVer = 4
    MaxTime = 2
    MS_PER_SEC = 2
    MaxCreations = 1
    MayReboot = FALSE
    MayLapse = FALSE
    Provisioning = FALSE
    Watcher = {"fs", "periodic"}
INVARIANTS
    NoSilentChangeOfAny
CHECK_DEADLOCK FALSE
