SPECIFICATION Spec
CONSTANTS
    VM = {v1}
    MaxVer = 5
    MaxTime = 3
    MS_PER_SEC = 2
    MaxCreations = 0
    MayReboot = FALSE
    MayLapse = FALSE
    Provisioning = FALSE
    Watcher = {"fs", "zoneevent", "periodic"}
INVARIANTS
    NoSilentChange
CHECK_DEADLOCK FALSE
