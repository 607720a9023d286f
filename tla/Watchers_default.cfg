SPECIFICATION Spec
CONSTANTS
    VM = {v1}
    MaxVer = 3
    MaxTime = 2
    MS_PER_SEC = 2
    MaxCreations = 0
    MayReboot = FALSE
    MayLapse = TRUE
    Provisioning = FALSE
    Watcher = {"fs", "zoneevent", "periodic"}
INVARIANTS
    NoSilentChange
CHECK_DEADLOCK FALSE
