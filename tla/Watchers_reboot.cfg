SPECIFICATION Spec
CONSTANTS
    VM = {v1}
    MaxVer = 5
    MaxTime = 1
    MS_PER_SEC = 2
    MaxCreations = 0
    MayReboot = TRUE
    MayLapse = FALSE
    Provisioning = FALSE
    Watcher = {"zoneevent", "periodic"}
INVARIANTS
    NoSilentChangeOfAny
CHECK_DEADLOCK FALSE
