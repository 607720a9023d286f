SPECIFICATION FairSpec
CONSTANTS
    VM = {v1}
    NoVm = NoVm
    MaxVer = 3
    MayFlagDni = FALSE
    INITIAL_UPDATE_DELAY_MS = 1
    MAX_UPDATE_DELAY_MS = 3
    MaxCrashes = 1
    MayStop = TRUE
PROPERTIES
    QuietAfterStop
    StopDrains
    Converges
CHECK_DEADLOCK FALSE
