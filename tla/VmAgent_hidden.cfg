SPECIFICATION Spec
CONSTANTS
    VM = {v1}
    NoVm = NoVm
    MaxVer = 2
    MayFlagDni = TRUE
    INITIAL_UPDATE_DELAY_MS = 1
    MAX_UPDATE_DELAY_MS = 3
    MaxCrashes = 0
    MayStop = FALSE
INVARIANT NoUpdateWhileHidden
