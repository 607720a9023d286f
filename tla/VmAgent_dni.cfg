SPECIFICATION Spec
CONSTANTS
    VM = {v1}
    NoVm = NoVm
    MaxVer = 4
    MayFlagDni = TRUE
    INITIAL_UPDATE_DELAY_MS = 1
    MAX_UPDATE_DELAY_MS = 3
    MaxCrashes = 1
    MayStop = FALSE
INVARIANTS
    TypeOK
    RecordsAreReal
PROPERTIES
    ImplementsInventory
    RecordsMoveForward
