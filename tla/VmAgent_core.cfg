SPECIFICATION Spec
CONSTANTS
    VM = {v1, v2}
    NoVm = NoVm
    MaxVer = 2
    MayFlagDni = FALSE
    INITIAL_UPDATE_DELAY_MS = 1
    MAX_UPDATE_DELAY_MS = 2
    MaxCrashes = 0
    MayStop = FALSE
    Field = {state, alias, quota, brand}
    Defaulted = {state, alias, quota}
    AlwaysSet = {alias, quota}
    Value = {default, a, b}
    Default = default
SYMMETRY Symmetry
INVARIANTS
    NoLostChange
    BackoffMatchesRetry
