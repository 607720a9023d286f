SPECIFICATION FairSpec
CONSTANTS
    VM = {v1}
    MaxVer = 1
    MaxTime = 1
    MS_PER_SEC = 2
    MaxCreations = 1
    MayReboot = FALSE
    Provisioning = FALSE
    MaxStreams = 3
    MayFailEarly = TRUE
PROPERTIES
    StartupEnds
CHECK_DEADLOCK FALSE
