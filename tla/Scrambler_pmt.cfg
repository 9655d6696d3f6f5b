SPECIFICATION Spec
CONSTANTS
    MaxMessages = 3
    MaxUnsolicited = 0
    MayDisconnect = FALSE
    CpDuration = 3
    Delays <- AllDelays
    SyncModes = {TRUE, FALSE}
    MaxPMTs = 2
    CpModulus = 4
    MayFailECM = FALSE
INVARIANTS EcmAligned
CHECK_DEADLOCK FALSE
