SPECIFICATION FairSpec
CONSTANTS
    MaxMessages = 1
    MaxUnsolicited = 1
    MayDisconnect = TRUE
    CpDuration = 3
    Delays <- AllDelays
    SyncModes = {TRUE, FALSE}
    MaxPMTs = 1
    CpModulus = 4
    MayFailECM = TRUE
INVARIANTS Decodable CurrentReady EcmAligned HandlerGetsECM
PROPERTIES DegradedEnds ShutdownCompletes
CHECK_DEADLOCK FALSE
