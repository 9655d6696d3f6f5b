SPECIFICATION Spec
CONSTANTS
    PayloadSize = 8
    ShortHeader = 2
    LongHeader = 3
    MinSection = 4
    MaxSection = 20
    CC_MAX = 3
    TIDs = {"PMT", "CAT"}
    TableSizes <- TwoVersions
    Files <- BothFiles
    Repetition <- Rates
    Bitrates = {0, 1}
    Policies = {"NEVER", "AT_END", "ALWAYS"}
    Junk <- JunkContents
    MayTruncate = FALSE
    MaxPackets = 6
    MaxFaults = 0
    MaxCommands = 2
INVARIANT CycleBoundarySeen
CHECK_DEADLOCK FALSE
