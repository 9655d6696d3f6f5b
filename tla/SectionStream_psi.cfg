SPECIFICATION Spec
CONSTANTS
    PayloadSize = 8
    ShortHeader = 2
    LongHeader = 3
    MinSection = 4
    MaxSection = 20
    CC_MAX = 3
    TIDs = {"PMT", "CAT"}
    TableSizes <- TwoVersions
    Files <- BothFiles
    Repetition <- Rates
    Bitrates = {0, 1}
    Policies = {"NEVER", "AT_END", "ALWAYS"}
    Junk <- JunkContents
    MayTruncate = TRUE
    MaxPackets = 5
    MaxFaults = 3
    MaxCommands = 1
INVARIANTS CycleAccounting SectionsInOrder SectionsNotMissed TablesConsistent
CHECK_DEADLOCK FALSE
