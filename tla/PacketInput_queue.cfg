SPECIFICATION FairSpec
CONSTANTS
    Size = 4
    Users = {"push", "merge"}
    MaxPackets = 6
    MaxChunk = 4
    MaxRead = 2
    MinLock = 3
    MaxSessions = 2
    MaxAborts = 2
    RepeatCount = 2
    IgnoreErrors = TRUE
INVARIANT WindowIsFree
PROPERTIES ImplementsFifo StopCompletes EofNoticed SpaceOrStop AbortUnblocks
CHECK_DEADLOCK FALSE
