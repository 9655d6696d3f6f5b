SPECIFICATION FairSpec
CONSTANTS
    MaxMessages = 2
    Producers = {p1, p2, p3}
    MaxLogs = 2
    SyncModes = {TRUE, FALSE}
    MayFatal = TRUE
INVARIANTS Accounted LoggedInOrder
PROPERTIES ReportTerminates FatalExits
CHECK_DEADLOCK FALSE
