SPECIFICATION FairSpec
CONSTANTS
    N = 2
    B = 3
    JTUsers = {}
    IgnoreJT = FALSE
    StreamLength = 4
    MaxInputPkt = 0
    MaxFlushPkt = 2
    StopStuffing = 1
    Statuses = {"OK", "DROP"}
    MayFailSend = TRUE
    MayInterrupt = TRUE
INVARIANTS TypeOK WindowsPartition NoSharedPacket PassAssertions DeliveredFaithful OutputComplete
PROPERTIES Termination
