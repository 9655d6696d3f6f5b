SPECIFICATION FairSpec
CONSTANTS
    N = 3
    B = 3
    JTUsers = {0, 1}
    IgnoreJT = FALSE
    StreamLength = 3
    MaxInputPkt = 2
    MaxFlushPkt = 0
    StopStuffing = 0
    Statuses = {"OK", "END"}
    MayFailSend = FALSE
    MayInterrupt = FALSE
INVARIANTS WindowInv JointTerminationExact
PROPERTIES NoPacketAfterEnd Termination
