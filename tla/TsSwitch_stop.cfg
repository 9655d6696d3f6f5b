SPECIFICATION FairSpec
CONSTANTS
    NInputs = 2
    BufferSize = 2
    MaxInputPackets = 1
    FirstInput = 0
    CommandLines <- StopLines
    MaxCommands = 1
PROPERTIES StopTerminates
CHECK_DEADLOCK FALSE
