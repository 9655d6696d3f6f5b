SPECIFICATION FairSpec
CONSTANTS
    NInputs = 2
    BufferSize = 2
    MaxInputPackets = 1
    FirstInput = 0
    CommandLines <- CycleLines
    MaxCommands = 0
INVARIANTS TypeOK SingleSession
PROPERTIES Termination ActionsComplete
CHECK_DEADLOCK FALSE
