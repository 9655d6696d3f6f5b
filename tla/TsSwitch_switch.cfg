SPECIFICATION Spec
CONSTANTS
    NInputs = 2
    BufferSize = 2
    MaxInputPackets = 1
    FirstInput = 0
    CommandLines <- SwitchLines
    MaxCommands = 1
INVARIANTS NoOverwrite CurrentNotStopped OutputFromSession PrimaryNeverStopped
PROPERTIES PrimaryIsCurrent
CHECK_DEADLOCK FALSE
