SPECIFICATION Spec
CONSTANTS
    NInputs = 2
    BufferSize = 2
    MaxInputPackets = 1
    FirstInput = 0
    CommandLines <- FastLines
    MaxCommands = 1
INVARIANTS FreeOutputAssertion
