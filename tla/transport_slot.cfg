SPECIFICATION Spec
CONSTANTS
    Slot = {1, 2}
    NoSlot = NoSlot
    MaxConn = 2
    Scripts <- SomeScripts
    MaxLine = 2
    OutputCap = 4
    MessageLen = 2
    ChunkSize = 2
    MaxMessages = 2
INVARIANTS
    StreamIntact
CHECK_DEADLOCK FALSE
