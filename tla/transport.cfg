SPECIFICATION FairSpec
CONSTANTS
    Slot = {1, 2}
    MaxConn = 2
    NoSlot = NoSlot
    Scripts <- SomeScripts
    MaxLine = 2
    OutputCap = 4
    MessageLen = 2
    ChunkSize = 2
    MaxMessages = 2
INVARIANTS
    TypeOK
    StreamAccounted
    LinesWhole
    OutputWhole
    BuffersFit
PROPERTIES
    Drains
CHECK_DEADLOCK FALSE
