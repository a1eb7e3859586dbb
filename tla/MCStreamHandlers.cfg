SPECIFICATION Spec
CONSTANTS
    UpPieces = 1
    DownPieces = 1
    FileSize = 3
    Shells = {s1, s2}
    Owners = {s2}
    MaxConcurrent = 1
    OutMax = 1
    BodyPieces = 3
    SniffMax = 2
    ReplyPieces = 1
INVARIANTS
    PutIsWhole
    ExitAfterOutput
PROPERTIES
    PipesImplemented
    ForwardEnds
    TransferEnds
    ShellSlotReturned
    AbortedIsReleased
CHECK_DEADLOCK FALSE
