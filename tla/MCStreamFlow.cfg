SPECIFICATION FairSpec
CONSTANTS
    Window = 4
    Threshold = 2
    MaxFrames = 3
    Chunk = 2
    SynSizes = {1}
    Total = 7
    Receivers = {"listener", "client"}
INVARIANTS
    TypeOK
    CompliantSenderNotAccused
    NoCreditDeadlock
    QueueAccounted
PROPERTIES
    WriterProceeds
    StreamCompletes
CHECK_DEADLOCK FALSE
