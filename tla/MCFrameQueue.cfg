SPECIFICATION FairSpec
CONSTANTS
    MaxBytes = 3
    Sizes = {1, 2}
    MaxFrames = 5
INVARIANTS
    TypeOK
    OneAtATime
    InOrder
    AtMostOneLate
PROPERTIES
    BacklogHandedOver
CHECK_DEADLOCK FALSE
