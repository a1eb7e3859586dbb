SPECIFICATION Spec
CONSTANTS
    MaxBytes = 3
    Sizes = {1, 2}
    MaxFrames = 5
INVARIANT NoOvertaking
CHECK_DEADLOCK FALSE
