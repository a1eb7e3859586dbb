SPECIFICATION ConsoleSpec
CONSTANTS
    Pairs = {p1, p2}
    MaxAttempts = 1
    MaxQuestions = 1
PROPERTIES
    PairingInterruptsLoop
    LoopComesBack
CHECK_DEADLOCK FALSE
