SPECIFICATION LinkSpec
CONSTANTS
    Labels = {"guest", "phone"}
    Consoles = {"loop"}
    Pairings = {"pairing"}
    Commands = {"link rm"}
    MaxTime = 1
    MaxCode = 3
    MaxEdits = 1
CONSTRAINT OneOtherWriter
INVARIANTS CodesDistinct TableFollowsFile
CHECK_DEADLOCK FALSE
