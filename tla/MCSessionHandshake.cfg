SPECIFICATION FairSpec
CONSTANTS
    PinSettings = {TRUE, FALSE}
    PeerKinds = {"client", "any"}
    Versions = {0, 3, 4, 5}
    StreamIDs = {1}
    MaxMessages = 4
INVARIANTS
    PinGate
    NoStreamAfterClose
    EstablishedTogether
PROPERTIES
    HandshakeEnds
CHECK_DEADLOCK FALSE
