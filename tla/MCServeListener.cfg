CONSTANTS
    ClientIDs = {c1}
    Codes = {k1}
    MaxUnauthSessions = 1
    Pairing = FALSE
    MaxPeers = 2
SPECIFICATION Spec
INVARIANTS SlotsCounted ClosedKeepsNothing OpenPeerIsRegistered
CHECK_DEADLOCK FALSE
