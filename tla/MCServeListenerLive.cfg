CONSTANTS
    ClientIDs = {c1}
    Codes = {k1}
    MaxUnauthSessions = 1
    Pairing = TRUE
    MaxPeers = 1
SPECIFICATION FairSpec
PROPERTIES SlotsReturn ClosedIsForgotten RevocationTakesEffect
CHECK_DEADLOCK FALSE
