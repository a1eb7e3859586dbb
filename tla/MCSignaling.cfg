SPECIFICATION SigSpec
CONSTANTS
    MaxSockets = 3
    MaxRenewals = 3
INVARIANT RenewalFromItsSocket
PROPERTY StopEnds
CHECK_DEADLOCK FALSE
