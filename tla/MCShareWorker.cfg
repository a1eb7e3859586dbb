SPECIFICATION Spec
CONSTANTS
    ClientIDs = {c1, c2}
    Roles = {"control", "view"}
    MaxViewers = 1
    SparePeers = 1
    MaxPeers = 2
INVARIANTS
    ViewerSlotsExact
    KeyboardHandedOver
    TornDownKeepsNothing
    StopLeavesNobody
CHECK_DEADLOCK FALSE
