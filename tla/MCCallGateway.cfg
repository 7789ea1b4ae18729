SPECIFICATION Spec
CONSTANTS
    Invites = {i1, i2}
    Rings = {m1}
    Dials = {d1}
    MaxSessions = 2
    MaxGateways = 2
    MaxStarted = 2
    MaxLines = 3
    None = None
SYMMETRY Symmetry
INVARIANTS
    LoopNeverWaits
    ActiveLegIsOpen
    ModemReleased
    StateFollowsModem
    LegHasCall
CHECK_DEADLOCK FALSE
