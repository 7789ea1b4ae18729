SPECIFICATION Spec
CONSTANTS
    IMEIs = {m1, m2}
    ICCIDs = {i1, i2}
    MaxSlot = 2
    Coms = {0}
    MaxPending = 2
    None = None
    Removed = Removed
SYMMETRY Symmetry
INVARIANTS
    CacheUnique
    SlotsUnique
    CacheFollowsBay
    InOneBay
    HistoryMatchesBays
