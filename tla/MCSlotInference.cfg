SPECIFICATION Spec
CONSTANTS
    IMEIs = {m1, m2, m3}
    ICCIDs = {i1}
    MaxSlot = 3
    Coms = {1, 2, 3}
    MaxPending = 1
    None = None
    Removed = Removed
SYMMETRY Symmetry
INVARIANTS
    TypeOK
    SlotsUnique
