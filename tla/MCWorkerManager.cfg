SPECIFICATION Spec
CONSTANTS
    Ports = {p1, p2}
    ICCIDs = {i1}
    Deletable = {i1}
    Workers = {w1, w2, w3}
    None = None
SYMMETRY Symmetry
INVARIANTS
    TypeOK
    LiveWorkerIsManaged
    RegisteredHoldsClaim
    OneWorkerPerSIM
