SPECIFICATION FairSpec
CONSTANTS
    Ports = {p1}
    ICCIDs = {i1, i2}
    Deletable = {}
    Workers = {w1, w2}
    None = None
PROPERTIES
    DisconnectedPortRearmed
    EmptyBayReprobed
