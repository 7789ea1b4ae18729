SPECIFICATION Spec
CONSTANTS
    Runs = {b1, b2}
    Restores = {h1, h2}
    Keep = 1
    Uploads = {u}
    MaxVersion = 1
    MaxSecond = 1
    None = None
    Torn = Torn
SYMMETRY Symmetry
INVARIANTS
    ListedCopiesIntact
    ReportedCopyKept
PROPERTIES
    AtomicRestore
