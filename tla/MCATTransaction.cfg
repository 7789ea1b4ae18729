SPECIFICATION Spec
CONSTANTS
    ATClients = {}
    SMSClients = {s1, s2}
    PollClients = {}
    PhoneMissing = FALSE
    Segments = 2
    QueueCap = 1
    RxCap = 2
    MaxURC = 1
    None = None
SYMMETRY Symmetry
CHECK_DEADLOCK FALSE
INVARIANTS
    ReportedSentWasAccepted
    PromptHeldByTransaction
