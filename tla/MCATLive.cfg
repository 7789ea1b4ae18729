SPECIFICATION FairSpec
CONSTANTS
    ATClients = {}
    SMSClients = {s1}
    PollClients = {poll}
    PhoneMissing = TRUE
    Segments = 1
    QueueCap = 1
    RxCap = 1
    MaxURC = 0
    None = None
CHECK_DEADLOCK FALSE
PROPERTIES
    CallersReturnOrLookup
    StopEndsLoop
    StopEndsReader
