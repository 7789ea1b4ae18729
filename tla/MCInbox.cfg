SPECIFICATION FairSpec
CONSTANTS
    BalancePdus = {b1}
    NumberPdus = {n1}
    OtherPdus = {}
    BadPdus = {x1}
    Lookups = {q1}
    StoreSize = 2
    MaxArrivals = 2
    MaxCrashes = 2
    None = None
INVARIANTS
    NothingLost
    DeliveredOnce
    CapturedOnRequest
PROPERTIES
    EventuallyReceived
