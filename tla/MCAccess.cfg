SPECIFICATION FairSpec
CONSTANTS
    SIMs = {"s1", "s2"}
    Perms = {"view_sms", "send_at"}
    View = "view_sms"
    Orders <- MCOrders
    Handlers = {1, 2}
    Filters = {"s1", "*"}
    MaxRecords = 1
    MaxSMS = 2
    MaxOps = 2
INVARIANTS ListMatchesCheck SettledAsOrdered NothingSkipped
PROPERTY FeedDelivers
CHECK_DEADLOCK FALSE
