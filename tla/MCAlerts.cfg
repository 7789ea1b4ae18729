SPECIFICATION FairSpec
CONSTANTS
    Runs = {r1}
    HealthKinds = {"no_sms"}
    Day = 1
    Remind = 1
    Limit = 1
    None = None
PROPERTIES
    AlertsApart
    Reminded
