SPECIFICATION Spec
CONSTANTS
    SIMs = {s1}
    RunAlls = {r1, r2}
    RunOnes = {f1}
    MaxPerMonth = 2
    Interval = 2
    Months = {0, 1}
    MonthOf <- MonthOfDay
    MaxDay = 4
    MaxLost = 1
    None = None
SYMMETRY Symmetry
INVARIANTS
    TypeOK
    LoggedWithinCap
    OverspendingWasLost
PROPERTIES
    NoDoubleSend
