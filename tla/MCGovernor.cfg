SPECIFICATION MCSpec
CONSTANTS
    Task = {t1, t2, t3}
    Provider = {monid}
    Event = {e1}
    DailyBudget = 1
    MonthlyBudget = 2
    MaxConcurrent = 2
    LeaseTicks = 1
    CooldownTicks = 1
    FailureThreshold = 1
    PerMinute = 1
    PerDay = 1
    KeepKeys = 2
    DayTicks = 1
    MonthDays = 3
    MaxTime = 3
    MaxSpend = 3
    MaxFailures = 1
    MaxRequests = 1
SYMMETRY TaskSymmetry
INVARIANTS
    TypeOK
    LeasesWithinLimit
    DailyLedger
PROPERTIES
    DayLedgerSpec
