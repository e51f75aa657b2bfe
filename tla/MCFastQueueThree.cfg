SPECIFICATION FQSpec
CONSTANTS
    t1 = t1
    t2 = t2
    t3 = t3
    m1 = m1
    m2 = m2
    m3 = m3
    monid = monid
    e1 = e1
    Task = {t1, t2, t3}
    Message = {m1, m2, m3}
    NoMessage = none
    Worker = {w1, w2}
    Provider = {monid}
    Event = {e1}
    TaskOf <- ThreeTasks
    EventOf <- MCEventOf
    ProviderOf <- MCProviderOf
    NoUrl = {t3}
    DailyBudget = 1
    MonthlyBudget = 3
    MaxConcurrent = 2
    LeaseTicks = 0
    CooldownTicks = 1
    FailureThreshold = 3
    PerMinute = 1
    PerDay = 1
    KeepKeys = 2
    DayTicks = 1
    MonthDays = 2
    HourTicks = 1
    MaxTime = 1
    MaxRetries = 1
    MaxFaults = 1
SYMMETRY TaskSymmetry
INVARIANTS
    OverspendBounded
    StrandedHoldsLapse
