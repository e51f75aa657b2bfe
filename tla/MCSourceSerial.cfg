SPECIFICATION Spec
CONSTANTS
    Ticker = {tick1}
    Families <- BothFamilies
    Interval <- MCInterval
    InFlightTicks = 2
    FailureTicks = 1
    QuotaTicks = 3
    DayTicks = 3
    Universe = 3
    Cohort = 2
    MaxTime = 4
    MaxJobs = 2
    MaxFaults = 1
INVARIANTS
    OneLiveJobUnlessLost
PROPERTIES
    BackoffHonoured
    NeverWedged
    EndedJobsAreObserved
