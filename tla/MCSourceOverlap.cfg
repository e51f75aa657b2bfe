SPECIFICATION Spec
CONSTANTS
    Ticker = {tick1, tick2}
    Families <- OnlySpotify
    Interval <- MCInterval
    InFlightTicks = 1
    FailureTicks = 1
    QuotaTicks = 2
    DayTicks = 3
    Universe = 3
    Cohort = 2
    MaxTime = 1
    MaxJobs = 3
    MaxFaults = 0
SYMMETRY TickerSymmetry
INVARIANTS
    TypeOK
    CursorFollowsPublication
