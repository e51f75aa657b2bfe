SPECIFICATION ChainSpec
CONSTANTS
    Deployments = {}
    Ticks = {}
    Crons = {cron1}
    MaxFailures = 2
    MaxGenerations = 2
    MaxFaults = 1
    MaxGold = 2
    MaxNights = 1
    MaxRuns = 2
PROPERTIES
    FailedBuildsAreRetried
