SPECIFICATION HPSpec
CONSTANTS
    Deployments = {production}
    Ticks = {tick1, tick2}
    MaxFailures = 2
    MaxGenerations = 2
    MaxFaults = 2
INVARIANTS
    HostedIsServed
    RestartedOnce
PROPERTIES
    PromotionSettles
