SPECIFICATION HPSpec
CONSTANTS
    Deployments = {production, staging}
    Ticks = {tick1}
    MaxFailures = 2
    MaxGenerations = 2
    MaxFaults = 0
INVARIANTS
    HostedIsServed
