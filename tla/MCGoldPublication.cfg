SPECIFICATION GPSpec
CONSTANTS
  Families <- AllFamilies
  Runners = {r1, r2}
  JobIds = {j1, j2}
  Rows = {x1, x2}
  MaxTicks = 1
  None = None
  MaxAttempts = 3
  MaxFaults <- FaultsOf
INVARIANTS GPTypeOK CurrentIsVerified TapeIsWhatWasPlanned ManifestTellsTheTruth
PROPERTIES CurrentNeverRegresses
SYMMETRY Interchangeable
CHECK_DEADLOCK FALSE
