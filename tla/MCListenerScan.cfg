SPECIFICATION WatchedSpec
CONSTANTS
  NBatches = 3
  Present <- MCPresent
  Workers = {"w0", "w1"}
  Slice <- MCSlice
  Slicers = {"s0"}
  PartSlice <- MCPartSlice
  Reducers = {"seal", "all"}
  Phases <- MCPhases
  MaxInstances = 2
  None = None
  MaxFaults = 1
INVARIANTS ScanTypeOK GoldIsWhole DoneIsInTheLake BatchesInOrder
PROPERTIES ProgressKept MapCompletes
CHECK_DEADLOCK FALSE
