SPECIFICATION SSSpec
CONSTANTS
  Events = {"e1"}
  Markets <- OneMarket
  Reports <- TwoReports
  Legacy <- NoLegacy
  None = None
  MaxRuns = 2
  MaxFaults = 1
  Publishers = {"p1"}
  Ids = {s1, s2}
INVARIANTS EATypeOK OrphansNeedCrashes AlertsAreTaped NewEventsAreAnnounced CurrentOpens ServedIsOneCut
SYMMETRY Interchangeable
