SPECIFICATION JobsSpec
CONSTANTS
  m1 = m1
  m2 = m2
  s1 = s1
  DreamIds <- MCDreamIds
  Sweeps <- MCSweeps
  MaxSessions = 2
  MaxDisturbances = 1
  MaxOutcomes = 2
  MaxIterations = 2
  MaxOthers = 1
  MaxCrashes = 1
INVARIANTS
  EndedDreamReleases
  OneWriterUnlessAborted
  ReportFollowsLoop
PROPERTIES
  DreamsSettle
  VerdictHolds
  OutcomeSettles
CHECK_DEADLOCK FALSE
