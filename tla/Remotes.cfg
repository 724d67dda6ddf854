SPECIFICATION RemotesSpec
CONSTANTS
  w1 = w1
  w2 = w2
  client = client
  s1 = s1
  f1 = f1
  Nobody = Nobody
  Items <- MCItems
  Sessions <- MCSessions
  Workers <- MCWorkers
  Callers <- MCCallers
  Awaited <- MCAwaited
  MaxBeats = 1
  MaxLate = 1
  Paths <- MCPaths
  MaxWrites = 3
  MaxLog = 4
  MaxSteps = 1
  MaxChunks = 2
  OptIns <- MCOptIns
INVARIANTS
  RunOnce
  EditsReachStore
  InOrderOnce
  EverythingElseArrives
  CaughtUp
PROPERTIES
  HonestTimeout
  EndedWorkNeverRuns
  ChainHolds
  AcceptedSettles
CHECK_DEADLOCK FALSE
