SPECIFICATION Spec
CONSTANTS
  w1 = w1
  w2 = w2
  client = client
  s1 = s1
  Nobody = Nobody
  Items <- MCItems
  Sessions <- MCSessions
  Workers <- MCWorkers
  Callers <- MCCallers
  Awaited <- MCAwaited
  MaxBeats = 1
  MaxLate = 1
INVARIANT
  TimedOutNeverRuns
