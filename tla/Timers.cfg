SPECIFICATION TimersSpec
CONSTANTS
  e1 = e1
  e2 = e2
  p1 = p1
  p2 = p2
  d1 = d1
  d2 = d2
  q1 = q1
  q2 = q2
  Events <- MCEvents
  Passes <- MCPasses
  NoEvent = NoEvent
  MaxAttempts = 2
  MinDelay = 1
  FirstCeiling = 1
  MaxDelay = 1
  FailureWindow = 2
  Batch = 1
  MaxPost = 1
  MaxCrashes = 1
  Deployments <- MCDeployments
  DuePasses <- MCDuePasses
  Period = 2
  MaxJitter = 1
  Due = 2
  MaxChanges = 3
  MaxRestarts = 1
INVARIANTS
  NotResent
PROPERTIES
  DisabledAfterOutage
  DeliveriesSettle
  CadenceKeepsRunning
CHECK_DEADLOCK FALSE
