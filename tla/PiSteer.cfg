SPECIFICATION EngineSpec
CONSTANTS
  c1 = c1
  c2 = c2
  i1 = i1
  o1 = o1
  o2 = o2
  o3 = o3
  Calls <- MCCalls
  NoCall = NoCall
  Inputs <- MCInputs
  NoInput = NoInput
  Owners <- MCOwners
  NoOwner = NoOwner
  MaxTurns = 2
  MaxFrames = 2
  MaxRestarts = 1
  StaleAfter = 2
  BeatEvery = 1
  MaxStalls = 1
  MaxDeaths = 1
PROPERTY RejectedNotApplied
CHECK_DEADLOCK FALSE
