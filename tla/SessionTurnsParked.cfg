SPECIFICATION Spec
CONSTANTS
  c1 = c1
  c2 = c2
  Calls <- MCCalls
  NoCall = NoCall
  NoBudget = NoBudget
  InitialCap = 1
  Caps <- MCCaps
  MaxSpend = 1
  MaxQueue = 2
  MaxRetries = 1
PROPERTY NoRequestWhileParked
CHECK_DEADLOCK FALSE
