SPECIFICATION Spec
CONSTANTS
  c1 = c1
  c2 = c2
  Calls <- MCCalls
  NoCall = NoCall
  NoBudget = NoBudget
  InitialCap = 1
  Caps <- MCCaps
  MaxSpend = 1
  MaxQueue = 2
  MaxRetries = 1
INVARIANT RunningHasWork
INVARIANT ToolsRunOnceApproved
INVARIANT ExecutedCallsPaired
INVARIANT ConfirmationNotForgotten
PROPERTY NoRunAfterAnswer
PROPERTY PublishedStatusHolds
PROPERTY RunningSettles
CHECK_DEADLOCK FALSE
