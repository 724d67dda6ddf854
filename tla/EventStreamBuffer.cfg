SPECIFICATION StreamSpec
CONSTANTS
  MaxLog = 4
  MaxSteps = 1
  MaxChunks = 2
  OptIns <- MCOptIns
INVARIANT BufferedArrives
CHECK_DEADLOCK FALSE
