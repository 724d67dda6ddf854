SPECIFICATION MemorySpec
CONSTANTS
  f1 = f1
  Paths <- MCPaths
  MaxWrites = 3
PROPERTY StoreWins
CHECK_DEADLOCK FALSE
