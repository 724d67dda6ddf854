SPECIFICATION ResourceSpec
CONSTANTS
  c1 = c1
  r1 = r1
  Managers <- MCManagers
  Clients <- MCClients
  Calls <- MCCalls
  Refreshers <- MCRefreshers
  Closers <- MCClosers
  Boxes <- MCBoxes
  Turn = Turn
  NoManager = NoManager
  NoClient = NoClient
  NoBox = NoBox
  MaxRotations = 1
  MaxDrops = 1
  MaxMessages = 2
INVARIANTS
  EndedHoldsNothing
  TurnKeepsSandbox
  ClientsOwned
  FreshAfterRotation
CHECK_DEADLOCK FALSE
