SPECIFICATION Spec
CONSTANTS
  t1 = t1
  t2 = t2
  s1 = s1
  s2 = s2
  s3 = s3
  Threads <- MCThreads
  Sockets <- MCSockets
  NoThread = NoThread
  NoSocket = NoSocket
  NoCall = NoCall
  MaxCalls = 2
  Pieces <- MCPieces
  MaxStops = 1
INVARIANTS
  BridgeTypeOK
  SimulatedHasCause
PROPERTIES
  StrayHasCause
  CallsReturn
CHECK_DEADLOCK FALSE
