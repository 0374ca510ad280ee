SPECIFICATION Spec
CONSTANTS
  t1 = t1
  t2 = t2
  Turns <- MCTurns
  MaxSteps = 2
  MaxAttempts = 2
  MaxActive = 2
  MaxTurns = 3
  MaxClears = 1
INVARIANTS
  TurnTypeOK
  ExchangesPaired
  RecordedUnlessCut
  WaitingHasCause
PROPERTY
  TurnsEnd
CHECK_DEADLOCK FALSE
