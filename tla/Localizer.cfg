SPECIFICATION Spec
CONSTANTS
  Start <- MCStart
  Steps <- MCSteps
  Offset <- MCOffset
  Settle = 2
  WaitTimeout = 2
  MaxLag = 1
  MaxDelay = 2
  MaxQueue = 1
  MaxSteps = 2
INVARIANTS
  TypeOK
  PauseFixIsExact
PROPERTY
  PictureTakenAtRest
