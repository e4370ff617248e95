SPECIFICATION Spec
CONSTANTS
  here = here
  there = there
  Targets <- OneTarget
  MaxRetries = 1
  ValidationTimeout = 1
  MaxPoseDelay = 1
  MaxUserMessages = 3
  ServerMayRefuse = TRUE
INVARIANT
  CancelIsComplete
