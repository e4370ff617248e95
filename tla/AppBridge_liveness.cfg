SPECIFICATION FairSpec
CONSTANTS
  here = here
  there = there
  Targets <- OneTarget
  MaxRetries = 2
  ValidationTimeout = 1
  MaxPoseDelay = 1
  MaxUserMessages = 2
  ServerMayRefuse = TRUE
PROPERTY
  EveryRequestAnswered
