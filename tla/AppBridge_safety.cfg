SPECIFICATION Spec
CONSTANTS
  here = here
  there = there
  Targets <- MCTargets
  MaxRetries = 1
  ValidationTimeout = 1
  MaxPoseDelay = 1
  MaxUserMessages = 3
  ServerMayRefuse = TRUE
SYMMETRY TargetSymmetry
INVARIANTS
  TypeOK
  OneVerdictPerRequest
  RetriesBounded
  SuccessIsEarned
  NothingRunsUntracked
  OnePhaseAtATime
