SPECIFICATION FairSpec
CONSTANTS
  Horizon = 4
  Configs <- Launched
  Requests <- Nothing
  Twists <- Creeps
  Output <- CreepsOutput
  LinThreshold = 2
  RotThreshold = 2
  Motors = {m1, m2}
  Period <- MCPeriod
  Slack = 0
  MaxPoseDelay = 1
INVARIANTS
  TypeOK
PROPERTIES
  QuietFaultRearms
  WheelsStop
  EveryPauseEnds
