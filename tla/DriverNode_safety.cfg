SPECIFICATION Spec
CONSTANTS
  Horizon = 4
  Configs <- Retuned
  Requests <- Asked
  Twists <- FewTwists
  Output <- FewOutput
  LinThreshold = 2
  RotThreshold = 2
  Motors = {m1}
  Period <- MCPeriod
  Slack = 1
  MaxPoseDelay = 2
INVARIANTS
  HeldMeansStopped
  NoStaleMotion
  DriftBounded
  PauseBounded
PROPERTIES
  CorrectionTakenAtRest
  RearmOnlyAfterQuiet
  ImplementsDriveHold
