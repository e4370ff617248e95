SPECIFICATION Spec
CONSTANTS
  Horizon = 5
  Configs <- Launched
  Requests <- Nothing
  Twists <- FewTwists
  Output <- FewOutput
  LinThreshold = 2
  RotThreshold = 2
  Motors = {m1, m2}
  Period <- MCPeriod
  Slack = 0
  MaxPoseDelay = 2
INVARIANT
  StopIsImmediate
