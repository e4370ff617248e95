SPECIFICATION FairSpec
CONSTANTS
  Tunings <- Tries
  Retunings <- Stronger
  Commands <- FewPairs
  WritesMayFail = TRUE
INVARIANTS
  TypeOK
  AccumulatorBounded
  AverageTracksCommand
PROPERTIES
  PulsesFollowCommand
  FirstPulseAtOnce
  WeakCommandKeepsMoving
