SPECIFICATION Spec
CONSTANTS
  Tunings <- Usual
  Retunings <- Weaker
  Commands <- FewPairs
  WritesMayFail = FALSE
PROPERTY
  PulsesFollowCommand
