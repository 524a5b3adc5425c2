SPECIFICATION Spec
CONSTANTS
  Cues = {speak, error}
  TechnicalError = error
  Required = {need}
  Recovered = {back}
  Capacity = 3
INVARIANTS
  ArbiterInv
  NothingLost
  WaitTellsTruth
  NoSleepOverWork
PROPERTIES
  CueIsHeard
  DeferredIsPlayed
CHECK_DEADLOCK FALSE
