SPECIFICATION FairSpec
CONSTANTS
  MaxBytes = 2
  Sizes <- MCSizes
  MaxPuts = 3
  Readers = {r1, r2}
  Hooks = {h1}
INVARIANTS
  QueueInv
  EndMeansAll
  NoHookForgotten
PROPERTIES
  ImplementsStream
  NobodyStaysBlocked
CHECK_DEADLOCK FALSE
