SPECIFICATION LinkSpec
CONSTANTS
  Turns = {t1, t2, t3, t4}
  DefaultMaxTurns = 1
  GameMaxTurns = 2
  MaxFailures = 0
INVARIANTS
  InStep
  HealthyConversation
  StartWillBeAccepted
CHECK_DEADLOCK FALSE
