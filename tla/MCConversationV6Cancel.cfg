SPECIFICATION Spec
CONSTANTS
  Turns = {t1, t2}
  DefaultMaxTurns = 1
  GameMaxTurns = 2
INVARIANT CancelledTurnIsOver
CHECK_DEADLOCK FALSE
