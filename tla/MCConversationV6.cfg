SPECIFICATION Spec
CONSTANTS
  Turns = {t1, t2, t3}
  DefaultMaxTurns = 1
  GameMaxTurns = 2
SYMMETRY TurnSymmetry
INVARIANTS
  EventsInOrder
  CancelIsBarrier
  WithinTurnLimit
  ProcessTurnAccepts
  ContextInOrder
  NoOrphanInTime
CHECK_DEADLOCK FALSE
