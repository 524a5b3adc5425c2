SPECIFICATION FairSpec
CONSTANTS
  Turns = {t1, t2}
  DefaultMaxTurns = 1
  GameMaxTurns = 1
PROPERTIES
  EndedTurnIsAnswered
  StopEnds
CHECK_DEADLOCK FALSE
