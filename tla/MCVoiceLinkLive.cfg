SPECIFICATION LinkFairSpec
CONSTANTS
  Turns = {t1, t2}
  DefaultMaxTurns = 1
  GameMaxTurns = 1
  MaxFailures = 1
PROPERTIES
  DeviceComesBack
  ServerLetsGo
CHECK_DEADLOCK FALSE
