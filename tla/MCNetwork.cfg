SPECIFICATION Spec
CONSTANTS
  Ssids = {a, b}
  Capacity = 1
  Build = {b}
  Before = a
  Strengths = {1, 2}
  MaxExits = 1
INVARIANTS
  CredentialsSurvive
  FlagIsTrue
PROPERTIES
  PortalKeepsItsSession
  OutageIsTold
  SetupContinues
