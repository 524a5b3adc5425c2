SPECIFICATION Spec
CONSTANTS
  Preroll = 1
  Hold = 2
  Arm = 1
  Patience = 5
  MinPcm = 4
  MaxPcm = 6
  Silence = 2
  DmaChunks = 1
  MaxLost = 1
  MaxFaults = 2
  MaxQuestions = 2
  MaxPresses = 2
INVARIANTS
  MicHasOneUser
  SpeechIsWhole
PROPERTIES
  ListensAgain
