SPECIFICATION Spec
CONSTANTS
  s1 = s1
  Sessions = {s1}
  Arbiter = Arbiter
  Pipeline = Pipeline
  Nobody = Nobody
  Users <- MCUsers
  Frames <- MCFrames
  Pieces <- MCPieces
  BufferPieces = 1
  PrebufferPieces = 1
  EncodedMax = 1
  PcmMax = 1
INVARIANTS
  SpeakerHasOneUser
  NothingFreedInUse
PROPERTIES
  HeardWhole
  PlaybackSettles
CHECK_DEADLOCK FALSE
