SPECIFICATION Spec
CONSTANTS
  Releases = {r1, r2}
  Factory = factory
INVARIANTS
  UpdateInv
  AlwaysBoots
  TrialIsNamed
PROPERTIES
  TrialEnds
