CONSTANTS
  MaxEpoch = 3
  MaxSwitches = 1
  MaxPauses = 1
  Thresholds = {2}
  Steps = 2
  Overshot = 1
  Increments = {1}
  OwnerToggles = TRUE
  ViewerToggles = TRUE
SPECIFICATION Spec
INVARIANTS
  TypeOK
  PausedDollTakesNoBatch
  NewestIsTakenUnswitched
PROPERTIES
  NeverGoesBack
