CONSTANTS
  void = void
  jump = jump
  walk = walk
  Void = void
  Inputs <- MCInputs
  PlayerInputStorageSize = 3
  MaxRedundantInputs = 1
  MaxInputs = 4
  MaxStates = 1
  MaxGhost = 4
  PacketLoss = FALSE
  PeerToggles = TRUE
SPECIFICATION Spec
INVARIANTS
  TypeOK
  ServerInputsAreThePlayers
  AssertionsHold
  PauseAgreed
PROPERTIES
  OnlySimilarInputsAreDropped
  ImplementsLog
