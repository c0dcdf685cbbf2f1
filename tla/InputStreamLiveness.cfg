CONSTANTS
  void = void
  jump = jump
  walk = walk
  Void = void
  Inputs = {void, walk}
  PlayerInputStorageSize = 2
  MaxRedundantInputs = 0
  MaxInputs = 3
  MaxStates = 1
  MaxGhost = 3
  PacketLoss = TRUE
  PeerToggles = TRUE
SPECIFICATION FairSpec
PROPERTIES
  ReceivedIsConsumed
  StorageDrainsUnlessLost
