CONSTANTS
  c1 = c1
  c2 = c2
  Server = Server
  Clients = {c1, c2}
  Triggerers = {c1}
  ClientCanTrigger = TRUE
  ServerCanTrigger = FALSE
  Recipients = {{}}
  Redundancy = 1
  MaxFrames <- BothPlay
  MaxOwn = 1
  MaxServerOwn = 1
SPECIFICATION Spec
INVARIANT RewindReplays
