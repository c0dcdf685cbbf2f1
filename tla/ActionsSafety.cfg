CONSTANTS
  c1 = c1
  c2 = c2
  Server = Server
  Clients = {c1, c2}
  Triggerers = {c1}
  ClientCanTrigger = TRUE
  ServerCanTrigger = FALSE
  Recipients = {{c1}}
  Redundancy = 2
  MaxFrames <- OnePlays
  MaxOwn = 1
  MaxServerOwn = 2
SPECIFICATION Spec
INVARIANTS TypeOK IssuedOnce ExecutedOnce NeverTooLate OwnIsReplayed
