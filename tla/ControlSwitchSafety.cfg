CONSTANTS
  MaxSwitches = 3
  MaxInputs = 3
  MaxMessages = 4
SPECIFICATION Spec
INVARIANTS TypeOK OnePilot
