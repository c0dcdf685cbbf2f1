CONSTANTS
  Unit = 1024
  Grain = 60
  Nil = Nil
  Encoders <- TwoAims
  Arguments <- SomeArguments
  MaxFrames = 2
SPECIFICATION Spec
INVARIANT DuplicatesAreTheSame
CHECK_DEADLOCK FALSE
