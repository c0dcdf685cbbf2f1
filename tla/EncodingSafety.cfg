CONSTANTS
  Unit = 1024
  Grain = 60
  Nil = Nil
  Encoders <- SomeEncoders
  Arguments <- SomeArguments
  MaxFrames = 2
SPECIFICATION Spec
INVARIANTS TypeOK InputsArriveAsMade
CHECK_DEADLOCK FALSE
