CONSTANTS
  body = body
  arm = arm
  door = door
  lamp = lamp
  bird = bird
  pos = pos
  aim = aim
  bend = bend
  open = open
  lit = lit
  light = light
  height = height
  switch = switch
  step = step
  Vars = {pos, aim, bend, open, lit, light, height}
  NodeOf <- NodeOfVar
  Values = {0, 1, 2}
  Nil = Nil
  Controller = body
  Controlled = {arm}
  Dependable = {door}
  SkipRewinding = {light}
  Told = {pos, bend, open, lit, light, height}
  Stoppable = {arm}
  Targets = {lamp}
  Inputs = {step, Void}
  Void = Void
  Actions = {switch}
  NoAction = NoAction
  Deeds <- SomeDeeds
  Initial <- InitialWorld
  Touches <- SomeTouches
  Process <- Processes
  Control <- Controls
  Act <- Acts
  MaxStorage = 3
  MaxInput = 3
  MaxStates = 1
  MaxStrays = 1
SPECIFICATION Spec
INVARIANTS TypeOK FramesFollowTheServer
PROPERTIES RewindIsAReplay EndSyncTellsTheDifference StoppedNodesAreLeftAlone
