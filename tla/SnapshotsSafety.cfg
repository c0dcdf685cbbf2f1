CONSTANTS
  c1 = c1
  c2 = c2
  n1 = n1
  n2 = n2
  Clients = {c1}
  Crowd = TRUE
  Nodes = {n1, n2}
  NumVars <- VarsEach
  x1 = x1
  x2 = x2
  Values = {x1, x2}
  Unset = Unset
  Scene = Scene
  Owner <- Characters
  Loaded <- LoadedNodes
  Toggled = {c1}
  MaxMessages <- FewMessages
  MaxRequests = 1
SPECIFICATION Spec
SYMMETRY ValuesAreAlike
INVARIANTS TypeOK NothingIsUntold GapsAreAnswered
PROPERTIES StartsWithEverything ImplementsCopies
