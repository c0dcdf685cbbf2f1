SPECIFICATION Spec
CONSTANTS
  a1 = a1
  a2 = a2
  b1 = b1
  one = one
  two = two
  x1 = x1
  x2 = x2
  Variables = {a1, a2, b1}
  NodeOf <- MCNodeOf
  Values = {x1, x2}
  Listeners = {one, two}
  ArgumentCount <- MCArgumentCount
  Tracks <- MCTracks
  Events <- SomeEvents
  Batches <- SomeBatches
  MaxCalls = 1
  Unset = Unset
  Nobody = Nobody
SYMMETRY ValuesAreAlike
INVARIANTS TypeOK WatchersAgree
PROPERTY ChangesAreTold
