SPECIFICATION Spec
CONSTANTS
  server = server
  p1 = p1
  c1 = c1
  c2 = c2
  box = box
  offline = offline
  host = host
  join = join
  Nodes = {c1, c2, box}
  Controllers = {c1, c2}
  Peers = {server, p1}
  Owner <- MCOwner
  Switched = {c1}
  Networks = {offline, host, join}
  Kind <- MCKind
  Me <- MCMe
  ServerIds <- MCServerIds
  Nobody = Nobody
  NoId = NoId
  MaxIds = 3
  MaxNetworks = 2
  FirstNetwork = offline
INVARIANTS TypeOK IdsNameTheNodes LinksAreMutual PeersAreServed ControllersFitTheMode
