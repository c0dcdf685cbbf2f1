------------------------------ MODULE Registry ------------------------------
(***************************************************************************)
(* What a SceneSynchronizer keeps about the nodes and the peers: the nodes *)
(* registered with it and their ids, the controllers and the nodes they    *)
(* control or depend on, the kind of each controller, the peers connected  *)
(* and the controllers that serve them.  The game registers and removes    *)
(* nodes, takes the synchronizer out of the tree and back, goes online,    *)
(* offline or to another server; a client learns ids from the states.      *)
(***************************************************************************)
EXTENDS Integers, Sequences, FiniteSets, SequencesExt

CONSTANTS
  Nodes,
  Controllers,              \* the nodes that are NetworkedControllers
  Peers,
  Owner,                    \* the network master of each controller
  Networks,                 \* the network peers the game sets; one is no network
  Kind,                     \* what this instance is on each of them
  Switched,                 \* the controllers the game switches the control of
  Me,                       \* its peer id there
  ServerIds,                \* the nodes the server gave the ids 0, 1, ..., if another
  Nobody,                   \* no node
  NoId,                     \* UINT32_MAX
  MaxIds,                   \* bound: the ids given out
  MaxNetworks,              \* bound: times the game sets another network peer
  FirstNetwork              \* the network when the program starts

ASSUME NodesAssumption ==
  Controllers \subseteq Nodes /\ Nobody \notin Nodes /\ IsFiniteSet(Nodes)
ASSUME OwnerAssumption == Owner \in [Controllers -> Peers] /\ Switched \subseteq Controllers
ASSUME NetworksAssumption ==
  /\ \A w \in Networks : Kind[w] \in {"NONETWORK", "SERVER", "CLIENT"} /\ Me[w] \in Peers
  /\ \A w \in Networks : ServerIds[w] \in Seq(Nodes)
  /\ FirstNetwork \in Networks
\* "Only one player controller is supported, at the moment."
ASSUME OnePlayerAssumption ==
  \A w \in Networks : Kind[w] = "CLIENT" =>
    \A c, d \in Controllers : Owner[c] = Me[w] /\ Owner[d] = Me[w] => c = d
ASSUME RegistryBoundsAssumption ==
  MaxIds \in Nat /\ MaxNetworks \in Nat /\ Cardinality(Nodes) <= MaxIds
ASSUME IdsAssumption == NoId \notin 0 .. MaxIds

VARIABLES
  network,                  \* the network peer set by the game
  networks_set,             \* the number of times it was set again
  connected,                \* the peers connected to it
  scene                     \* the synchronizer: see Scene

vars == <<network, networks_set, connected, scene>>

NodeData == [
  id : 0 .. MaxIds \cup {NoId},
  controlled_by : Nodes \cup {Nobody},
  controlled_nodes : SUBSET Nodes,
  dependency_nodes : SUBSET Nodes,
  dependency_nodes_end : SUBSET Nodes]  \* those to remove once the server confirms
NewNodeData == [id |-> NoId, controlled_by |-> Nobody, controlled_nodes |-> {},
                dependency_nodes |-> {}, dependency_nodes_end |-> {}]

ServerTypes == {"SERVER", "AUTONOMOUS_SERVER"}
Character == [
  has_scene_synchronizer : BOOLEAN,
  controller_type : {"NULL", "NONETWORK", "PLAYER", "DOLL"} \cup ServerTypes,
  server_controlled : BOOLEAN,
  enabled : BOOLEAN,                    \* the ServerController
  peers : SUBSET Peers]

PeerData == [controller_id : 0 .. MaxIds \cup {NoId}, enabled : BOOLEAN]
NewPeerData == [controller_id |-> NoId, enabled |-> TRUE]
NoPeerData == [p \in {} |-> NewPeerData]

Scene == [
  in_tree : BOOLEAN,
  synchronizer_type : {"NULL", "NONETWORK", "CLIENT", "SERVER"},
  peer_ptr : Networks,                  \* the network the mode was chosen for
  generate_id : BOOLEAN,
  node_data : Seq(Nodes),
  organized_node_data : Seq(Nodes \cup {Nobody}),
  node_data_controllers : Seq(Controllers),
  data : [Nodes -> NodeData],
  character : [Controllers -> Character],
  peer_data : UNION {[P -> PeerData] : P \in SUBSET Peers},
  peer_dirty : BOOLEAN,
  player : Controllers \cup {Nobody},   \* the client's player_controller_node_data
  skipped : SUBSET Controllers,         \* history: those a clear did not drop
  renamed : BOOLEAN]                    \* history: a client's node was given another id

Registered(s) == ToSet(s.node_data)
Listed(s) == ToSet(s.node_data_controllers)
IsServer(c) == scene.character[c].controller_type \in ServerTypes

\* get_node_data: the node with this id.
NodeWithId(s, i) ==
  IF i \in 0 .. Len(s.organized_node_data) - 1 THEN s.organized_node_data[i + 1] ELSE Nobody

Init ==
  /\ network = FirstNetwork
  /\ networks_set = 0
  /\ connected = {}
  /\ scene = [
       in_tree |-> FALSE, synchronizer_type |-> "NULL", peer_ptr |-> FirstNetwork,
       generate_id |-> FALSE, node_data |-> <<>>, organized_node_data |-> <<>>,
       node_data_controllers |-> <<>>, data |-> [n \in Nodes |-> NewNodeData],
       character |-> [c \in Controllers |->
         [has_scene_synchronizer |-> FALSE, controller_type |-> "NULL",
          server_controlled |-> FALSE, enabled |-> TRUE, peers |-> {}]],
       peer_data |-> NoPeerData, peer_dirty |-> FALSE, player |-> Nobody,
       skipped |-> {}, renamed |-> FALSE]

-----------------------------------------------------------------------------
(* The kind of a controller. *)

\* The controller reset_controller makes in the tree.
TypeFor(s, c) ==
  CASE Kind[network] = "NONETWORK" -> "NONETWORK"
    [] Kind[network] = "SERVER" ->
         IF s.character[c].server_controlled THEN "AUTONOMOUS_SERVER" ELSE "SERVER"
    [] OTHER ->
         IF Owner[c] = Me[network] /\ ~ s.character[c].server_controlled
           THEN "PLAYER" ELSE "DOLL"

\* The client's on_controller_reset: its player controller.
PlayerAfterReset(s, c, type) ==
  LET kept == IF s.player = c THEN Nobody ELSE s.player
  IN IF s.synchronizer_type = "CLIENT" /\ type = "PLAYER" /\ kept = Nobody THEN c ELSE kept

\* reset_controller: the new controller is enabled and serves nobody yet.
ResetController(s, c) ==
  LET type == IF s.in_tree THEN TypeFor(s, c) ELSE "NULL"
  IN [s EXCEPT
       !.character[c].controller_type = type,
       !.character[c].enabled = TRUE,
       !.character[c].peers = {},
       !.peer_dirty = @ \/ s.in_tree,
       !.player = PlayerAfterReset(s, c, type)]

\* Mutant of ResetControllers: only the controllers that have no kind yet.
ResetNewControllers(s) ==
  LET list == s.node_data_controllers
      reset[k \in 0 .. Len(list)] ==
        IF k = 0 THEN s
        ELSE IF s.character[list[k]].controller_type /= "NULL" THEN reset[k - 1]
        ELSE ResetController(reset[k - 1], list[k])
  IN reset[Len(list)]

\* reset_controllers: one after the other.
ResetControllers(s) ==
  LET list == s.node_data_controllers
      reset[k \in 0 .. Len(list)] ==
        IF k = 0 THEN s ELSE ResetController(reset[k - 1], list[k])
  IN reset[Len(list)]

-----------------------------------------------------------------------------
(* Registering and dropping nodes. *)

\* Mutant of AddNodeData: the ids begin at 1.
AddNodeDataFromOne(s, n) ==
  LET added == [s EXCEPT
        !.node_data = Append(@, n),
        !.data[n] = [NewNodeData EXCEPT
          !.id = IF s.generate_id THEN Len(s.organized_node_data) + 1 ELSE NoId],
        !.organized_node_data = IF s.generate_id THEN Append(@, n) ELSE @]
  IN IF n \in Controllers
       THEN ResetController([added EXCEPT !.node_data_controllers = Append(@, n)], n)
       ELSE added

\* add_node_data: with an id when this instance gives them.
AddNodeData(s, n) ==
  LET added == [s EXCEPT
        !.node_data = Append(@, n),
        !.data[n] = [NewNodeData EXCEPT
          !.id = IF s.generate_id THEN Len(s.organized_node_data) ELSE NoId],
        !.organized_node_data = IF s.generate_id THEN Append(@, n) ELSE @]
  IN IF n \in Controllers
       THEN ResetController([added EXCEPT !.node_data_controllers = Append(@, n)], n)
       ELSE added

\* register_node; "This controller already has a synchronizer": nothing is registered.
Register(s, n) ==
  IF n \in Registered(s) THEN s
  ELSE IF n \notin Controllers THEN AddNodeData(s, n)
  ELSE IF s.character[n].has_scene_synchronizer THEN s
  ELSE AddNodeData([s EXCEPT !.character[n].has_scene_synchronizer = TRUE,
                             !.peer_dirty = TRUE], n)

\* What is modelled of the controller of a node that is not registered: nothing
\* reads the rest until register_node makes another controller.
Idle(character, has) ==
  [character EXCEPT !.has_scene_synchronizer = has, !.controller_type = "NULL",
                    !.enabled = TRUE, !.peers = {}]

\* Takes a node from its controller, if it has one.
Release(s, n) ==
  LET c == s.data[n].controlled_by
  IN IF c = Nobody THEN s
     ELSE [s EXCEPT !.data[c].controlled_nodes = @ \ {n}, !.data[n].controlled_by = Nobody]

\* Mutant of WithoutNode: the nodes a controller controlled still refer to it.
WithoutNodeOnly(s, n) ==
  [m \in Nodes |->
    IF m = n THEN NewNodeData
    ELSE [s.data[m] EXCEPT
      !.dependency_nodes = @ \ {n},
      !.dependency_nodes_end = @ \ {n}]]

\* What the nodes left keep of one that is dropped.
WithoutNode(s, n) ==
  [m \in Nodes |->
    IF m = n THEN NewNodeData
    ELSE [s.data[m] EXCEPT
      !.controlled_by = IF m \in s.data[n].controlled_nodes THEN Nobody ELSE @,
      !.dependency_nodes = @ \ {n},
      !.dependency_nodes_end = @ \ {n}]]

\* Mutant of Vacated: the slot is removed, and the ids after it move down.
VacatedByRemoval(organized, i) ==
  IF i \in 0 .. Len(organized) - 1 THEN RemoveAt(organized, i + 1) ELSE organized

\* The slot of its id is emptied, and never given again.
Vacated(organized, i) ==
  IF i \in 0 .. Len(organized) - 1 THEN [organized EXCEPT ![i + 1] = Nobody] ELSE organized

\* drop_node_data.
Drop(s, n) ==
  LET released == Release(s, n)
      alone == [released EXCEPT
        !.player = IF @ = n THEN Nobody ELSE @,
        !.data = WithoutNode(released, n),
        !.node_data = RemoveFirst(@, n),
        !.organized_node_data = Vacated(@, s.data[n].id)]
  IN IF n \in Controllers
       THEN [alone EXCEPT
         !.character[n] = Idle(alone.character[n], FALSE),
         !.peer_dirty = TRUE,
         !.node_data_controllers = RemoveFirst(@, n)]
       ELSE alone

-----------------------------------------------------------------------------
(* The whole registry. *)

\* The nodes clear drops: each drop moves the ones behind it, and the loop
\* goes on with the next index, so it steps over every second node.
DroppedByClear(s) ==
  [i \in 1 .. (Len(s.node_data) + 1) \div 2 |-> s.node_data[2 * i - 1]]

\* clear.  The nodes it stepped over are forgotten without being dropped.
Clear(s) ==
  LET nodes == DroppedByClear(s)
      drop[k \in 0 .. Len(nodes)] ==
        IF k = 0 THEN s ELSE Drop(drop[k - 1], nodes[k])
      dropped == drop[Len(nodes)]
  IN [dropped EXCEPT
       !.skipped = @ \cup Listed(dropped),
       !.data = [n \in Nodes |-> NewNodeData],
       !.character = [c \in Controllers |->
         Idle(dropped.character[c], dropped.character[c].has_scene_synchronizer)],
       !.node_data = <<>>,
       !.organized_node_data = <<>>,
       !.node_data_controllers = <<>>,
       !.player = Nobody,
       !.renamed = FALSE]

\* The ids when this instance begins or stops giving them.
IdsAfterMode(s, generate) ==
  IF s.generate_id = generate THEN s
  ELSE [s EXCEPT
    !.organized_node_data = IF generate THEN s.node_data
                            ELSE [i \in DOMAIN s.node_data |-> Nobody],
    !.data = [n \in Nodes |-> [s.data[n] EXCEPT !.id =
      IF generate /\ n \in Registered(s)
        THEN CHOOSE i \in 0 .. Len(s.node_data) - 1 : s.node_data[i + 1] = n
        ELSE NoId]],
    !.renamed = FALSE]

\* reset_synchronizer_mode: a new synchronizer for the network there is now.
ResetMode(s) ==
  LET generate == Kind[network] /= "CLIENT"
      chosen == [IdsAfterMode(s, generate) EXCEPT
        !.synchronizer_type = Kind[network],
        !.peer_ptr = network,
        !.generate_id = generate,
        !.player = Nobody]
  IN ResetControllers(chosen)

\* _on_peer_connected.
Connect(s, P) ==
  [s EXCEPT
    !.peer_data = [p \in P \cup DOMAIN s.peer_data |->
      IF p \in P THEN NewPeerData ELSE s.peer_data[p]],
    !.peer_dirty = @ \/ P /= {}]

-----------------------------------------------------------------------------
(* The game. *)

\* A bound: this instance can give another id.
HasRoom == ~ scene.generate_id \/ Len(scene.organized_node_data) < MaxIds

RegisterNode(n) ==
  /\ HasRoom
  /\ scene' = Register(scene, n)
  /\ UNCHANGED <<network, networks_set, connected>>

\* unregister_node, and _on_node_removed.
UnregisterNode(n) ==
  /\ n \in Registered(scene)
  /\ scene' = Drop(scene, n)
  /\ UNCHANGED <<network, networks_set, connected>>

\* The rest of set_node_as_controlled_by, once the node is registered: it
\* leaves its controller first, whether or not the new one can be used.
Controlled(s, n, c) ==
  LET released == Release(s, n)
      found == Register(released, c)
  IN IF c \notin Controllers THEN released
     ELSE IF c \notin Registered(found) THEN found
     ELSE [found EXCEPT !.data[c].controlled_nodes = @ \cup {n},
                        !.data[n].controlled_by = c]

\* set_node_as_controlled_by.
SetNodeAsControlledBy(n, c) ==
  /\ HasRoom
  /\ LET found == Register(scene, n)
     IN scene' = IF n \in Registered(found) \ Controllers THEN Controlled(found, n, c) ELSE found
  /\ UNCHANGED <<network, networks_set, connected>>

\* What controller_add_dependency and controller_remove_dependency require.
MayDepend(c, n) ==
  /\ scene.synchronizer_type = "CLIENT"
  /\ c \in Listed(scene)
  /\ n \in Registered(scene) \ Controllers
  /\ scene.data[n].controlled_by = Nobody

\* controller_add_dependency.
AddDependency(c, n) ==
  /\ MayDepend(c, n)
  /\ scene' = [scene EXCEPT
       !.data[c].dependency_nodes = @ \cup {n},
       !.data[c].dependency_nodes_end = @ \ {n}]
  /\ UNCHANGED <<network, networks_set, connected>>

\* controller_remove_dependency: only once the server confirmed this instant.
RemoveDependency(c, n) ==
  /\ MayDepend(c, n)
  /\ n \in scene.data[c].dependency_nodes
  /\ scene' = [scene EXCEPT !.data[c].dependency_nodes_end = @ \cup {n}]
  /\ UNCHANGED <<network, networks_set, connected>>

\* The clear the game may call.
ClearScene ==
  /\ scene' = Clear(scene)
  /\ UNCHANGED <<network, networks_set, connected>>

\* The game sets another network peer, at most once between two ticks.  The
\* engine drops its list of the peers connected without a signal.
SetNetworkPeer(w) ==
  /\ w /= network
  /\ scene.peer_ptr = network \/ ~ scene.in_tree
  /\ networks_set < MaxNetworks
  /\ network' = w
  /\ networks_set' = networks_set + 1
  /\ connected' = {}
  /\ UNCHANGED scene

\* NOTIFICATION_ENTER_TREE.
EnterTree ==
  /\ ~ scene.in_tree
  /\ LET cleared == ResetMode(Clear([scene EXCEPT !.in_tree = TRUE]))
     IN scene' = Connect(ResetControllers(cleared), connected)
  /\ UNCHANGED <<network, networks_set, connected>>

\* clear_peers.
ClearPeers(s) ==
  [s EXCEPT
    !.peer_data = NoPeerData,
    !.character = [c \in Controllers |->
      IF c \in Listed(s) THEN [s.character[c] EXCEPT !.peers = {}] ELSE s.character[c]]]

\* NOTIFICATION_EXIT_TREE.
ExitTree ==
  /\ scene.in_tree
  /\ scene' = [Clear(ClearPeers(scene)) EXCEPT !.synchronizer_type = "NULL", !.in_tree = FALSE]
  /\ UNCHANGED <<network, networks_set, connected>>

-----------------------------------------------------------------------------
(* The network. *)

\* The engine's network_peer_connected signal.
PeerConnected(p) ==
  /\ Kind[network] /= "NONETWORK"
  /\ p \notin connected \cup {Me[network]}
  /\ connected' = connected \cup {p}
  /\ scene' = IF scene.in_tree THEN Connect(scene, {p}) ELSE scene
  /\ UNCHANGED <<network, networks_set>>

\* _on_peer_disconnected: deactivate_peer on every controller.
Disconnect(s, p) ==
  [s EXCEPT
    !.peer_data = [q \in DOMAIN s.peer_data \ {p} |-> s.peer_data[q]],
    !.character = [c \in Controllers |->
      IF c \in Listed(s) THEN [s.character[c] EXCEPT !.peers = @ \ {p}] ELSE s.character[c]]]

\* The engine's network_peer_disconnected signal.
PeerDisconnected(p) ==
  /\ p \in connected
  /\ connected' = connected \ {p}
  /\ scene' = IF scene.in_tree THEN Disconnect(scene, p) ELSE scene
  /\ UNCHANGED <<network, networks_set>>

\* set_peer_networking_enable.
SetPeerNetworkingEnable(p, e) ==
  /\ scene.synchronizer_type = "SERVER"
  /\ p \in DOMAIN scene.peer_data
  /\ scene.peer_data[p].enabled /= e
  /\ scene' = [scene EXCEPT !.peer_data[p].enabled = e, !.peer_dirty = TRUE]
  /\ UNCHANGED <<network, networks_set, connected>>

\* set_server_controlled on the server, and notify_controller_control_mode_changed.
SetServerControlled(c) ==
  /\ c \in Switched
  /\ c \in Listed(scene)
  /\ IsServer(c)
  /\ scene' = ResetController(
       [scene EXCEPT !.character[c].server_controlled = ~ @], c)
  /\ UNCHANGED <<network, networks_set, connected>>

\* set_node_data_id: the client learns the id of a node.
SetNodeDataId(s, n, i) ==
  LET slots == s.organized_node_data
      wide == IF Len(slots) <= i
                THEN slots \o [k \in 1 .. i + 1 - Len(slots) |-> Nobody] ELSE slots
  IN [s EXCEPT
       !.organized_node_data = [wide EXCEPT ![i + 1] = n],
       !.data[n].id = i,
       !.renamed = @ \/ s.data[n].id \notin {NoId, i} \/ wide[i + 1] \notin {Nobody, n}]

\* parse_sync_data meets a node of a state: with its path, or when the id is
\* unknown, the node is found by the path and gets the id.
ReceiveNode(i, withPath) ==
  /\ scene.synchronizer_type = "CLIENT" /\ Kind[network] = "CLIENT"
  /\ i \in 0 .. Len(ServerIds[network]) - 1
  /\ withPath \/ NodeWithId(scene, i) = Nobody
  /\ LET n == ServerIds[network][i + 1]
         found == Register(scene, n)
     IN scene' = IF n \in Registered(found) THEN SetNodeDataId(found, n, i) ELSE found
  /\ UNCHANGED <<network, networks_set, connected>>

-----------------------------------------------------------------------------
(* A tick. *)

\* The first controller of a peer, if any.
OwnController(s, p) ==
  LET i == SelectInSeq(s.node_data_controllers, LAMBDA c : Owner[c] = p)
  IN IF i = 0 THEN Nobody ELSE s.node_data_controllers[i]

OwnControllerId(s, p) ==
  IF OwnController(s, p) = Nobody THEN NoId ELSE s.data[OwnController(s, p)].id

\* Mutant of ControllerIdOf: an id once found is never looked at again.
ControllerIdKept(s, p) ==
  IF s.peer_data[p].controller_id /= NoId THEN s.peer_data[p].controller_id
  ELSE OwnControllerId(s, p)

\* The controller update_peers leaves a peer with: the one it has if that is
\* still a controller of its own, else the first of its own.
ControllerIdOf(s, p) ==
  LET i == s.peer_data[p].controller_id
      n == NodeWithId(s, i)
  IN IF n \in Controllers /\ Owner[n] = p THEN i ELSE OwnControllerId(s, p)

\* update_peers: each peer's own controller is enabled with the peer, and
\* the other controllers send to the peers that are enabled.
UpdatePeers(s) ==
  LET ids == [p \in DOMAIN s.peer_data |-> ControllerIdOf(s, p)]
      others(c) == {p \in DOMAIN ids : ids[p] /= s.data[c].id}
      on == {p \in DOMAIN ids : s.peer_data[p].enabled}
      served(c) == (s.character[c].peers \ (others(c) \ on))
                     \cup ((others(c) \cap on) \ {Owner[c]})
      mine(c) == DOMAIN ids \ others(c)
  IN IF ~ s.peer_dirty THEN s
     ELSE [s EXCEPT
       !.peer_dirty = FALSE,
       !.peer_data = [p \in DOMAIN ids |-> [s.peer_data[p] EXCEPT !.controller_id = ids[p]]],
       !.character = [c \in Controllers |->
         IF c \notin Listed(s) THEN s.character[c]
         ELSE [s.character[c] EXCEPT
           !.peers = served(c),
           !.enabled = IF mine(c) = {} THEN @ ELSE mine(c) \subseteq on]]]

\* purge_node_dependencies, when the server confirmed the instants of removal.
Purge(s) ==
  [s EXCEPT !.data = [n \in Nodes |->
    [s.data[n] EXCEPT !.dependency_nodes = @ \ s.data[n].dependency_nodes_end,
                      !.dependency_nodes_end = {}]]]

\* NOTIFICATION_INTERNAL_PHYSICS_PROCESS: the mode follows the network, then
\* the synchronizer processes.
Tick(confirmed) ==
  /\ scene.in_tree
  /\ LET now == IF scene.peer_ptr /= network THEN ResetMode(scene) ELSE scene
     IN scene' = CASE now.synchronizer_type = "SERVER" -> UpdatePeers(now)
                   [] now.synchronizer_type = "CLIENT" ->
                        IF confirmed THEN Purge(now) ELSE now
                   [] OTHER -> now
  /\ UNCHANGED <<network, networks_set, connected>>

-----------------------------------------------------------------------------
Next ==
  \/ \E n \in Nodes : RegisterNode(n) \/ UnregisterNode(n)
  \/ \E n \in Nodes, c \in Nodes \cup {Nobody} : SetNodeAsControlledBy(n, c)
  \/ \E c \in Controllers, n \in Nodes : AddDependency(c, n) \/ RemoveDependency(c, n)
  \/ ClearScene
  \/ \E w \in Networks : SetNetworkPeer(w)
  \/ EnterTree
  \/ ExitTree
  \/ \E p \in Peers : PeerConnected(p) \/ PeerDisconnected(p)
  \/ \E p \in Peers, e \in BOOLEAN : SetPeerNetworkingEnable(p, e)
  \/ \E c \in Controllers : SetServerControlled(c)
  \/ \E i \in 0 .. MaxIds, withPath \in BOOLEAN : ReceiveNode(i, withPath)
  \/ \E confirmed \in BOOLEAN : Tick(confirmed)

Spec == Init /\ [][Next]_vars

-----------------------------------------------------------------------------
TypeOK ==
  /\ network \in Networks
  /\ networks_set \in 0 .. MaxNetworks
  /\ connected \subseteq Peers
  /\ scene \in Scene

\* The ids and the nodes name each other: a slot is empty or holds a node
\* that is registered under that id, and an instance that gives the ids gave
\* each node one.  Not after a client's node was given another id (see README).
\* (register_node, drop_node_data, reset_synchronizer_mode, set_node_data_id,
\* "All registered nodes, that have the NetworkNodeId assigned, organized per
\* NetworkNodeId.")
IdsNameTheNodes ==
  /\ scene.renamed \/
       \A n \in Nodes, i \in 0 .. MaxIds :
         NodeWithId(scene, i) = n <=> n \in Registered(scene) /\ scene.data[n].id = i
  /\ scene.generate_id => \A n \in Registered(scene) :
       scene.data[n].id \in 0 .. Len(scene.organized_node_data) - 1

\* Nodes and controllers refer to each other, and only to nodes that are
\* registered; a controller has a synchronizer as long as it is registered,
\* or for ever when a clear stepped over it.  (set_node_as_controlled_by,
\* drop_node_data, clear)
LinksAreMutual ==
  /\ \A n \in Nodes, c \in Nodes :
       scene.data[n].controlled_by = c <=> n \in scene.data[c].controlled_nodes
  /\ \A n \in Nodes : LET links == scene.data[n] IN
       /\ links.controlled_by \in Listed(scene) \cup {Nobody}
       /\ links.dependency_nodes \cup links.controlled_nodes
            \subseteq Registered(scene) \ Controllers
       /\ links.dependency_nodes_end \subseteq links.dependency_nodes
  /\ \A c \in Controllers :
       /\ c \in Registered(scene) <=> c \in Listed(scene)
       /\ c \in Listed(scene) => scene.character[c].has_scene_synchronizer
       /\ scene.character[c].has_scene_synchronizer => c \in Listed(scene) \cup scene.skipped

\* Nothing changed since the last tick.
Settled == scene.in_tree /\ scene.peer_ptr = network

\* After a server's update_peers each peer has its own controller, if one is
\* registered, which is enabled exactly when the peer is; the other
\* controllers send to exactly the peers that are enabled.  At any time no
\* controller sends to a peer that is gone.  (update_peers, _on_peer_disconnected,
\* reset_controller, clear_peers)
PeersAreServed ==
  /\ \A c \in Listed(scene) : IsServer(c) =>
       scene.character[c].peers \subseteq DOMAIN scene.peer_data
  /\ Settled /\ scene.synchronizer_type = "SERVER" /\ ~ scene.peer_dirty =>
       \A p \in DOMAIN scene.peer_data, c \in Listed(scene) :
         LET peer == scene.peer_data[p] IN
         IF Owner[c] = p
           THEN /\ NodeWithId(scene, peer.controller_id) \in Listed(scene)
                /\ Owner[NodeWithId(scene, peer.controller_id)] = p
                /\ scene.data[c].id = peer.controller_id
                     => scene.character[c].enabled = peer.enabled
           ELSE p \in scene.character[c].peers <=> peer.enabled

\* The kind of every controller fits the synchronizer, and the client knows
\* its player controller.  (reset_controller, on_controller_reset,
\* on_node_removed)
ControllersFitTheMode ==
  Settled =>
    \A c \in Listed(scene) : LET type == scene.character[c].controller_type IN
      /\ type \in CASE scene.synchronizer_type = "SERVER" -> ServerTypes
                    [] scene.synchronizer_type = "CLIENT" -> {"PLAYER", "DOLL"}
                    [] OTHER -> {"NONETWORK"}
      /\ type = "PLAYER" <=> scene.player = c

=============================================================================
