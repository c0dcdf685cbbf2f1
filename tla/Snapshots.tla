------------------------------ MODULE Snapshots ------------------------------
(***************************************************************************)
(* How the values of the server's nodes reach the clients.  The server     *)
(* collects what changed in `changes`, sends each client a state with only *)
(* that, or with everything when the client needs a full snapshot, and     *)
(* forgets the changes each time it notified everyone.  A client puts the  *)
(* states together in `last_received_snapshot`.                            *)
(*                                                                         *)
(* A node and a variable are the ids the server gives them, which it never *)
(* gives twice.  A client knows a node or variable by its path or name     *)
(* until a state tells it the id.  Calls are reliable and ordered.         *)
(***************************************************************************)
EXTENDS Integers, Sequences

CONSTANTS
  Clients,                  \* the peers whose copies are modelled
  Crowd,                    \* whether the server has other peers
  Nodes,
  NumVars,                  \* variables of each node
  Values,
  Unset,                    \* a variable of a snapshot without a value
  Scene,                    \* the owner of the nodes nobody controls
  Owner,                    \* the client whose character a node belongs to
  Loaded,                   \* the nodes the game of each client may have
  Toggled,                  \* the clients the game disables and enables
  MaxMessages,              \* bound: calls on their way to each client
  MaxRequests               \* bound: calls on their way from each client

ASSUME ClientsAssumption == Crowd \in BOOLEAN /\ Scene \notin Clients
ASSUME GameAssumption == Loaded \in [Clients -> SUBSET Nodes] /\ Toggled \subseteq Clients
ASSUME UnsetAssumption == Unset \notin Values
ASSUME SnapshotBoundsAssumption ==
  /\ NumVars \in [Nodes -> Nat]
  /\ MaxMessages \in [Clients -> Nat] /\ MaxRequests \in Nat

VARIABLES
  \* The server.
  node_data,                \* the nodes registered
  values,                   \* those of the variables registered, by id + 1
  changes,
  peer_data,                \* the clients connected
  peer_enabled,
  force_notify_snapshot,
  need_full_snapshot,
  \* The network.
  to_client,
  to_server,
  \* The clients.
  in_tree,                  \* the nodes that exist
  known,                    \* those whose id is known
  node_paths,               \* the ids whose path is known
  var_ids,                  \* the variables whose id is known
  last_received_snapshot,
  enabled,
  want_to_enable,
  heard,                    \* history: the server's values when it sent the last state received
  gap                       \* history: a state could not be used in full, and no full one came since

nodeVars == <<node_data, values, changes>>
peerVars == <<peer_data, peer_enabled, force_notify_snapshot, need_full_snapshot>>
networkVars == <<to_client, to_server>>
storedVars == <<in_tree, known, node_paths, var_ids, last_received_snapshot, gap>>
snapshotVars == <<storedVars, heard>>
enabledVars == <<enabled, want_to_enable>>
vars == <<nodeVars, peerVars, networkVars, snapshotVars, enabledVars>>

VarsOf(n) == 0 .. NumVars[n] - 1
VarIds == UNION {VarsOf(n) : n \in Nodes}
Change == [not_known_before : BOOLEAN, vars : SUBSET VarIds, uknown_vars : SUBSET VarIds]
NoChange == [not_known_before |-> FALSE, vars |-> {}, uknown_vars |-> {}]
NoValues == [n \in Nodes |-> <<>>]
NothingSet == [n \in Nodes |-> [v \in VarIds |-> Unset]]

\* The ids of the variables of a node.
Registered(n) == 0 .. Len(values[n]) - 1

Init ==
  /\ node_data = {}
  /\ values = NoValues
  /\ changes = [n \in Nodes |-> NoChange]
  /\ peer_data = {}
  /\ peer_enabled = [c \in Clients |-> TRUE]
  /\ force_notify_snapshot = [c \in Clients |-> TRUE]
  /\ need_full_snapshot = [c \in Clients |-> TRUE]
  /\ to_client = [c \in Clients |-> <<>>]
  /\ to_server = [c \in Clients |-> <<>>]
  /\ in_tree = [c \in Clients |-> {}]
  /\ known = [c \in Clients |-> {}]
  /\ node_paths = [c \in Clients |-> {}]
  /\ var_ids = [c \in Clients |-> [n \in Nodes |-> {}]]
  /\ last_received_snapshot = [c \in Clients |-> NothingSet]
  /\ enabled = [c \in Clients |-> TRUE]
  /\ want_to_enable = [c \in Clients |-> FALSE]
  /\ heard = [c \in Clients |-> NoValues]
  /\ gap = [c \in Clients |-> FALSE]

-----------------------------------------------------------------------------
(* The server's nodes. *)

\* register_node.
RegisterNode(n) ==
  /\ n \notin node_data
  /\ node_data' = node_data \cup {n}
  /\ changes' = [changes EXCEPT ![n].not_known_before = TRUE]
  /\ UNCHANGED <<values, peerVars, networkVars, snapshotVars, enabledVars>>

\* Mutant of RegisterVariable: a variable registered again is added again.
RegisterVariableAgain(n, x) ==
  /\ n \in node_data
  /\ values' = [values EXCEPT ![n] = Append(@, x)]
  /\ changes' = [changes EXCEPT ![n].vars = @ \cup {Len(values[n])}]
  /\ UNCHANGED <<node_data, peerVars, networkVars, snapshotVars, enabledVars>>

\* register_variable: the node's next variable, which is not registered yet.
RegisterVariable(n, x) ==
  /\ n \in node_data
  /\ Len(values[n]) < NumVars[n]
  /\ values' = [values EXCEPT ![n] = Append(@, x)]
  /\ changes' = [changes EXCEPT
       ![n].vars = @ \cup {Len(values[n])},
       ![n].uknown_vars = @ \cup {Len(values[n])}]
  /\ UNCHANGED <<node_data, peerVars, networkVars, snapshotVars, enabledVars>>

\* A node's process changed a variable, which pull_node_changes notices.
ChangeVariable(n, v, x) ==
  /\ v \in Registered(n)
  /\ x /= values[n][v + 1]
  /\ values' = [values EXCEPT ![n][v + 1] = x]
  /\ changes' = [changes EXCEPT ![n].vars = @ \cup {v}]
  /\ UNCHANGED <<node_data, peerVars, networkVars, snapshotVars, enabledVars>>

-----------------------------------------------------------------------------
(* The states the server sends. *)

\* The peer has a controller, as update_peers finds it.
HasController(c) == \E n \in node_data : Owner[n] = c

\* The values of a node that a client with this controller is sent.
Shown(c) == {n \in Nodes : Owner[n] \in {Scene, c}}

\* The nodes of other controllers are in a state for a peer that has one, for
\* their path.
NodeIsSent(c, n, full) ==
  /\ n \in Shown(c) \/ HasController(c)
  /\ \/ full
     \/ changes[n].not_known_before
     \/ n \in Shown(c) /\ changes[n].vars /= {}

\* generate_snapshot_node_data.
NodeState(c, n, full) ==
  LET sent == IF n \notin Shown(c) THEN {}
              ELSE IF full THEN Registered(n) ELSE changes[n].vars
  IN [path  |-> full \/ n \notin Shown(c) \/ changes[n].not_known_before,
      names |-> IF full THEN sent ELSE sent \cap changes[n].uknown_vars,
      vars  |-> [v \in sent |-> values[n][v + 1]]]

\* The scene is history: the server's values in the last state so far.
State(c) ==
  LET full == need_full_snapshot[c] IN
  [kind  |-> "state",
   full  |-> full,
   nodes |-> [n \in {m \in node_data : NodeIsSent(c, m, full)} |-> NodeState(c, n, full)],
   scene |-> values]

\* The server's values in the last state for the client.
Told(c) == IF to_client[c] = <<>> THEN heard[c] ELSE to_client[c][Len(to_client[c])].scene

Status(c, e) == [kind |-> "status", enable |-> e, scene |-> Told(c)]

IsNotified(c, notify_state) ==
  c \in peer_data /\ peer_enabled[c] /\ (force_notify_snapshot[c] \/ notify_state)

\* Mutant of IsCheckpoint: any state sent is one, to others of the crowd too.
IsCheckpointWhenForced(notify_state) ==
  notify_state \/ Crowd \/ \E c \in Clients : IsNotified(c, notify_state)

\* Everyone was notified: the next state has only what changed since.
IsCheckpoint(notify_state) == notify_state

\* Mutant of StillNeedsFull: reset without a state for the peer.
StillNeedsFullNever(c, notified) == FALSE

StillNeedsFull(c, notified) == c \notin notified /\ need_full_snapshot[c]

\* process_snapshot_notificator, which runs while there are peers.
NotifyState(notify_state) ==
  LET notified == {c \in Clients : IsNotified(c, notify_state)} IN
  /\ Crowd \/ peer_data /= {}
  /\ \A c \in notified : Len(to_client[c]) < MaxMessages[c]
  /\ to_client' = [c \in Clients |->
       IF c \in notified THEN Append(to_client[c], State(c)) ELSE to_client[c]]
  /\ force_notify_snapshot' = [c \in Clients |-> c \notin notified /\ force_notify_snapshot[c]]
  /\ need_full_snapshot' = [c \in Clients |-> StillNeedsFull(c, notified)]
  /\ changes' = IF IsCheckpoint(notify_state) THEN [n \in Nodes |-> NoChange] ELSE changes
  /\ UNCHANGED <<node_data, values, peer_data, peer_enabled, to_server, snapshotVars, enabledVars>>

-----------------------------------------------------------------------------
(* The peers. *)

\* _on_peer_connected, and a client that starts with nothing.
Connect(c) ==
  /\ c \notin peer_data
  /\ peer_data' = peer_data \cup {c}
  /\ peer_enabled' = [peer_enabled EXCEPT ![c] = TRUE]
  /\ force_notify_snapshot' = [force_notify_snapshot EXCEPT ![c] = TRUE]
  /\ need_full_snapshot' = [need_full_snapshot EXCEPT ![c] = TRUE]
  /\ UNCHANGED <<nodeVars, networkVars, snapshotVars, enabledVars>>

\* _on_peer_disconnected; reset_synchronizer_mode makes the client forget all.
Disconnect(c) ==
  /\ c \in peer_data
  /\ peer_data' = peer_data \ {c}
  /\ to_client' = [to_client EXCEPT ![c] = <<>>]
  /\ to_server' = [to_server EXCEPT ![c] = <<>>]
  /\ known' = [known EXCEPT ![c] = {}]
  /\ node_paths' = [node_paths EXCEPT ![c] = {}]
  /\ var_ids' = [var_ids EXCEPT ![c] = [n \in Nodes |-> {}]]
  /\ last_received_snapshot' = [last_received_snapshot EXCEPT ![c] = NothingSet]
  /\ heard' = [heard EXCEPT ![c] = NoValues]
  /\ gap' = [gap EXCEPT ![c] = FALSE]
  /\ enabled' = [enabled EXCEPT ![c] = TRUE]
  /\ want_to_enable' = [want_to_enable EXCEPT ![c] = FALSE]
  /\ UNCHANGED <<nodeVars, peer_enabled, force_notify_snapshot, need_full_snapshot, in_tree>>

\* Mutant of NeedsFull: enabling relies on the changes collected meanwhile.
NeedsFullNever(c, e) == need_full_snapshot[c]

\* A peer enabled or disabled gets everything the next time.
NeedsFull(c, e) == TRUE

\* set_peer_networking_enable; nothing happens when it is not a change.
SetPeerEnabled(c, e) ==
  IF peer_enabled[c] = e
  THEN UNCHANGED <<peerVars, to_client>>
  ELSE /\ Len(to_client[c]) < MaxMessages[c]
       /\ peer_enabled' = [peer_enabled EXCEPT ![c] = e]
       /\ force_notify_snapshot' = [force_notify_snapshot EXCEPT ![c] = TRUE]
       /\ need_full_snapshot' = [need_full_snapshot EXCEPT ![c] = NeedsFull(c, e)]
       /\ to_client' = [to_client EXCEPT ![c] = Append(@, Status(c, e))]
       /\ UNCHANGED peer_data

\* The game does so on the server.
SetPeerNetworkingEnable(c, e) ==
  /\ c \in peer_data
  /\ SetPeerEnabled(c, e)
  /\ UNCHANGED <<nodeVars, to_server, snapshotVars, enabledVars>>

\* _rpc_notify_need_full_snapshot.
ReceiveNeedFull(c) ==
  /\ to_server[c] /= <<>> /\ Head(to_server[c]) = "need_full"
  /\ to_server' = [to_server EXCEPT ![c] = Tail(@)]
  /\ need_full_snapshot' = [need_full_snapshot EXCEPT ![c] = TRUE]
  /\ UNCHANGED <<nodeVars, peer_data, peer_enabled, force_notify_snapshot, to_client, snapshotVars, enabledVars>>

\* _rpc_set_network_enabled.
ReceiveSetEnabled(c) ==
  /\ to_server[c] /= <<>> /\ Head(to_server[c]) \in {"enable", "disable"}
  /\ to_server' = [to_server EXCEPT ![c] = Tail(@)]
  /\ SetPeerEnabled(c, Head(to_server[c]) = "enable")
  /\ UNCHANGED <<nodeVars, snapshotVars, enabledVars>>

-----------------------------------------------------------------------------
(* The clients. *)

\* ClientSynchronizer::set_enabled.
SetClientEnabled(c, e) ==
  /\ want_to_enable' = [want_to_enable EXCEPT ![c] = IF enabled[c] = e THEN @ ELSE e]
  /\ enabled' = [enabled EXCEPT ![c] = @ /\ e]

\* SceneSynchronizer::set_enabled: only disabling is immediate.
SetEnabled(c, e) ==
  /\ c \in peer_data
  /\ Len(to_server[c]) < MaxRequests
  /\ to_server' = [to_server EXCEPT ![c] = Append(@, IF e THEN "enable" ELSE "disable")]
  /\ IF e THEN UNCHANGED enabledVars ELSE SetClientEnabled(c, FALSE)
  /\ UNCHANGED <<nodeVars, peerVars, to_client, snapshotVars>>

\* _rpc_notify_peer_status.
ReceiveStatus(c) ==
  /\ to_client[c] /= <<>> /\ Head(to_client[c]).kind = "status"
  /\ SetClientEnabled(c, Head(to_client[c]).enable)
  /\ to_client' = [to_client EXCEPT ![c] = Tail(@)]
  /\ heard' = [heard EXCEPT ![c] = Head(to_client[c]).scene]
  /\ UNCHANGED <<nodeVars, peerVars, to_server, storedVars>>

\* The game adds a node and registers its variables, without knowing their ids.
AddNode(c, n) ==
  /\ n \in Loaded[c] \ in_tree[c]
  /\ in_tree' = [in_tree EXCEPT ![c] = @ \cup {n}]
  /\ UNCHANGED <<nodeVars, peerVars, networkVars, known, node_paths, var_ids,
                 last_received_snapshot, heard, gap, enabledVars>>

\* on_node_removed.
Forgotten(snapshot, n) == [snapshot EXCEPT ![n] = [v \in VarIds |-> Unset]]

\* The game removes a node.
RemoveNode(c, n) ==
  /\ n \in in_tree[c]
  /\ in_tree' = [in_tree EXCEPT ![c] = @ \ {n}]
  /\ known' = [known EXCEPT ![c] = @ \ {n}]
  /\ var_ids' = [var_ids EXCEPT ![c][n] = {}]
  /\ last_received_snapshot' = [last_received_snapshot EXCEPT ![c] =
       IF n \in known[c] THEN Forgotten(@, n) ELSE @]
  /\ UNCHANGED <<nodeVars, peerVars, networkVars, node_paths, heard, gap, enabledVars>>

\* The nodes of a state whose path is told, or was before.
Located(c, nodes) == node_paths[c] \cup {n \in DOMAIN nodes : nodes[n].path}

\* The nodes of a state that the client has: it knows the id, or finds the
\* node at its path.  What is sent of the others is skipped.
Found(c, nodes) ==
  {n \in DOMAIN nodes : n \in known[c] \/ (n \in Located(c, nodes) /\ n \in in_tree[c])}

\* The variables of such a node that are named, or whose id is known.
Understood(c, n, node) == DOMAIN node.vars \cap (node.names \cup var_ids[c][n])

\* notify_server_full_snapshot_is_needed, called at most once for each state:
\* an id is unknown.
NeedsAnswer(c, nodes) ==
  \/ \E n \in DOMAIN nodes : n \notin known[c] /\ n \notin Located(c, nodes)
  \/ \E n \in Found(c, nodes) : DOMAIN nodes[n].vars /= Understood(c, n, nodes[n])

\* Mutant of Merged: parse_snapshot starts from an empty one.
MergedAnew(c, nodes) ==
  [n \in Nodes |-> [v \in VarIds |->
     IF n \in Found(c, nodes) /\ v \in Understood(c, n, nodes[n])
     THEN nodes[n].vars[v] ELSE Unset]]

\* parse_snapshot starts from the last snapshot.
Merged(c, nodes) ==
  [n \in Nodes |-> [v \in VarIds |->
     IF n \in Found(c, nodes) /\ v \in Understood(c, n, nodes[n])
     THEN nodes[n].vars[v] ELSE last_received_snapshot[c][n][v]]]

\* _rpc_send_state: receive_snapshot, parse_snapshot, parse_sync_data.
ReceiveState(c) ==
  /\ to_client[c] /= <<>> /\ Head(to_client[c]).kind = "state"
  /\ LET state == Head(to_client[c])
         nodes == state.nodes
         found == Found(c, nodes)
         asks  == NeedsAnswer(c, nodes)
     IN /\ asks => Len(to_server[c]) < MaxRequests
        /\ to_server' = [to_server EXCEPT ![c] = IF asks THEN Append(@, "need_full") ELSE @]
        /\ node_paths' = [node_paths EXCEPT ![c] = Located(c, nodes)]
        /\ known' = [known EXCEPT ![c] = @ \cup found]
        /\ var_ids' = [var_ids EXCEPT ![c] = [n \in Nodes |->
             IF n \in found THEN @[n] \cup nodes[n].names ELSE @[n]]]
        /\ last_received_snapshot' = [last_received_snapshot EXCEPT ![c] = Merged(c, nodes)]
        /\ heard' = [heard EXCEPT ![c] = state.scene]
        /\ gap' = [gap EXCEPT ![c] = asks \/ (@ /\ ~state.full)]
  /\ enabled' = [enabled EXCEPT ![c] = @ \/ want_to_enable[c]]
  /\ want_to_enable' = [want_to_enable EXCEPT ![c] = FALSE]
  /\ to_client' = [to_client EXCEPT ![c] = Tail(@)]
  /\ UNCHANGED <<nodeVars, peerVars, in_tree>>

-----------------------------------------------------------------------------
ServerNext ==
  \/ \E n \in Nodes : RegisterNode(n)
  \/ \E n \in Nodes, x \in Values : RegisterVariable(n, x)
  \/ \E n \in Nodes, v \in VarIds, x \in Values : ChangeVariable(n, v, x)
  \/ \E notify_state \in BOOLEAN : NotifyState(notify_state)
  \/ \E c \in Toggled, e \in BOOLEAN : SetPeerNetworkingEnable(c, e)
  \/ \E c \in Clients : ReceiveNeedFull(c) \/ ReceiveSetEnabled(c)

ClientNext(c) ==
  \/ Connect(c)
  \/ Disconnect(c)
  \/ \E e \in BOOLEAN : c \in Toggled /\ SetEnabled(c, e)
  \/ \E n \in Nodes : AddNode(c, n) \/ RemoveNode(c, n)
  \/ ReceiveStatus(c)
  \/ ReceiveState(c)

Next == ServerNext \/ \E c \in Clients : ClientNext(c)

Spec == Init /\ [][Next]_vars

-----------------------------------------------------------------------------
SceneValues == [Nodes -> Seq(Values)]
Partial == UNION {[D -> Values] : D \in SUBSET VarIds}
NodeStates == [path : BOOLEAN, names : SUBSET VarIds, vars : Partial]
Statuses == [kind : {"status"}, enable : BOOLEAN, scene : SceneValues]
States == [kind : {"state"}, full : BOOLEAN, scene : SceneValues,
           nodes : UNION {[D -> NodeStates] : D \in SUBSET Nodes}]

\* The types of the variables.
TypeOK ==
  /\ node_data \subseteq Nodes
  /\ values \in SceneValues /\ \A n \in Nodes : Registered(n) \subseteq VarsOf(n)
  /\ changes \in [Nodes -> Change]
  /\ peer_data \subseteq Clients
  /\ {peer_enabled, force_notify_snapshot, need_full_snapshot} \subseteq [Clients -> BOOLEAN]
  /\ to_client \in [Clients -> Seq(Statuses \cup States)]
  /\ to_server \in [Clients -> Seq({"need_full", "enable", "disable"})]
  /\ {in_tree, known, node_paths} \subseteq [Clients -> SUBSET Nodes]
  /\ var_ids \in [Clients -> [Nodes -> SUBSET VarIds]]
  /\ last_received_snapshot \in [Clients -> [Nodes -> [VarIds -> Values \cup {Unset}]]]
  /\ {enabled, want_to_enable, gap} \subseteq [Clients -> BOOLEAN]
  /\ heard \in [Clients -> SceneValues]

\* A client that knows the id of a variable has received a value of it: an id
\* without its value would let deltas in that never mention the value, and no
\* full snapshot would be asked for.
IdsComeWithValues ==
  \A c \in Clients, n \in Nodes : \A v \in var_ids[c][n] :
    n \in known[c] /\ last_received_snapshot[c][n][v] /= Unset

\* Every value in a client's last_received_snapshot is the one the variable
\* had on the server when it sent the last state received: the deltas leave
\* nothing out, whichever states were skipped in part, and whatever happened
\* while the peer was disabled or the node was not there.
SnapshotIsTheServers ==
  \A c \in Clients : \A n \in Nodes, v \in VarIds :
    last_received_snapshot[c][n][v] /= Unset =>
      /\ v < Len(heard[c][n])
      /\ last_received_snapshot[c][n][v] = heard[c][n][v + 1]

\* A peer that is sent deltas is told everything: a value it is shown that is
\* not the one in the last state for it is among the changes, which are
\* cleared for all the peers at once.
NothingIsUntold ==
  \A c \in peer_data : peer_enabled[c] /\ ~need_full_snapshot[c] =>
    \A n \in Shown(c) : \A v \in Registered(n) :
      \/ v \in changes[n].vars
      \/ v < Len(Told(c)[n]) /\ Told(c)[n][v + 1] = values[n][v + 1]

\* A client that met an id it does not know is going to be sent everything:
\* its request, the server's note of it, or the full state is on its way, even
\* when the peer was disabled in between.
GapsAreAnswered ==
  \A c \in Clients : gap[c] =>
    \/ \E i \in 1 .. Len(to_server[c]) : to_server[c][i] = "need_full"
    \/ need_full_snapshot[c]
    \/ \E i \in 1 .. Len(to_client[c]) : to_client[c][i].kind = "state" /\ to_client[c][i].full

\* A client that was disabled starts again with a full state, although deltas
\* may be on their way when it asks, and it may ask and change its mind.
StartsWithEverything ==
  [][\A c \in Clients : ~enabled[c] /\ enabled'[c] /\ c \in peer_data' =>
       Head(to_client[c]).full]_vars

\* The moments a client is told: of each call the server's values and whether it
\* tells all of them.
Moments(calls) ==
  [i \in 1 .. Len(calls) |->
     [scene |-> calls[i].scene, full |-> calls[i].kind = "state" /\ calls[i].full]]

Copies == INSTANCE SceneCopies WITH
  Sees <- [c \in Clients |-> Shown(c)],
  scene <- values,
  coming <- [c \in Clients |-> Moments(to_client[c])],
  moment <- heard,
  copy <- last_received_snapshot,
  has <- in_tree

\* A client's snapshot is a copy of one moment of the server's scene, which goes
\* forward through the moments the server told it and in their order; no delta loses
\* a value, and a full state leaves none out of the nodes the client has
\* (client_synchronizer.cpp:206-213; server_synchronizer.cpp:294-523,
\* client_synchronizer.cpp:1025-1402).
ImplementsCopies == Copies!CopiesSpec
=============================================================================
