-------------------------- MODULE Snapshots_proofs --------------------------
(***************************************************************************)
(* Proofs about Snapshots, for any number of clients, nodes, variables and *)
(* values and any bounds.                                                  *)
(*                                                                         *)
(* The states on their way are a chain.  Each carries values of the scene  *)
(* it was made from, and all that differs from the scene before it, which  *)
(* is the one of the call before or the one the client heard of.  The      *)
(* chain ends at what the client was told, and the server's changes hold   *)
(* all that differs between that and its values now.  So a client that     *)
(* keeps a value that a state does not mention keeps the right one, and a  *)
(* value that it skips is one it does not have.                            *)
(***************************************************************************)
EXTENDS Snapshots, SequenceTheorems, TLAPS

(***************************************************************************)
(* The inductive invariant.                                                *)
(***************************************************************************)
Message == Statuses \cup States

\* Variables are only added.
Grew(before, after) == \A n \in Nodes : Len(before[n]) <= Len(after[n])

Carries(m, n, v) == n \in DOMAIN m.nodes /\ v \in DOMAIN m.nodes[n].vars

Same(before, after, n, v) ==
  v < Len(before[n]) /\ v < Len(after[n]) /\ before[n][v + 1] = after[n][v + 1]

\* What a state carries is of its scene ...
IsExact(c, m) ==
  \A n \in DOMAIN m.nodes :
    /\ m.nodes[n].names \subseteq DOMAIN m.nodes[n].vars
    /\ \A v \in DOMAIN m.nodes[n].vars :
         n \in Shown(c) /\ v < Len(m.scene[n]) /\ m.nodes[n].vars[v] = m.scene[n][v + 1]

\* ... and is all that differs from the scene the client was told before.
IsComplete(c, m, before) ==
  \A n \in Shown(c), v \in VarIds :
    v < Len(m.scene[n]) => Carries(m, n, v) \/ Same(before, m.scene, n, v)

Continues(c, m, before) ==
  /\ Grew(before, m.scene)
  /\ m.kind = "status" => m.scene = before
  /\ m.kind = "state" => IsExact(c, m) /\ IsComplete(c, m, before)

\* Each call on its way continues the one before.
IsChain(c, queue, first) ==
  \A i \in 1 .. Len(queue) :
    Continues(c, queue[i], IF i = 1 THEN first ELSE queue[i - 1].scene)

LastScene(queue, first) == IF queue = <<>> THEN first ELSE queue[Len(queue)].scene

\* Only a registered node has variables, and only they change.
VariablesHaveNodes == \A n \in Nodes : values[n] /= <<>> => n \in node_data
ChangesAreRegistered == \A n \in Nodes : changes[n].vars \subseteq Registered(n)
\* The calls go on from what the client heard to the server's values.
CallsAreChained == \A c \in Clients : IsChain(c, to_client[c], heard[c])
ToldIsBehind == \A c \in Clients : Grew(Told(c), values)
\* A client knows the ids of just the variables it has values of.
IdsAreValues ==
  \A c \in Clients, n \in Nodes :
    /\ \A v \in VarIds : last_received_snapshot[c][n][v] /= Unset <=> v \in var_ids[c][n]
    /\ var_ids[c][n] /= {} => n \in known[c] /\ n \in Shown(c)

IInv ==
  /\ TypeOK
  /\ VariablesHaveNodes
  /\ ChangesAreRegistered
  /\ CallsAreChained
  /\ ToldIsBehind
  /\ IdsAreValues
  /\ SnapshotIsTheServers
  /\ NothingIsUntold

-----------------------------------------------------------------------------
(***************************************************************************)
(* The queues of calls.                                                    *)
(***************************************************************************)
LEMMA QueueAppend ==
  ASSUME NEW c, NEW first, NEW q \in Seq(Message), NEW m \in Message,
         IsChain(c, q, first), Continues(c, m, LastScene(q, first))
  PROVE  IsChain(c, Append(q, m), first) /\ LastScene(Append(q, m), first) = m.scene
<1> DEFINE r == Append(q, m)
<1>1. r \in Seq(Message) /\ Len(r) = Len(q) + 1 /\ r[Len(q) + 1] = m
      /\ (\A i \in 1 .. Len(q) : r[i] = q[i]) /\ r /= <<>>
  OBVIOUS
<1>2. ASSUME NEW i \in 1 .. Len(r)
      PROVE  Continues(c, r[i], IF i = 1 THEN first ELSE r[i - 1].scene)
  <2>1. CASE i <= Len(q)
    <3>1. i \in 1 .. Len(q) /\ (i /= 1 => i - 1 \in 1 .. Len(q))
      BY <1>1, <2>1
    <3> QED BY <1>1, <3>1 DEF IsChain
  <2>2. CASE i = Len(q) + 1
    <3>1. LastScene(q, first) = IF i = 1 THEN first ELSE r[i - 1].scene
      <4>1. i = 1 <=> q = <<>>
        BY <2>2
      <4>2. i /= 1 => i - 1 = Len(q) /\ Len(q) \in 1 .. Len(q)
        BY <2>2
      <4> QED BY <1>1, <4>1, <4>2 DEF LastScene
    <3> QED BY <1>1, <2>2, <3>1
  <2> QED BY <1>1, <2>1, <2>2
<1>3. LastScene(r, first) = m.scene
  BY <1>1 DEF LastScene
<1> QED BY <1>2, <1>3 DEF IsChain

LEMMA QueueTail ==
  ASSUME NEW c, NEW first, NEW q \in Seq(Message), q /= <<>>, IsChain(c, q, first)
  PROVE  /\ Continues(c, Head(q), first)
         /\ IsChain(c, Tail(q), Head(q).scene)
         /\ LastScene(Tail(q), Head(q).scene) = LastScene(q, first)
<1> DEFINE t == Tail(q)
<1>1. Head(q) = q[1] /\ Len(q) >= 1 /\ t \in Seq(Message) /\ Len(t) = Len(q) - 1
      /\ \A i \in 1 .. Len(t) : t[i] = q[i + 1]
  OBVIOUS
<1>2. Continues(c, Head(q), first)
  BY <1>1 DEF IsChain
<1>3. ASSUME NEW i \in 1 .. Len(t)
      PROVE  Continues(c, t[i], IF i = 1 THEN Head(q).scene ELSE t[i - 1].scene)
  <2>1. i + 1 \in 1 .. Len(q) /\ i + 1 /= 1 /\ (i + 1) - 1 = i
    BY <1>1
  <2>2. Continues(c, q[i + 1], q[i].scene)
    BY <2>1 DEF IsChain
  <2>3. i /= 1 => i - 1 \in 1 .. Len(t) /\ (i - 1) + 1 = i
    BY <1>1
  <2>4. q[i] = IF i = 1 THEN Head(q) ELSE t[i - 1]
    BY <1>1, <2>3
  <2> QED BY <1>1, <2>2, <2>4
<1>4. LastScene(t, Head(q).scene) = LastScene(q, first)
  <2>1. CASE t = <<>>
    <3> HIDE DEF t
    <3>1. Len(t) = 0
      BY <2>1
    <3>2. Len(q) = 1
      BY <1>1, <3>1
    <3> QED BY <1>1, <2>1, <3>2 DEF LastScene
  <2>2. CASE t /= <<>>
    <3>1. Len(t) \in 1 .. Len(t) /\ Len(t) + 1 = Len(q)
      BY <1>1, <2>2
    <3> QED BY <1>1, <2>2, <3>1 DEF LastScene
  <2> QED BY <2>1, <2>2
<1> QED BY <1>2, <1>3, <1>4 DEF IsChain

-----------------------------------------------------------------------------
(***************************************************************************)
(* Types.                                                                  *)
(***************************************************************************)
LEMMA VarsAreIds == \A n \in Nodes : VarsOf(n) \subseteq VarIds /\ VarsOf(n) \subseteq Nat
BY SnapshotBoundsAssumption DEF VarIds, VarsOf

LEMMA VarIdsAreNatural == VarIds \subseteq Nat
BY SnapshotBoundsAssumption DEF VarIds, VarsOf

LEMMA ToldIsLast == \A c : Told(c) = LastScene(to_client[c], heard[c])
BY DEF Told, LastScene

LEMMA ToldIsAScene ==
  ASSUME TypeOK, NEW c \in Clients
  PROVE  Told(c) \in SceneValues
<1> DEFINE q == to_client[c]
<1>1. q \in Seq(Statuses \cup States) /\ heard[c] \in SceneValues
  BY DEF TypeOK
<1>2. CASE q = <<>>
  BY <1>1, <1>2 DEF Told
<1>3. CASE q /= <<>>
  <2>1. q[Len(q)] \in Statuses \cup States
    BY <1>1, <1>3
  <2>2. q[Len(q)].scene \in SceneValues
    BY <2>1 DEF Statuses, States
  <2> QED BY <1>3, <2>2 DEF Told
<1> QED BY <1>2, <1>3

LEMMA StatusType ==
  ASSUME TypeOK, NEW c \in Clients, NEW e \in BOOLEAN
  PROVE  Status(c, e) \in Statuses
BY ToldIsAScene DEF Status, Statuses

\* The variables a state sends are registered.
LEMMA SentAreRegistered ==
  ASSUME TypeOK, ChangesAreRegistered, NEW c \in Clients, NEW n \in Nodes, NEW full \in BOOLEAN
  PROVE  /\ DOMAIN NodeState(c, n, full).vars \subseteq Registered(n)
         /\ NodeState(c, n, full).names \subseteq DOMAIN NodeState(c, n, full).vars
         /\ \A v \in DOMAIN NodeState(c, n, full).vars :
              n \in Shown(c) /\ NodeState(c, n, full).vars[v] = values[n][v + 1]
         /\ n \in Shown(c) =>
              DOMAIN NodeState(c, n, full).vars = IF full THEN Registered(n) ELSE changes[n].vars
BY DEF NodeState, ChangesAreRegistered

LEMMA NodeStateType ==
  ASSUME TypeOK, ChangesAreRegistered, NEW c \in Clients, NEW n \in Nodes, NEW full \in BOOLEAN
  PROVE  NodeState(c, n, full) \in NodeStates
<1> DEFINE s == NodeState(c, n, full)
<1>1. values[n] \in Seq(Values) /\ Registered(n) \subseteq VarIds
  BY VarsAreIds DEF TypeOK, SceneValues
<1>2. DOMAIN s.vars \subseteq Registered(n) /\ s.names \subseteq DOMAIN s.vars
      /\ \A v \in DOMAIN s.vars : s.vars[v] = values[n][v + 1]
  BY SentAreRegistered
<1>3. \A v \in Registered(n) : values[n][v + 1] \in Values
  BY <1>1 DEF Registered
<1>4. s.path \in BOOLEAN
  BY DEF NodeState, TypeOK, Change
<1>5. s.vars \in [DOMAIN s.vars -> Values]
  BY <1>2, <1>3 DEF NodeState
<1>6. s.vars \in Partial
  BY <1>1, <1>2, <1>5 DEF Partial
<1>7. s = [path |-> s.path, names |-> s.names, vars |-> s.vars]
  BY DEF NodeState
<1> QED BY <1>1, <1>2, <1>4, <1>6, <1>7 DEF NodeStates

LEMMA StateType ==
  ASSUME TypeOK, ChangesAreRegistered, NEW c \in Clients
  PROVE  State(c) \in States
<1> DEFINE full == need_full_snapshot[c]
           D == {m \in node_data : NodeIsSent(c, m, full)}
           nodes == [n \in D |-> NodeState(c, n, full)]
<1>1. full \in BOOLEAN /\ D \subseteq Nodes /\ values \in SceneValues
  BY DEF TypeOK
<1>2. nodes \in [D -> NodeStates]
  BY <1>1, NodeStateType
<1>3. State(c) = [kind |-> "state", full |-> full, nodes |-> nodes, scene |-> values]
  BY DEF State
<1> QED BY <1>1, <1>2, <1>3 DEF States

LEMMA TypeStep == TypeOK /\ ChangesAreRegistered /\ [Next]_vars => TypeOK'
<1> SUFFICES ASSUME TypeOK, ChangesAreRegistered, [Next]_vars
             PROVE  TypeOK'
  OBVIOUS
<1> USE DEF nodeVars, peerVars, networkVars, storedVars, snapshotVars, enabledVars
<1>1. ASSUME NEW n \in Nodes, RegisterNode(n)
      PROVE  TypeOK'
  BY <1>1 DEF RegisterNode, TypeOK, Registered, Change
<1>2. ASSUME NEW n \in Nodes, NEW x \in Values, RegisterVariable(n, x)
      PROVE  TypeOK'
  <2>1. values[n] \in Seq(Values) /\ Len(values[n]) \in VarsOf(n) /\ Len(values[n]) \in VarIds
    <3>1. values[n] \in Seq(Values) /\ Len(values[n]) < NumVars[n]
      BY <1>2 DEF RegisterVariable, TypeOK, SceneValues
    <3>2. Len(values[n]) \in VarsOf(n)
      BY <3>1, SnapshotBoundsAssumption DEF VarsOf
    <3> QED BY <3>1, <3>2, VarsAreIds
  <2>2. values' \in SceneValues /\ (\A m \in Nodes : Registered(m) \subseteq VarsOf(m))'
    <3>1. values' = [values EXCEPT ![n] = Append(@, x)] /\ Append(values[n], x) \in Seq(Values)
          /\ Len(Append(values[n], x)) = Len(values[n]) + 1
      BY <1>2, <2>1 DEF RegisterVariable
    <3>2. values' \in SceneValues
      BY <3>1 DEF TypeOK, SceneValues
    <3>3. ASSUME NEW m \in Nodes
          PROVE  Registered(m)' \subseteq VarsOf(m)
      <4>1. CASE m = n
        BY <2>1, <3>1, <4>1 DEF TypeOK, SceneValues, Registered, VarsOf
      <4>2. CASE m /= n
        BY <3>1, <4>2 DEF TypeOK, SceneValues, Registered, VarsOf
      <4> QED BY <4>1, <4>2
    <3> QED BY <3>2, <3>3 DEF VarsOf
  <2>3. changes' \in [Nodes -> Change]
    <3> DEFINE Added(change, v) ==
                 [change EXCEPT !.vars = @ \cup {v}, !.uknown_vars = @ \cup {v}]
    <3>1. \A change \in Change, v \in VarIds : Added(change, v) \in Change
      BY DEF Change
    <3>2. changes' = [changes EXCEPT ![n] = Added(@, Len(values[n]))]
      BY <1>2 DEF RegisterVariable
    <3> HIDE DEF Added
    <3> QED BY <2>1, <3>1, <3>2 DEF TypeOK
  <2> QED BY <1>2, <2>2, <2>3 DEF RegisterVariable, TypeOK
<1>3. ASSUME NEW n \in Nodes, NEW v \in VarIds, NEW x \in Values, ChangeVariable(n, v, x)
      PROVE  TypeOK'
  <2>1. values[n] \in Seq(Values) /\ v + 1 \in 1 .. Len(values[n])
    BY <1>3 DEF ChangeVariable, TypeOK, SceneValues, Registered
  <2>2. values' \in SceneValues /\ \A m \in Nodes : Len(values'[m]) = Len(values[m])
    BY <1>3, <2>1 DEF ChangeVariable, TypeOK, SceneValues
  <2>3. (\A m \in Nodes : Registered(m) \subseteq VarsOf(m))'
    BY <2>2 DEF TypeOK, Registered, VarsOf
  <2>4. changes' \in [Nodes -> Change]
    BY <1>3 DEF ChangeVariable, TypeOK, Change
  <2> QED BY <1>3, <2>2, <2>3, <2>4 DEF ChangeVariable, TypeOK
<1>4. ASSUME NEW ns \in BOOLEAN, NotifyState(ns)
      PROVE  TypeOK'
  <2>1. to_client' \in [Clients -> Seq(Statuses \cup States)]
    BY <1>4, StateType DEF NotifyState, TypeOK
  <2>2. {force_notify_snapshot', need_full_snapshot'} \subseteq [Clients -> BOOLEAN]
    BY <1>4 DEF NotifyState, TypeOK, StillNeedsFull
  <2>3. changes' \in [Nodes -> Change]
    BY <1>4 DEF NotifyState, TypeOK, NoChange, Change
  <2> QED BY <1>4, <2>1, <2>2, <2>3 DEF NotifyState, TypeOK, Registered
<1>5. ASSUME NEW c \in Clients, NEW e \in BOOLEAN, SetPeerEnabled(c, e)
      PROVE  /\ to_client' \in [Clients -> Seq(Statuses \cup States)]
             /\ {peer_enabled', force_notify_snapshot', need_full_snapshot'} \subseteq [Clients -> BOOLEAN]
             /\ peer_data' = peer_data
  <2>1. CASE peer_enabled[c] = e
    BY <1>5, <2>1 DEF SetPeerEnabled, TypeOK
  <2>2. CASE peer_enabled[c] /= e
    <3>1. Status(c, e) \in Statuses \cup States
      BY StatusType
    <3>2. to_client' = [to_client EXCEPT ![c] = Append(@, Status(c, e))]
      BY <1>5, <2>2 DEF SetPeerEnabled
    <3>3. to_client' \in [Clients -> Seq(Statuses \cup States)]
      BY <3>1, <3>2 DEF TypeOK
    <3>4. peer_enabled' \in [Clients -> BOOLEAN]
      BY <1>5, <2>2 DEF SetPeerEnabled, TypeOK
    <3>5. force_notify_snapshot' \in [Clients -> BOOLEAN]
      BY <1>5, <2>2 DEF SetPeerEnabled, TypeOK
    <3>6. need_full_snapshot' \in [Clients -> BOOLEAN]
      BY <1>5, <2>2 DEF SetPeerEnabled, NeedsFull, TypeOK
    <3> QED BY <1>5, <2>2, <3>3, <3>4, <3>5, <3>6 DEF SetPeerEnabled
  <2> QED BY <2>1, <2>2
<1>6. ASSUME NEW c \in Clients, NEW e \in BOOLEAN, SetPeerNetworkingEnable(c, e)
      PROVE  TypeOK'
  BY <1>5, <1>6 DEF SetPeerNetworkingEnable, TypeOK, Registered
<1>7. ASSUME NEW c \in Clients, ReceiveNeedFull(c)
      PROVE  TypeOK'
  BY <1>7 DEF ReceiveNeedFull, TypeOK, Registered
<1>8. ASSUME NEW c \in Clients, ReceiveSetEnabled(c)
      PROVE  TypeOK'
  <2>1. SetPeerEnabled(c, Head(to_server[c]) = "enable")
    BY <1>8 DEF ReceiveSetEnabled
  <2>2. to_server' \in [Clients -> Seq({"need_full", "enable", "disable"})]
    BY <1>8 DEF ReceiveSetEnabled, TypeOK
  <2> QED BY <1>5, <1>8, <2>1, <2>2 DEF ReceiveSetEnabled, TypeOK, Registered
<1>9. ASSUME NEW c \in Clients, Connect(c)
      PROVE  TypeOK'
  BY <1>9 DEF Connect, TypeOK, Registered
<1>10. ASSUME NEW c \in Clients, Disconnect(c)
       PROVE  TypeOK'
  <2>1. NoValues \in SceneValues /\ NothingSet \in [Nodes -> [VarIds -> Values \cup {Unset}]]
    BY DEF NoValues, SceneValues, NothingSet
  <2> QED BY <1>10, <2>1 DEF Disconnect, TypeOK, Registered
<1>11. ASSUME NEW c \in Clients, NEW e \in BOOLEAN, SetEnabled(c, e)
       PROVE  TypeOK'
  <2>1. to_server' \in [Clients -> Seq({"need_full", "enable", "disable"})]
    BY <1>11 DEF SetEnabled, TypeOK
  <2>2. {enabled', want_to_enable'} \subseteq [Clients -> BOOLEAN]
    <3>1. CASE e
      BY <1>11, <3>1 DEF SetEnabled, TypeOK
    <3>2. CASE ~e
      <4>1. want_to_enable' \in [Clients -> BOOLEAN]
        BY <1>11, <3>2 DEF SetEnabled, SetClientEnabled, TypeOK
      <4>2. enabled' \in [Clients -> BOOLEAN]
        BY <1>11, <3>2 DEF SetEnabled, SetClientEnabled, TypeOK
      <4> QED BY <4>1, <4>2
    <3> QED BY <3>1, <3>2
  <2> QED BY <1>11, <2>1, <2>2 DEF SetEnabled, TypeOK, Registered
<1>12. ASSUME NEW c \in Clients, NEW n \in Nodes, AddNode(c, n)
       PROVE  TypeOK'
  BY <1>12 DEF AddNode, TypeOK, Registered
<1>13. ASSUME NEW c \in Clients, NEW n \in Nodes, RemoveNode(c, n)
       PROVE  TypeOK'
  BY <1>13 DEF RemoveNode, Forgotten, TypeOK, Registered
<1>14. ASSUME NEW c \in Clients, to_client[c] /= <<>>
       PROVE  /\ Head(to_client[c]) \in Statuses \cup States
              /\ Tail(to_client[c]) \in Seq(Statuses \cup States)
  BY <1>14 DEF TypeOK
<1>15. ASSUME NEW c \in Clients, ReceiveStatus(c)
       PROVE  TypeOK'
  <2>1. Head(to_client[c]) \in Statuses
    BY <1>14, <1>15 DEF ReceiveStatus, Statuses, States
  <2> QED BY <1>14, <1>15, <2>1 DEF ReceiveStatus, SetClientEnabled, TypeOK, Registered, Statuses
<1>16. ASSUME NEW c \in Clients, ReceiveState(c)
       PROVE  TypeOK'
  <2> DEFINE m == Head(to_client[c])
  <2>1. m \in States
    BY <1>14, <1>16 DEF ReceiveState, Statuses, States
  <2>2. /\ m.scene \in SceneValues /\ m.full \in BOOLEAN /\ DOMAIN m.nodes \subseteq Nodes
        /\ \A n \in DOMAIN m.nodes : m.nodes[n] \in NodeStates
    BY <2>1 DEF States
  <2>3. Located(c, m.nodes) \subseteq Nodes /\ Found(c, m.nodes) \subseteq Nodes
        /\ NeedsAnswer(c, m.nodes) \in BOOLEAN
    BY <2>2 DEF Located, Found, NeedsAnswer, TypeOK
  <2>4. Merged(c, m.nodes) \in [Nodes -> [VarIds -> Values \cup {Unset}]]
    <3>1. ASSUME NEW n \in Nodes, NEW v \in VarIds, n \in Found(c, m.nodes),
                 v \in Understood(c, n, m.nodes[n])
          PROVE  m.nodes[n].vars[v] \in Values
      BY <2>2, <3>1 DEF Found, Understood, NodeStates, Partial
    <3> QED BY <3>1 DEF Merged, TypeOK
  <2>5. var_ids' \in [Clients -> [Nodes -> SUBSET VarIds]]
    <3>1. \A n \in Found(c, m.nodes) : m.nodes[n].names \subseteq VarIds
      BY <2>2 DEF Found, NodeStates
    <3> QED BY <1>16, <3>1 DEF ReceiveState, TypeOK
  <2>6. {known', node_paths'} \subseteq [Clients -> SUBSET Nodes]
        /\ last_received_snapshot' \in [Clients -> [Nodes -> [VarIds -> Values \cup {Unset}]]]
        /\ heard' \in [Clients -> SceneValues]
    BY <1>16, <2>2, <2>3, <2>4 DEF ReceiveState, TypeOK
  <2>7. {enabled', want_to_enable', gap'} \subseteq [Clients -> BOOLEAN]
        /\ to_client' \in [Clients -> Seq(Statuses \cup States)]
        /\ to_server' \in [Clients -> Seq({"need_full", "enable", "disable"})]
    BY <1>14, <1>16, <2>2, <2>3 DEF ReceiveState, TypeOK
  <2> QED BY <1>16, <2>5, <2>6, <2>7 DEF ReceiveState, TypeOK, Registered
<1>17. CASE UNCHANGED vars
  BY <1>17 DEF vars, TypeOK, Registered
<1> QED BY <1>1, <1>2, <1>3, <1>4, <1>6, <1>7, <1>8, <1>9, <1>10, <1>11, <1>12, <1>13, <1>15,
           <1>16, <1>17, GameAssumption DEF Next, ServerNext, ClientNext

-----------------------------------------------------------------------------
(***************************************************************************)
(* The server's variables.                                                 *)
(***************************************************************************)
LEMMA VariablesStep ==
  TypeOK /\ VariablesHaveNodes /\ ChangesAreRegistered /\ [Next]_vars =>
    VariablesHaveNodes' /\ ChangesAreRegistered' /\ Grew(values, values')
<1> SUFFICES ASSUME TypeOK, VariablesHaveNodes, ChangesAreRegistered, [Next]_vars
             PROVE  VariablesHaveNodes' /\ ChangesAreRegistered' /\ Grew(values, values')
  OBVIOUS
<1> USE DEF nodeVars, Registered
<1>1. \A n \in Nodes : values[n] \in Seq(Values) /\ Len(values[n]) \in Nat
  BY DEF TypeOK, SceneValues
<1>2. ASSUME NEW n \in Nodes, RegisterNode(n)
      PROVE  VariablesHaveNodes' /\ ChangesAreRegistered' /\ Grew(values, values')
  BY <1>1, <1>2 DEF RegisterNode, VariablesHaveNodes, ChangesAreRegistered, Grew, TypeOK, Change
<1>3. ASSUME NEW n \in Nodes, NEW x \in Values, RegisterVariable(n, x)
      PROVE  VariablesHaveNodes' /\ ChangesAreRegistered' /\ Grew(values, values')
  <2>1. n \in node_data /\ node_data' = node_data
        /\ \A m \in Nodes : values'[m] = IF m = n THEN Append(values[n], x) ELSE values[m]
    BY <1>3 DEF RegisterVariable, TypeOK, SceneValues
  <2>2. Len(Append(values[n], x)) = Len(values[n]) + 1
    BY <1>1
  <2>3. \A m \in Nodes : Len(values'[m]) = IF m = n THEN Len(values[m]) + 1 ELSE Len(values[m])
    BY <2>1, <2>2
  <2>4. VariablesHaveNodes'
    BY <2>1 DEF VariablesHaveNodes
  <2>5. \A m \in Nodes :
          changes'[m].vars \subseteq changes[m].vars \cup (IF m = n THEN {Len(values[n])} ELSE {})
    BY <1>3 DEF RegisterVariable, TypeOK, Change
  <2>6. ChangesAreRegistered'
    BY <1>1, <2>3, <2>5 DEF ChangesAreRegistered
  <2> QED BY <1>1, <2>3, <2>4, <2>6 DEF Grew
<1>4. ASSUME NEW n \in Nodes, NEW v \in VarIds, NEW x \in Values, ChangeVariable(n, v, x)
      PROVE  VariablesHaveNodes' /\ ChangesAreRegistered' /\ Grew(values, values')
  <2>1. v \in 0 .. Len(values[n]) - 1 /\ node_data' = node_data
    BY <1>4 DEF ChangeVariable
  <2>2. values[n] /= <<>>
    BY <1>1, <2>1
  <2>3. \A m \in Nodes : Len(values'[m]) = Len(values[m]) /\ (values[m] = <<>> => values'[m] = <<>>)
    BY <1>1, <1>4, <2>1, <2>2 DEF ChangeVariable, TypeOK, SceneValues
  <2>4. \A m \in Nodes : changes'[m].vars \subseteq changes[m].vars \cup (IF m = n THEN {v} ELSE {})
    BY <1>4 DEF ChangeVariable, TypeOK, Change
  <2> QED BY <1>1, <2>1, <2>3, <2>4 DEF VariablesHaveNodes, ChangesAreRegistered, Grew
<1>5. ASSUME NEW ns \in BOOLEAN, NotifyState(ns)
      PROVE  VariablesHaveNodes' /\ ChangesAreRegistered' /\ Grew(values, values')
  <2>1. \A m \in Nodes : changes'[m].vars \subseteq changes[m].vars
    BY <1>5 DEF NotifyState, NoChange
  <2> QED BY <1>1, <1>5, <2>1 DEF NotifyState, VariablesHaveNodes, ChangesAreRegistered, Grew
<1>6. CASE UNCHANGED nodeVars
  BY <1>1, <1>6 DEF VariablesHaveNodes, ChangesAreRegistered, Grew
<1> QED BY <1>2, <1>3, <1>4, <1>5, <1>6, GameAssumption
        DEF Next, ServerNext, ClientNext, vars, SetPeerNetworkingEnable, ReceiveNeedFull,
            ReceiveSetEnabled, Connect, Disconnect, SetEnabled, AddNode, RemoveNode,
            ReceiveStatus, ReceiveState

-----------------------------------------------------------------------------
(***************************************************************************)
(* The calls to the clients.                                               *)
(***************************************************************************)
\* A state tells a client all that it was not told before.
LEMMA StateContinues ==
  ASSUME TypeOK, VariablesHaveNodes, ChangesAreRegistered, ToldIsBehind, NothingIsUntold,
         NEW c \in Clients, c \in peer_data, peer_enabled[c]
  PROVE  Continues(c, State(c), Told(c))
<1> DEFINE m == State(c)
           full == need_full_snapshot[c]
<1>1. /\ m.kind = "state" /\ m.scene = values
      /\ DOMAIN m.nodes = {n \in node_data : NodeIsSent(c, n, full)}
      /\ \A n \in DOMAIN m.nodes : m.nodes[n] = NodeState(c, n, full)
  BY DEF State
<1>2. full \in BOOLEAN /\ node_data \subseteq Nodes
      /\ \A n \in Nodes : Len(values[n]) \in Nat
  BY DEF TypeOK, SceneValues
<1>3. ASSUME NEW n \in DOMAIN m.nodes
      PROVE  /\ m.nodes[n].names \subseteq DOMAIN m.nodes[n].vars
             /\ \A v \in DOMAIN m.nodes[n].vars :
                  n \in Shown(c) /\ v < Len(m.scene[n]) /\ m.nodes[n].vars[v] = m.scene[n][v + 1]
  <2>1. n \in Nodes /\ m.nodes[n] = NodeState(c, n, full)
    BY <1>1, <1>2
  <2>2. DOMAIN m.nodes[n].vars \subseteq Registered(n)
    BY <1>2, <2>1, SentAreRegistered
  <2>3. \A v \in Registered(n) : v < Len(values[n])
    BY <1>2, <2>1 DEF Registered
  <2> QED BY <1>1, <1>2, <2>1, <2>2, <2>3, SentAreRegistered
<1>4. ASSUME NEW n \in Shown(c), NEW v \in VarIds, v < Len(m.scene[n])
      PROVE  Carries(m, n, v) \/ Same(Told(c), m.scene, n, v)
  <2>1. n \in Nodes /\ v \in Registered(n)
    BY <1>1, <1>2, <1>4, VarIdsAreNatural DEF Shown, Registered
  <2>2. values[n] /= <<>>
    BY <1>2, <2>1 DEF Registered
  <2>3. n \in node_data
    BY <2>1, <2>2 DEF VariablesHaveNodes
  <2>4. CASE full
    <3>1. n \in DOMAIN m.nodes
      BY <1>1, <2>3, <2>4 DEF NodeIsSent
    <3>2. DOMAIN NodeState(c, n, full).vars = Registered(n)
      BY <1>2, <2>1, <2>4, SentAreRegistered
    <3> QED BY <1>1, <2>1, <3>1, <3>2 DEF Carries
  <2>5. CASE ~full /\ v \in changes[n].vars
    <3>1. n \in DOMAIN m.nodes
      BY <1>1, <2>3, <2>5 DEF NodeIsSent
    <3>2. DOMAIN NodeState(c, n, full).vars = changes[n].vars
      BY <1>2, <2>1, <2>5, SentAreRegistered
    <3> QED BY <1>1, <2>5, <3>1, <3>2 DEF Carries
  <2>6. CASE ~full /\ v \notin changes[n].vars
    BY <1>1, <1>4, <2>1, <2>6 DEF NothingIsUntold, Same
  <2> QED BY <2>4, <2>5, <2>6
<1> QED BY <1>1, <1>3, <1>4 DEF Continues, IsExact, IsComplete, ToldIsBehind

LEMMA StatusContinues ==
  ASSUME TypeOK, NEW c \in Clients, NEW e \in BOOLEAN
  PROVE  Continues(c, Status(c, e), Told(c))
<1>1. \A n \in Nodes : Len(Told(c)[n]) \in Nat
  BY ToldIsAScene DEF SceneValues
<1> QED BY <1>1 DEF Continues, Status, Grew

\* What a step does to the calls to a client and the scene it heard of.
CallsStay(c) == to_client'[c] = to_client[c] /\ heard'[c] = heard[c]
CallIsMade(c) ==
  \E m \in Message :
    /\ Continues(c, m, Told(c)) /\ m.scene \in {values, Told(c)}
    /\ m = State(c) \/ m.kind = "status"
    /\ to_client'[c] = Append(to_client[c], m) /\ heard'[c] = heard[c]
CallIsTaken(c) ==
  /\ to_client[c] /= <<>>
  /\ to_client'[c] = Tail(to_client[c]) /\ heard'[c] = Head(to_client[c]).scene
CallsAreLost(c) == to_client'[c] = <<>> /\ heard'[c] = NoValues

LEMMA ChannelStep ==
  ASSUME IInv, [Next]_vars, NEW c \in Clients
  PROVE  CallsStay(c) \/ CallIsMade(c) \/ CallIsTaken(c) \/ CallsAreLost(c)
<1> USE DEF networkVars, snapshotVars
<1>1. TypeOK /\ VariablesHaveNodes /\ ChangesAreRegistered /\ ToldIsBehind /\ NothingIsUntold
  BY DEF IInv
<1>2. to_client \in [Clients -> Seq(Statuses \cup States)] /\ heard \in [Clients -> SceneValues]
  BY <1>1 DEF TypeOK
<1>3. ASSUME NEW ns \in BOOLEAN, NotifyState(ns)
      PROVE  CallsStay(c) \/ CallIsMade(c)
  <2>1. heard' = heard
        /\ to_client'[c] = IF IsNotified(c, ns) THEN Append(to_client[c], State(c)) ELSE to_client[c]
    BY <1>3 DEF NotifyState
  <2>2. CASE ~IsNotified(c, ns)
    BY <2>1, <2>2 DEF CallsStay
  <2>3. CASE IsNotified(c, ns)
    <3>1. Continues(c, State(c), Told(c)) /\ State(c) \in Message
      BY <1>1, <2>3, StateContinues, StateType DEF IsNotified, Message
    <3>2. State(c).scene = values
      BY DEF State
    <3> QED BY <2>1, <2>3, <3>1, <3>2 DEF CallIsMade
  <2> QED BY <2>2, <2>3
<1>4. ASSUME NEW d \in Clients, NEW e \in BOOLEAN, SetPeerEnabled(d, e), heard' = heard
      PROVE  CallsStay(c) \/ CallIsMade(c)
  <2>1. CASE d /= c \/ peer_enabled[d] = e
    BY <1>2, <1>4, <2>1 DEF SetPeerEnabled, CallsStay
  <2>2. CASE d = c /\ peer_enabled[d] /= e
    <3>1. to_client'[c] = Append(to_client[c], Status(c, e))
      BY <1>2, <1>4, <2>2 DEF SetPeerEnabled
    <3>2. Continues(c, Status(c, e), Told(c)) /\ Status(c, e) \in Message
          /\ Status(c, e).scene = Told(c) /\ Status(c, e).kind = "status"
      BY <1>1, StatusContinues, StatusType DEF Message, Status
    <3> QED BY <1>4, <3>1, <3>2 DEF CallIsMade
  <2> QED BY <2>1, <2>2
<1>5. ASSUME NEW d \in Clients, NEW e \in BOOLEAN, SetPeerNetworkingEnable(d, e)
      PROVE  CallsStay(c) \/ CallIsMade(c)
  BY <1>4, <1>5 DEF SetPeerNetworkingEnable
<1>6. ASSUME NEW d \in Clients, ReceiveSetEnabled(d)
      PROVE  CallsStay(c) \/ CallIsMade(c)
  BY <1>4, <1>6 DEF ReceiveSetEnabled
<1>7. ASSUME NEW d \in Clients, Disconnect(d)
      PROVE  CallsStay(c) \/ CallsAreLost(c)
  BY <1>2, <1>7 DEF Disconnect, CallsStay, CallsAreLost
<1>8. ASSUME NEW d \in Clients, ReceiveStatus(d) \/ ReceiveState(d)
      PROVE  CallsStay(c) \/ CallIsTaken(c)
  BY <1>2, <1>8 DEF ReceiveStatus, ReceiveState, CallsStay, CallIsTaken
<1>9. CASE UNCHANGED <<to_client, heard>>
  BY <1>9 DEF CallsStay
<1> QED BY <1>3, <1>5, <1>6, <1>7, <1>8, <1>9, GameAssumption
        DEF Next, ServerNext, ClientNext, vars, RegisterNode, RegisterVariable, ChangeVariable,
            ReceiveNeedFull, Connect, SetEnabled, AddNode, RemoveNode

LEMMA CallsStep == IInv /\ [Next]_vars => CallsAreChained' /\ ToldIsBehind'
<1> SUFFICES ASSUME IInv, [Next]_vars, NEW c \in Clients
             PROVE  IsChain(c, to_client'[c], heard'[c]) /\ Grew(Told(c)', values')
  BY DEF CallsAreChained, ToldIsBehind
<1> DEFINE q == to_client[c]
<1>1. TypeOK /\ IsChain(c, q, heard[c]) /\ Grew(Told(c), values) /\ Grew(values, values')
  BY VariablesStep DEF IInv, CallsAreChained, ToldIsBehind
<1>2. q \in Seq(Message) /\ Told(c) = LastScene(q, heard[c])
      /\ Told(c)' = LastScene(to_client'[c], heard'[c])
  BY <1>1 DEF TypeOK, Message, Told, LastScene
<1>3. TypeOK'
  BY TypeStep DEF IInv
<1>4. \A n \in Nodes : Len(Told(c)[n]) \in Nat /\ Len(values[n]) \in Nat /\ Len(values'[n]) \in Nat
  BY <1>1, <1>3, ToldIsAScene DEF TypeOK, SceneValues
<1>5. Grew(Told(c), values')
  BY <1>1, <1>4 DEF Grew
<1>6. CASE CallsStay(c)
  BY <1>1, <1>2, <1>5, <1>6 DEF CallsStay
<1>7. CASE CallIsMade(c)
  <2>1. PICK m \in Message :
          /\ Continues(c, m, Told(c)) /\ m.scene \in {values, Told(c)}
          /\ to_client'[c] = Append(q, m) /\ heard'[c] = heard[c]
    BY <1>7 DEF CallIsMade
  <2>2. IsChain(c, Append(q, m), heard[c]) /\ LastScene(Append(q, m), heard[c]) = m.scene
    BY <1>1, <1>2, <2>1, QueueAppend
  <2> QED BY <1>1, <1>2, <1>5, <2>1, <2>2
<1>8. CASE CallIsTaken(c)
  <2>1. IsChain(c, Tail(q), Head(q).scene) /\ LastScene(Tail(q), Head(q).scene) = Told(c)
    BY <1>1, <1>2, <1>8, QueueTail DEF CallIsTaken
  <2> QED BY <1>2, <1>5, <1>8, <2>1 DEF CallIsTaken
<1>9. CASE CallsAreLost(c)
  <2>1. IsChain(c, to_client'[c], heard'[c])
    BY <1>9 DEF CallsAreLost, IsChain
  <2>2. Told(c)' = NoValues
    BY <1>2, <1>9 DEF CallsAreLost, LastScene
  <2> QED BY <1>4, <2>1, <2>2 DEF Grew, NoValues
<1> QED BY <1>6, <1>7, <1>8, <1>9, ChannelStep

LEMMA TakenIsTold ==
  ASSUME IInv, NEW c \in Clients, CallIsTaken(c) \/ CallsStay(c)
  PROVE  Told(c)' = Told(c)
<1> DEFINE q == to_client[c]
<1>1. q \in Seq(Message) /\ IsChain(c, q, heard[c])
  BY DEF IInv, TypeOK, Message, CallsAreChained
<1>2. Told(c) = LastScene(q, heard[c]) /\ Told(c)' = LastScene(to_client'[c], heard'[c])
  BY DEF Told, LastScene
<1>3. CASE CallIsTaken(c)
  BY <1>1, <1>2, <1>3, QueueTail DEF CallIsTaken
<1>4. CASE CallsStay(c)
  BY <1>2, <1>4 DEF CallsStay
<1> QED BY <1>3, <1>4

LEMMA UntoldStep == IInv /\ [Next]_vars => NothingIsUntold'
<1> DEFINE IsTold(c, n, v) ==
             v < Len(Told(c)[n]) /\ Told(c)[n][v + 1] = values[n][v + 1]
<1> SUFFICES ASSUME IInv, [Next]_vars,
                    NEW c \in peer_data', peer_enabled'[c], ~need_full_snapshot'[c],
                    NEW n \in Shown(c), NEW v \in Registered(n)'
             PROVE  v \in changes'[n].vars \/ IsTold(c, n, v)'
  BY DEF NothingIsUntold, Shown
<1> USE DEF nodeVars, peerVars, networkVars, snapshotVars, Registered
<1>1. TypeOK /\ NothingIsUntold /\ c \in Clients /\ n \in Nodes
  BY TypeStep DEF IInv, TypeOK, Shown
<1>2. values[n] \in Seq(Values) /\ changes \in [Nodes -> Change] /\ Len(values'[n]) \in Nat
  <2>1. TypeOK'
    BY TypeStep DEF IInv
  <2> QED BY <1>1, <2>1 DEF TypeOK, SceneValues
<1>3. ASSUME NEW m \in Nodes, NEW x \in Values, RegisterVariable(m, x)
      PROVE  v \in changes'[n].vars \/ IsTold(c, n, v)'
  <2>1. Told(c)' = Told(c) /\ c \in peer_data /\ peer_enabled[c] /\ ~need_full_snapshot[c]
    BY <1>3, TakenIsTold, <1>1 DEF RegisterVariable, CallsStay
  <2>2. values'[n] = IF n = m THEN Append(values[n], x) ELSE values[n]
    BY <1>1, <1>3 DEF RegisterVariable, TypeOK, SceneValues
  <2>3. changes'[n].vars = changes[n].vars \cup (IF n = m THEN {Len(values[n])} ELSE {})
    BY <1>1, <1>2, <1>3 DEF RegisterVariable, Change
  <2>4. /\ Append(values[n], x) \in Seq(Values) /\ Len(Append(values[n], x)) = Len(values[n]) + 1
        /\ \A i \in 1 .. Len(values[n]) : Append(values[n], x)[i] = values[n][i]
    BY <1>2
  <2>5. CASE v \in 0 .. Len(values[n]) - 1
    <3>1. v + 1 \in 1 .. Len(values[n])
      BY <1>2, <2>5
    <3>2. values'[n][v + 1] = values[n][v + 1]
      BY <2>2, <2>4, <3>1
    <3> QED BY <1>1, <2>1, <2>3, <2>5, <3>2 DEF NothingIsUntold
  <2>6. CASE v \notin 0 .. Len(values[n]) - 1
    <3>1. Len(values'[n]) = IF n = m THEN Len(values[n]) + 1 ELSE Len(values[n])
      BY <2>2, <2>4
    <3>2. n = m /\ v = Len(values[n])
      BY <1>2, <2>6, <3>1
    <3> QED BY <2>3, <3>2
  <2> QED BY <2>5, <2>6
<1>4. ASSUME NEW m \in Nodes, NEW w \in VarIds, NEW x \in Values, ChangeVariable(m, w, x)
      PROVE  v \in changes'[n].vars \/ IsTold(c, n, v)'
  <2>1. Told(c)' = Told(c) /\ c \in peer_data /\ peer_enabled[c] /\ ~need_full_snapshot[c]
    BY <1>4, TakenIsTold, <1>1 DEF ChangeVariable, CallsStay
  <2>2. w + 1 \in 1 .. Len(values[m]) /\ w \in Nat
    BY <1>4, VarIdsAreNatural DEF ChangeVariable
  <2>3. values'[n] = IF n = m THEN [values[n] EXCEPT ![w + 1] = x] ELSE values[n]
    BY <1>1, <1>4 DEF ChangeVariable, TypeOK, SceneValues
  <2>4. Len(values'[n]) = Len(values[n])
    BY <1>2, <2>2, <2>3
  <2>5. changes[n].vars \subseteq changes'[n].vars /\ (n = m => w \in changes'[n].vars)
    BY <1>1, <1>2, <1>4 DEF ChangeVariable, Change
  <2>6. CASE n = m /\ v = w
    BY <2>5, <2>6
  <2>7. CASE n /= m \/ v /= w
    <3>1. values'[n][v + 1] = values[n][v + 1]
      BY <1>2, <2>2, <2>3, <2>4, <2>7
    <3> QED BY <1>1, <2>1, <2>4, <2>5, <3>1 DEF NothingIsUntold
  <2> QED BY <2>6, <2>7
<1>5. ASSUME NEW ns \in BOOLEAN, NotifyState(ns)
      PROVE  v \in changes'[n].vars \/ IsTold(c, n, v)'
  <2>1. values' = values /\ heard' = heard /\ c \in peer_data /\ peer_enabled[c]
        /\ to_client'[c] = IF IsNotified(c, ns) THEN Append(to_client[c], State(c)) ELSE to_client[c]
    BY <1>1, <1>5 DEF NotifyState
  <2>2. CASE IsNotified(c, ns)
    <3>1. to_client[c] \in Seq(Message) /\ State(c) \in Message
      BY <1>1, StateType DEF IInv, TypeOK, Message
    <3>2. Told(c)' = State(c).scene
      BY <2>1, <2>2, <3>1 DEF Told
    <3> QED BY <1>1, <1>2, <2>1, <3>2 DEF State
  <2>3. CASE ~IsNotified(c, ns)
    <3>1. ~ns /\ changes' = changes
      BY <1>5, <2>1, <2>3 DEF NotifyState, IsNotified, IsCheckpoint
    <3>2. ~need_full_snapshot[c]
      BY <1>1, <1>5, <2>3 DEF NotifyState, StillNeedsFull
    <3>3. Told(c)' = Told(c)
      BY <1>1, <2>1, <2>3, TakenIsTold DEF CallsStay
    <3> QED BY <1>1, <2>1, <3>1, <3>2, <3>3 DEF NothingIsUntold
  <2> QED BY <2>2, <2>3
\* The others leave the server's variables and what the peer is told alone, or
\* the peer needs a full snapshot or is gone.
<1>6. ASSUME c \in peer_data, peer_enabled[c], ~need_full_snapshot[c], CallIsTaken(c) \/ CallsStay(c),
             values' = values, \A m \in Nodes : changes'[m].vars = changes[m].vars
      PROVE  v \in changes'[n].vars \/ IsTold(c, n, v)'
  <2>1. Told(c)' = Told(c)
    BY <1>1, <1>6, TakenIsTold
  <2> QED BY <1>1, <1>6, <2>1 DEF NothingIsUntold
<1>7. ASSUME NEW m \in Nodes, RegisterNode(m)
      PROVE  v \in changes'[n].vars \/ IsTold(c, n, v)'
  <2>1. \A k \in Nodes : changes'[k].vars = changes[k].vars
    BY <1>2, <1>7 DEF RegisterNode, Change
  <2> QED BY <1>6, <1>7, <2>1 DEF RegisterNode, CallsStay
<1>8. ASSUME NEW d \in Clients, NEW e \in BOOLEAN, SetPeerEnabled(d, e),
             values' = values, changes' = changes, heard' = heard
      PROVE  v \in changes'[n].vars \/ IsTold(c, n, v)'
  <2>1. CASE peer_enabled[d] = e
    BY <1>6, <1>8, <2>1 DEF SetPeerEnabled, CallsStay
  <2>2. CASE peer_enabled[d] /= e
    <3>1. d /= c
      BY <1>1, <1>8, <2>2 DEF SetPeerEnabled, NeedsFull, TypeOK
    <3>2. CallsStay(c) /\ c \in peer_data /\ peer_enabled[c] /\ ~need_full_snapshot[c]
      BY <1>1, <1>8, <2>2, <3>1 DEF SetPeerEnabled, CallsStay, TypeOK
    <3> QED BY <1>6, <1>8, <3>2
  <2> QED BY <2>1, <2>2
<1>9. ASSUME NEW d \in Clients, NEW e \in BOOLEAN, SetPeerNetworkingEnable(d, e)
      PROVE  v \in changes'[n].vars \/ IsTold(c, n, v)'
  BY <1>8, <1>9 DEF SetPeerNetworkingEnable
<1>10. ASSUME NEW d \in Clients, ReceiveSetEnabled(d)
       PROVE  v \in changes'[n].vars \/ IsTold(c, n, v)'
  BY <1>8, <1>10 DEF ReceiveSetEnabled
<1>11. ASSUME NEW d \in Clients, ReceiveNeedFull(d)
       PROVE  v \in changes'[n].vars \/ IsTold(c, n, v)'
  BY <1>1, <1>6, <1>11 DEF ReceiveNeedFull, CallsStay, TypeOK
<1>12. ASSUME NEW d \in Clients, Connect(d)
       PROVE  v \in changes'[n].vars \/ IsTold(c, n, v)'
  <2>1. d /= c
    BY <1>1, <1>12 DEF Connect, TypeOK
  <2> QED BY <1>1, <1>6, <1>12, <2>1 DEF Connect, CallsStay, TypeOK
<1>13. ASSUME NEW d \in Clients, Disconnect(d)
       PROVE  v \in changes'[n].vars \/ IsTold(c, n, v)'
  <2>1. d /= c
    BY <1>13 DEF Disconnect
  <2> QED BY <1>1, <1>6, <1>13, <2>1 DEF Disconnect, CallsStay, TypeOK
<1>14. ASSUME NEW d \in Clients, ReceiveStatus(d) \/ ReceiveState(d)
       PROVE  v \in changes'[n].vars \/ IsTold(c, n, v)'
  <2>1. CallIsTaken(c) \/ CallsStay(c)
    BY <1>1, <1>14 DEF ReceiveStatus, ReceiveState, CallIsTaken, CallsStay, TypeOK
  <2> QED BY <1>6, <1>14, <2>1 DEF ReceiveStatus, ReceiveState
<1>15. CASE UNCHANGED <<nodeVars, peerVars, to_client, heard>>
  BY <1>6, <1>15 DEF CallsStay
<1> QED BY <1>3, <1>4, <1>5, <1>7, <1>9, <1>10, <1>11, <1>12, <1>13, <1>14, <1>15, GameAssumption
        DEF Next, ServerNext, ClientNext, vars, SetEnabled, AddNode, RemoveNode

-----------------------------------------------------------------------------
(***************************************************************************)
(* What the clients know.                                                  *)
(***************************************************************************)
\* What a client has of one variable is consistent with the ids it knows and
\* the scene it heard of.
IsKept(c, n, v) ==
  /\ last_received_snapshot[c][n][v] /= Unset <=> v \in var_ids[c][n]
  /\ last_received_snapshot[c][n][v] /= Unset =>
       /\ n \in known[c] /\ n \in Shown(c)
       /\ v < Len(heard[c][n])
       /\ last_received_snapshot[c][n][v] = heard[c][n][v + 1]

LEMMA KeptMeans ==
  ASSUME TypeOK
  PROVE  IdsAreValues /\ SnapshotIsTheServers <=>
           \A c \in Clients : \A n \in Nodes, v \in VarIds : IsKept(c, n, v)
<1>1. \A c \in Clients : \A n \in Nodes : var_ids[c][n] \subseteq VarIds
  BY DEF TypeOK
<1> QED BY <1>1 DEF IdsAreValues, SnapshotIsTheServers, IsKept

LEMMA KeptStep == IInv /\ [Next]_vars => IdsAreValues' /\ SnapshotIsTheServers'
<1> SUFFICES ASSUME IInv, [Next]_vars
             PROVE  IdsAreValues' /\ SnapshotIsTheServers'
  OBVIOUS
<1> SUFFICES ASSUME NEW c \in Clients, NEW n \in Nodes, NEW v \in VarIds
             PROVE  IsKept(c, n, v)'
  <2>1. \A c \in Clients : \A n \in Nodes : var_ids'[c][n] \subseteq VarIds
    BY TypeStep DEF IInv, TypeOK
  <2> QED BY <2>1 DEF IdsAreValues, SnapshotIsTheServers, IsKept
<1> USE DEF nodeVars, peerVars, networkVars, storedVars, snapshotVars, enabledVars
<1>1. TypeOK /\ IsKept(c, n, v) /\ v \in Nat
  BY KeptMeans, VarIdsAreNatural DEF IInv
<1>2. ASSUME NEW d \in Clients, Disconnect(d)
      PROVE  IsKept(c, n, v)'
  <2>1. CASE d = c
    BY <1>1, <1>2, <2>1 DEF Disconnect, IsKept, TypeOK, NothingSet
  <2>2. CASE d /= c
    BY <1>1, <1>2, <2>2 DEF Disconnect, IsKept, TypeOK
  <2> QED BY <2>1, <2>2
<1>3. ASSUME NEW d \in Clients, NEW k \in Nodes, RemoveNode(d, k)
      PROVE  IsKept(c, n, v)'
  <2>1. CASE d /= c \/ k /= n
    BY <1>1, <1>3, <2>1 DEF RemoveNode, Forgotten, IsKept, TypeOK
  <2>2. CASE d = c /\ k = n
    <3>1. var_ids'[c][n] = {}
      BY <1>1, <1>3, <2>2 DEF RemoveNode, TypeOK
    <3>2. last_received_snapshot'[c][n][v] = Unset
      <4>1. CASE n \in known[c]
        BY <1>1, <1>3, <2>2, <4>1 DEF RemoveNode, Forgotten, TypeOK
      <4>2. CASE n \notin known[c]
        BY <1>1, <1>3, <2>2, <4>2 DEF RemoveNode, IsKept, TypeOK
      <4> QED BY <4>1, <4>2
    <3> QED BY <3>1, <3>2 DEF IsKept
  <2> QED BY <2>1, <2>2
<1>4. ASSUME NEW d \in Clients, ReceiveStatus(d)
      PROVE  IsKept(c, n, v)'
  <2>1. heard'[c] = heard[c]
    <3>1. CASE d /= c
      BY <1>1, <1>4, <3>1 DEF ReceiveStatus, TypeOK
    <3>2. CASE d = c
      <4>1. to_client[c] \in Seq(Message) /\ IsChain(c, to_client[c], heard[c])
        BY DEF IInv, TypeOK, Message, CallsAreChained
      <4>2. Continues(c, Head(to_client[c]), heard[c]) /\ Head(to_client[c]).kind = "status"
        BY <1>4, <3>2, <4>1, QueueTail DEF ReceiveStatus
      <4>3. heard'[c] = Head(to_client[c]).scene
        BY <1>1, <1>4, <3>2 DEF ReceiveStatus, TypeOK
      <4> QED BY <4>2, <4>3 DEF Continues
    <3> QED BY <3>1, <3>2
  <2> QED BY <1>1, <1>4, <2>1 DEF ReceiveStatus, IsKept
<1>5. ASSUME NEW d \in Clients, ReceiveState(d)
      PROVE  IsKept(c, n, v)'
  <2> DEFINE m == Head(to_client[c])
             found == Found(c, m.nodes)
             understood == Understood(c, n, m.nodes[n])
  <2>1. CASE d /= c
    BY <1>1, <1>5, <2>1 DEF ReceiveState, IsKept, TypeOK
  <2>2. CASE d = c
    <3>1. to_client[c] /= <<>> /\ m.kind = "state"
      BY <1>5, <2>2 DEF ReceiveState
    <3>2. /\ known'[c] = known[c] \cup found
          /\ heard'[c] = m.scene
      BY <1>1, <1>5, <2>2 DEF ReceiveState, TypeOK
    <3>3. var_ids'[c][n] = IF n \in found THEN var_ids[c][n] \cup m.nodes[n].names ELSE var_ids[c][n]
      BY <1>1, <1>5, <2>2 DEF ReceiveState, TypeOK
    <3>4. last_received_snapshot'[c][n][v] =
            IF n \in found /\ v \in understood THEN m.nodes[n].vars[v]
            ELSE last_received_snapshot[c][n][v]
      BY <1>1, <1>5, <2>2 DEF ReceiveState, Merged, TypeOK
    <3>5. Grew(heard[c], m.scene) /\ IsExact(c, m) /\ IsComplete(c, m, heard[c])
      <4>1. to_client[c] \in Seq(Message) /\ IsChain(c, to_client[c], heard[c])
        BY DEF IInv, TypeOK, Message, CallsAreChained
      <4> QED BY <3>1, <4>1, QueueTail DEF Continues
    <3>6. m \in States
      <4>1. to_client[c] \in Seq(Statuses \cup States)
        BY <1>1 DEF TypeOK
      <4> QED BY <3>1, <4>1 DEF Statuses, States
    <3>7. found \subseteq DOMAIN m.nodes /\ DOMAIN m.nodes \subseteq Nodes
      BY <3>6 DEF States, Found
    <3>8. CASE n \in found /\ v \in understood
      <4>1. v \in DOMAIN m.nodes[n].vars /\ v \in var_ids'[c][n]
        BY <3>3, <3>8 DEF Understood
      <4>2. m.nodes[n].vars[v] \in Values
        BY <3>6, <3>7, <3>8, <4>1 DEF States, NodeStates, Partial
      <4>3. n \in Shown(c) /\ v < Len(m.scene[n]) /\ m.nodes[n].vars[v] = m.scene[n][v + 1]
        BY <3>5, <3>7, <3>8, <4>1 DEF IsExact
      <4> QED BY <3>2, <3>4, <3>8, <4>1, <4>2, <4>3, UnsetAssumption DEF IsKept
    <3>9. CASE ~(n \in found /\ v \in understood)
      \* An id that a state tells comes with a value.
      <4>1. v \in var_ids'[c][n] <=> v \in var_ids[c][n]
        BY <3>3, <3>5, <3>7, <3>9 DEF Understood, IsExact
      <4>2. last_received_snapshot'[c][n][v] = last_received_snapshot[c][n][v]
        BY <3>4, <3>9
      \* A value the client has, and the state does not bring, is as it was.
      <4>3. ASSUME v \in var_ids[c][n], n \in known[c], n \in Shown(c), v < Len(heard[c][n]),
                   last_received_snapshot[c][n][v] = heard[c][n][v + 1]
            PROVE  v < Len(m.scene[n]) /\ last_received_snapshot[c][n][v] = m.scene[n][v + 1]
        <5>1. ~Carries(m, n, v)
          BY <3>9, <4>3 DEF Carries, Found, Understood
        <5>2. v < Len(m.scene[n])
          <6>1. Len(heard[c][n]) \in Nat /\ Len(m.scene[n]) \in Nat
            BY <1>1, <3>6 DEF TypeOK, States, SceneValues
          <6> QED BY <1>1, <3>5, <4>3, <6>1 DEF Grew
        <5>3. Same(heard[c], m.scene, n, v)
          BY <3>5, <4>3, <5>1, <5>2 DEF IsComplete
        <5> QED BY <4>3, <5>2, <5>3 DEF Same
      <4> QED BY <1>1, <3>2, <4>1, <4>2, <4>3 DEF IsKept
    <3> QED BY <3>8, <3>9
  <2> QED BY <2>1, <2>2
<1>6. CASE UNCHANGED <<known, var_ids, last_received_snapshot, heard>>
  BY <1>1, <1>6 DEF IsKept
<1> QED BY <1>2, <1>3, <1>4, <1>5, <1>6
        DEF Next, ServerNext, ClientNext, vars, RegisterNode, RegisterVariable, ChangeVariable,
            NotifyState, SetPeerNetworkingEnable, ReceiveNeedFull, ReceiveSetEnabled, Connect,
            SetEnabled, AddNode

-----------------------------------------------------------------------------
(***************************************************************************)
(* The theorems on the values.                                             *)
(***************************************************************************)
LEMMA InitIInv == Init => IInv
<1> SUFFICES ASSUME Init
             PROVE  IInv
  OBVIOUS
<1> USE DEF Init
<1>1. NoValues \in SceneValues /\ \A n \in Nodes : NoValues[n] = <<>> /\ Registered(n) = {}
  BY DEF NoValues, SceneValues, Registered
<1>2. NothingSet \in [Nodes -> [VarIds -> Values \cup {Unset}]]
  BY DEF NothingSet
<1>3. TypeOK
  BY <1>1, <1>2 DEF TypeOK, NoChange, Change
<1>4. VariablesHaveNodes /\ ChangesAreRegistered
  BY <1>1 DEF VariablesHaveNodes, ChangesAreRegistered, NoChange
<1>5. CallsAreChained
  BY DEF CallsAreChained, IsChain
<1>6. ToldIsBehind
  BY <1>1 DEF ToldIsBehind, Told, Grew, NoValues
<1>7. IdsAreValues /\ SnapshotIsTheServers
  BY DEF IdsAreValues, SnapshotIsTheServers, NothingSet
<1>8. NothingIsUntold
  BY DEF NothingIsUntold
<1> QED BY <1>3, <1>4, <1>5, <1>6, <1>7, <1>8 DEF IInv

LEMMA IInvHolds == Spec => []IInv
<1>1. IInv /\ [Next]_vars => IInv'
  BY TypeStep, VariablesStep, CallsStep, UntoldStep, KeptStep DEF IInv
<1> QED BY <1>1, InitIInv, PTL DEF Spec

\* The server and the clients keep what their code expects of each variable:
\* no node has more variables than it registered, and no value is lost in a
\* queue.
THEOREM SnapshotTypes == Spec => []TypeOK
<1>1. IInv => TypeOK
  BY DEF IInv
<1> QED BY <1>1, IInvHolds, PTL

\* A client that knows the id of a variable has a value of it, so a delta that
\* does not mention the variable loses nothing.
THEOREM KnownIdsHaveValues == Spec => []IdsComeWithValues
<1>1. IInv => IdsComeWithValues
  BY DEF IInv, IdsAreValues, IdsComeWithValues, TypeOK
<1> QED BY <1>1, IInvHolds, PTL

\* Whatever states a client used in part, and whenever it was disabled, what
\* it has of a variable is the server's value in the last state it received.
THEOREM ClientsHaveTheServersValues == Spec => []SnapshotIsTheServers
<1>1. IInv => SnapshotIsTheServers
  BY DEF IInv
<1> QED BY <1>1, IInvHolds, PTL

\* The changes collected once for all the peers hold all that any of the peers
\* that are sent deltas was not told, because a notification that not all of
\* them get does not clear them.
THEOREM ChangesHoldWhatIsUntold == Spec => []NothingIsUntold
<1>1. IInv => NothingIsUntold
  BY DEF IInv
<1> QED BY <1>1, IInvHolds, PTL

-----------------------------------------------------------------------------
(***************************************************************************)
(* Requests of full snapshots.                                             *)
(***************************************************************************)
LEMMA AppendKeeps ==
  ASSUME NEW S, NEW q \in Seq(S), NEW x \in S
  PROVE  /\ Len(Append(q, x)) = Len(q) + 1 /\ Append(q, x)[Len(q) + 1] = x
         /\ \A i \in 1 .. Len(q) : Append(q, x)[i] = q[i]
OBVIOUS

LEMMA TailKeeps ==
  ASSUME NEW S, NEW q \in Seq(S), q /= <<>>
  PROVE  /\ Head(q) = q[1] /\ Len(q) >= 1
         /\ Tail(q) \in Seq(S) /\ Len(Tail(q)) = Len(q) - 1
         /\ \A i \in 1 .. Len(Tail(q)) : Tail(q)[i] = q[i + 1]
OBVIOUS

IsAsked(c) == \E i \in 1 .. Len(to_server[c]) : to_server[c][i] = "need_full"
IsComing(c) ==
  \E i \in 1 .. Len(to_client[c]) : to_client[c][i].kind = "state" /\ to_client[c][i].full

LEMMA GapsStep == IInv /\ GapsAreAnswered /\ [Next]_vars => GapsAreAnswered'
<1> SUFFICES ASSUME IInv, GapsAreAnswered, [Next]_vars, NEW c \in Clients, gap'[c]
             PROVE  IsAsked(c)' \/ need_full_snapshot'[c] \/ IsComing(c)'
  BY DEF GapsAreAnswered, IsAsked, IsComing
<1> USE DEF nodeVars, peerVars, networkVars, storedVars, snapshotVars, enabledVars
<1>1. /\ TypeOK
      /\ to_client[c] \in Seq(Message) /\ to_server[c] \in Seq({"need_full", "enable", "disable"})
      /\ gap[c] => IsAsked(c) \/ need_full_snapshot[c] \/ IsComing(c)
  BY DEF IInv, TypeOK, Message, GapsAreAnswered, IsAsked, IsComing
<1>2. ASSUME NEW m \in Message, to_client'[c] = Append(to_client[c], m), IsComing(c)
      PROVE  IsComing(c)'
  <2>1. PICK i \in 1 .. Len(to_client[c]) : to_client[c][i].kind = "state" /\ to_client[c][i].full
    BY <1>2 DEF IsComing
  <2>2. i \in 1 .. Len(to_client'[c]) /\ to_client'[c][i] = to_client[c][i]
    BY <1>1, <1>2, AppendKeeps
  <2> QED BY <2>1, <2>2 DEF IsComing
<1>3. ASSUME NEW r \in {"need_full", "enable", "disable"}, to_server'[c] = Append(to_server[c], r),
             IsAsked(c)
      PROVE  IsAsked(c)'
  <2>1. PICK i \in 1 .. Len(to_server[c]) : to_server[c][i] = "need_full"
    BY <1>3 DEF IsAsked
  <2>2. i \in 1 .. Len(to_server'[c]) /\ to_server'[c][i] = to_server[c][i]
    BY <1>1, <1>3, AppendKeeps
  <2> QED BY <2>1, <2>2 DEF IsAsked
<1>4. ASSUME to_client[c] /= <<>>, to_client'[c] = Tail(to_client[c]), IsComing(c),
             ~(Head(to_client[c]).kind = "state" /\ Head(to_client[c]).full)
      PROVE  IsComing(c)'
  <2>1. PICK i \in 1 .. Len(to_client[c]) : to_client[c][i].kind = "state" /\ to_client[c][i].full
    BY <1>4 DEF IsComing
  <2>2. i /= 1 /\ Len(to_client'[c]) = Len(to_client[c]) - 1
    BY <1>1, <1>4, <2>1, TailKeeps
  <2>3. i - 1 \in 1 .. Len(to_client'[c]) /\ to_client'[c][i - 1] = to_client[c][i]
    BY <1>1, <1>4, <2>2, TailKeeps
  <2> QED BY <2>1, <2>3 DEF IsComing
<1>5. ASSUME to_server[c] /= <<>>, to_server'[c] = Tail(to_server[c]), IsAsked(c),
             Head(to_server[c]) /= "need_full"
      PROVE  IsAsked(c)'
  <2>1. PICK i \in 1 .. Len(to_server[c]) : to_server[c][i] = "need_full"
    BY <1>5 DEF IsAsked
  <2>2. i /= 1 /\ Len(to_server'[c]) = Len(to_server[c]) - 1
    BY <1>1, <1>5, <2>1, TailKeeps
  <2>3. i - 1 \in 1 .. Len(to_server'[c]) /\ to_server'[c][i - 1] = to_server[c][i]
    BY <1>1, <1>5, <2>2, TailKeeps
  <2> QED BY <2>1, <2>3 DEF IsAsked
<1>6. ASSUME NEW ns \in BOOLEAN, NotifyState(ns)
      PROVE  IsAsked(c)' \/ need_full_snapshot'[c] \/ IsComing(c)'
  <2>1. gap' = gap /\ to_server' = to_server
        /\ to_client'[c] = IF IsNotified(c, ns) THEN Append(to_client[c], State(c)) ELSE to_client[c]
    BY <1>1, <1>6 DEF NotifyState, TypeOK
  <2>2. CASE ~IsNotified(c, ns)
    <3>1. need_full_snapshot[c] => need_full_snapshot'[c]
      BY <1>6, <2>2 DEF NotifyState, StillNeedsFull
    <3> QED BY <1>1, <2>1, <2>2, <3>1 DEF IsAsked, IsComing
  <2>3. CASE IsNotified(c, ns)
    <3>1. State(c) \in Message /\ State(c).kind = "state" /\ State(c).full = need_full_snapshot[c]
      BY StateType DEF IInv, Message, State
    <3>2. need_full_snapshot[c] => IsComing(c)'
      <4> DEFINE last == Len(to_client[c]) + 1
      <4>1. last \in 1 .. Len(to_client'[c]) /\ to_client'[c][last] = State(c)
        BY <1>1, <2>1, <2>3, <3>1, AppendKeeps
      <4> QED BY <3>1, <4>1 DEF IsComing
    <3>3. IsComing(c) => IsComing(c)'
      BY <1>2, <2>1, <2>3, <3>1
    <3> QED BY <1>1, <2>1, <3>2, <3>3 DEF IsAsked
  <2> QED BY <2>2, <2>3
<1>7. ASSUME NEW d \in Clients, NEW e \in BOOLEAN, SetPeerEnabled(d, e)
      PROVE  /\ need_full_snapshot[c] => need_full_snapshot'[c]
             /\ IsComing(c) => IsComing(c)'
  <2>1. CASE d /= c \/ peer_enabled[d] = e
    BY <1>1, <1>7, <2>1 DEF SetPeerEnabled, TypeOK, IsComing
  <2>2. CASE d = c /\ peer_enabled[d] /= e
    <3>1. need_full_snapshot'[c] /\ to_client'[c] = Append(to_client[c], Status(c, e))
      BY <1>1, <1>7, <2>2 DEF SetPeerEnabled, NeedsFull, TypeOK
    <3>2. Status(c, e) \in Message
      BY <1>1, StatusType DEF Message
    <3> QED BY <1>2, <3>1, <3>2
  <2> QED BY <2>1, <2>2
<1>8. ASSUME NEW d \in Clients, NEW e \in BOOLEAN, SetPeerNetworkingEnable(d, e)
      PROVE  IsAsked(c)' \/ need_full_snapshot'[c] \/ IsComing(c)'
  BY <1>1, <1>7, <1>8 DEF SetPeerNetworkingEnable, IsAsked
<1>9. ASSUME NEW d \in Clients, ReceiveNeedFull(d)
      PROVE  IsAsked(c)' \/ need_full_snapshot'[c] \/ IsComing(c)'
  <2>1. CASE d = c
    BY <1>1, <1>9, <2>1 DEF ReceiveNeedFull, TypeOK
  <2>2. CASE d /= c
    BY <1>1, <1>9, <2>2 DEF ReceiveNeedFull, TypeOK, IsAsked, IsComing
  <2> QED BY <2>1, <2>2
<1>10. ASSUME NEW d \in Clients, ReceiveSetEnabled(d)
       PROVE  IsAsked(c)' \/ need_full_snapshot'[c] \/ IsComing(c)'
  <2>1. (need_full_snapshot[c] => need_full_snapshot'[c]) /\ (IsComing(c) => IsComing(c)')
    BY <1>7, <1>10 DEF ReceiveSetEnabled
  <2>2. IsAsked(c) => IsAsked(c)'
    <3>1. CASE d = c
      BY <1>1, <1>5, <1>10, <3>1 DEF ReceiveSetEnabled, TypeOK
    <3>2. CASE d /= c
      BY <1>1, <1>10, <3>2 DEF ReceiveSetEnabled, TypeOK, IsAsked
    <3> QED BY <3>1, <3>2
  <2> QED BY <1>1, <1>10, <2>1, <2>2 DEF ReceiveSetEnabled
<1>11. ASSUME NEW d \in Clients, Connect(d)
       PROVE  IsAsked(c)' \/ need_full_snapshot'[c] \/ IsComing(c)'
  BY <1>1, <1>11 DEF Connect, TypeOK, IsAsked, IsComing
<1>12. ASSUME NEW d \in Clients, Disconnect(d)
       PROVE  IsAsked(c)' \/ need_full_snapshot'[c] \/ IsComing(c)'
  <2>1. d /= c
    BY <1>1, <1>12 DEF Disconnect, TypeOK
  <2> QED BY <1>1, <1>12, <2>1 DEF Disconnect, TypeOK, IsAsked, IsComing
<1>13. ASSUME NEW d \in Clients, NEW e \in BOOLEAN, SetEnabled(d, e)
       PROVE  IsAsked(c)' \/ need_full_snapshot'[c] \/ IsComing(c)'
  <2>1. UNCHANGED <<gap, to_client, need_full_snapshot>>
    BY <1>13 DEF SetEnabled
  <2>2. IsAsked(c) => IsAsked(c)'
    <3>1. CASE d = c
      BY <1>1, <1>3, <1>13, <3>1 DEF SetEnabled, TypeOK
    <3>2. CASE d /= c
      BY <1>1, <1>13, <3>2 DEF SetEnabled, TypeOK, IsAsked
    <3> QED BY <3>1, <3>2
  <2> QED BY <1>1, <2>1, <2>2 DEF IsComing
<1>14. ASSUME NEW d \in Clients, ReceiveStatus(d)
       PROVE  IsAsked(c)' \/ need_full_snapshot'[c] \/ IsComing(c)'
  <2>1. UNCHANGED <<gap, to_server, need_full_snapshot>>
    BY <1>14 DEF ReceiveStatus
  <2>2. IsComing(c) => IsComing(c)'
    <3>1. CASE d = c
      BY <1>1, <1>4, <1>14, <3>1 DEF ReceiveStatus, TypeOK
    <3>2. CASE d /= c
      BY <1>1, <1>14, <3>2 DEF ReceiveStatus, TypeOK, IsComing
    <3> QED BY <3>1, <3>2
  <2> QED BY <1>1, <2>1, <2>2 DEF IsAsked
<1>15. ASSUME NEW d \in Clients, ReceiveState(d)
       PROVE  IsAsked(c)' \/ need_full_snapshot'[c] \/ IsComing(c)'
  <2>1. CASE d /= c
    BY <1>1, <1>15, <2>1 DEF ReceiveState, TypeOK, IsAsked, IsComing
  <2>2. CASE d = c
    <3> DEFINE asks == NeedsAnswer(c, Head(to_client[c]).nodes)
    <3>1. /\ to_client[c] /= <<>> /\ to_client'[c] = Tail(to_client[c])
          /\ to_server'[c] = IF asks THEN Append(to_server[c], "need_full") ELSE to_server[c]
          /\ need_full_snapshot' = need_full_snapshot
      BY <1>1, <1>15, <2>2 DEF ReceiveState, TypeOK
    <3>2. asks \/ (gap[c] /\ ~Head(to_client[c]).full)
      BY <1>1, <1>15, <2>2 DEF ReceiveState, TypeOK
    <3>3. CASE asks
      BY <1>1, <3>1, <3>3, AppendKeeps DEF IsAsked
    <3>4. CASE ~asks
      BY <1>1, <1>4, <3>1, <3>2, <3>4 DEF IsAsked
    <3> QED BY <3>3, <3>4
  <2> QED BY <2>1, <2>2
<1>16. CASE UNCHANGED <<gap, to_client, to_server, need_full_snapshot>>
  BY <1>1, <1>16 DEF IsAsked, IsComing
<1> QED BY <1>6, <1>8, <1>9, <1>10, <1>11, <1>12, <1>13, <1>14, <1>15, <1>16, GameAssumption
        DEF Next, ServerNext, ClientNext, vars, RegisterNode, RegisterVariable, ChangeVariable,
            AddNode, RemoveNode

\* Of a client that could not use a state in full, a request, the server's
\* note of it or a full state is on its way, until one came.
THEOREM GapsGetAnswered == Spec => []GapsAreAnswered
<1>1. Init => GapsAreAnswered
  BY DEF Init, GapsAreAnswered
<1> QED BY <1>1, GapsStep, IInvHolds, PTL DEF Spec

-----------------------------------------------------------------------------
(***************************************************************************)
(* Enabling.                                                               *)
(***************************************************************************)
IsStatus(m) == m.kind = "status"

\* After the first i calls, the next state is full: it is on its way, or
\* the server is to send it.
StartsFull(q, i, needs) ==
  \/ needs /\ \A k \in i + 1 .. Len(q) : IsStatus(q[k])
  \/ \E j \in i + 1 .. Len(q) :
       q[j].kind = "state" /\ q[j].full /\ \A k \in i + 1 .. j - 1 : IsStatus(q[k])

\* This is so for a client that waits to be enabled, and after each status.
EnablingIsFull ==
  \A c \in Clients :
    /\ want_to_enable[c] => StartsFull(to_client[c], 0, need_full_snapshot[c])
    /\ \A i \in 1 .. Len(to_client[c]) :
         IsStatus(to_client[c][i]) => StartsFull(to_client[c], i, need_full_snapshot[c])

LEMMA StartsAfterAppend ==
  ASSUME NEW q \in Seq(Message), NEW m \in Message, NEW i \in 0 .. Len(q),
         NEW before \in BOOLEAN, NEW after \in BOOLEAN,
         (m.kind = "state" /\ m.full = before) \/ (IsStatus(m) /\ after),
         StartsFull(q, i, before)
  PROVE  StartsFull(Append(q, m), i, after)
<1> DEFINE r == Append(q, m)
<1>1. Len(r) = Len(q) + 1 /\ r[Len(q) + 1] = m /\ \A k \in 1 .. Len(q) : r[k] = q[k]
  BY AppendKeeps
<1> HIDE DEF r
<1>2. CASE before /\ \A k \in i + 1 .. Len(q) : IsStatus(q[k])
  <2>1. \A k \in i + 1 .. Len(q) : IsStatus(r[k])
    BY <1>1, <1>2
  <2>2. CASE m.kind = "state" /\ m.full = before
    <3> DEFINE j == Len(q) + 1
    <3>1. j \in i + 1 .. Len(r) /\ j - 1 = Len(q) /\ r[j].kind = "state" /\ r[j].full
      BY <1>1, <1>2, <2>2
    <3>2. \A k \in i + 1 .. j - 1 : IsStatus(r[k])
      BY <2>1, <3>1
    <3> HIDE DEF j
    <3> QED BY <3>1, <3>2 DEF StartsFull
  <2>3. CASE IsStatus(m) /\ after
    <3>1. \A k \in i + 1 .. Len(r) : IsStatus(r[k])
      BY <1>1, <2>1, <2>3
    <3> QED BY <2>3, <3>1 DEF StartsFull
  <2> QED BY <2>2, <2>3
<1>3. ASSUME NEW j \in i + 1 .. Len(q), q[j].kind = "state", q[j].full,
             \A k \in i + 1 .. j - 1 : IsStatus(q[k])
      PROVE  StartsFull(r, i, after)
  <2>1. j \in i + 1 .. Len(r) /\ r[j] = q[j] /\ \A k \in i + 1 .. j - 1 : r[k] = q[k]
    BY <1>1
  <2> QED BY <1>3, <2>1 DEF StartsFull
<1> QED BY <1>2, <1>3 DEF StartsFull, r

LEMMA StartsAfterTail ==
  ASSUME NEW q \in Seq(Message), q /= <<>>, NEW i \in 1 .. Len(q), NEW needs \in BOOLEAN,
         StartsFull(q, i, needs)
  PROVE  StartsFull(Tail(q), i - 1, needs)
<1> DEFINE t == Tail(q)
<1>1. Len(t) = Len(q) - 1 /\ \A k \in 1 .. Len(t) : t[k] = q[k + 1]
  BY TailKeeps
<1> HIDE DEF t
<1>2. CASE needs /\ \A k \in i + 1 .. Len(q) : IsStatus(q[k])
  <2>1. ASSUME NEW k \in (i - 1) + 1 .. Len(t)
        PROVE  IsStatus(t[k])
    <3>1. k + 1 \in i + 1 .. Len(q) /\ k \in 1 .. Len(t)
      BY <1>1
    <3> QED BY <1>1, <1>2, <3>1
  <2> QED BY <1>2, <2>1 DEF StartsFull
<1>3. ASSUME NEW j \in i + 1 .. Len(q), q[j].kind = "state", q[j].full,
             \A k \in i + 1 .. j - 1 : IsStatus(q[k])
      PROVE  StartsFull(t, i - 1, needs)
  <2>1. j - 1 \in (i - 1) + 1 .. Len(t) /\ j - 1 \in 1 .. Len(t) /\ (j - 1) + 1 = j
    BY <1>1
  <2>2. ASSUME NEW k \in (i - 1) + 1 .. (j - 1) - 1
        PROVE  IsStatus(t[k])
    <3>1. k + 1 \in i + 1 .. j - 1 /\ k \in 1 .. Len(t)
      BY <1>1
    <3> QED BY <1>1, <1>3, <3>1
  <2> QED BY <1>1, <1>3, <2>1, <2>2 DEF StartsFull
<1> QED BY <1>2, <1>3 DEF StartsFull, t

LEMMA StartsAtHead ==
  ASSUME NEW q \in Seq(Message), q /= <<>>, NEW needs \in BOOLEAN, StartsFull(q, 0, needs)
  PROVE  /\ IsStatus(Head(q)) => StartsFull(q, 1, needs)
         /\ Head(q).kind = "state" => Head(q).full
<1>1. Head(q) = q[1] /\ Len(q) >= 1
  BY TailKeeps
<1>2. CASE needs /\ \A k \in 0 + 1 .. Len(q) : IsStatus(q[k])
  BY <1>1, <1>2 DEF StartsFull, IsStatus
<1>3. ASSUME NEW j \in 0 + 1 .. Len(q), q[j].kind = "state", q[j].full,
             \A k \in 0 + 1 .. j - 1 : IsStatus(q[k])
      PROVE  /\ IsStatus(Head(q)) => StartsFull(q, 1, needs)
             /\ Head(q).kind = "state" => Head(q).full
  <2>1. CASE j = 1
    BY <1>1, <1>3, <2>1 DEF IsStatus
  <2>2. CASE j /= 1
    <3>1. j \in 1 + 1 .. Len(q) /\ \A k \in 1 + 1 .. j - 1 : k \in 0 + 1 .. j - 1
      BY <2>2
    <3>2. StartsFull(q, 1, needs)
      BY <1>3, <3>1 DEF StartsFull
    <3>3. IsStatus(q[1])
      BY <1>3, <2>2
    <3> QED BY <1>1, <3>2, <3>3 DEF IsStatus
  <2> QED BY <2>1, <2>2
<1> QED BY <1>2, <1>3 DEF StartsFull

LEMMA EnablingStep == IInv /\ EnablingIsFull /\ [Next]_vars => EnablingIsFull'
<1> DEFINE IsFull(q, needs, wants) ==
             /\ wants => StartsFull(q, 0, needs)
             /\ \A i \in 1 .. Len(q) : IsStatus(q[i]) => StartsFull(q, i, needs)
<1> SUFFICES ASSUME IInv, EnablingIsFull, [Next]_vars, NEW c \in Clients
             PROVE  IsFull(to_client'[c], need_full_snapshot'[c], want_to_enable'[c])
  BY DEF EnablingIsFull
<1> USE DEF nodeVars, peerVars, networkVars, storedVars, snapshotVars, enabledVars
<1> DEFINE q == to_client[c]
           needs == need_full_snapshot[c]
           wants == want_to_enable[c]
<1>1. /\ TypeOK /\ q \in Seq(Message) /\ needs \in BOOLEAN /\ wants \in BOOLEAN
      /\ IsFull(q, needs, wants)
  BY DEF IInv, TypeOK, Message, EnablingIsFull
<1>2. ASSUME to_client'[c] = q, needs => need_full_snapshot'[c],
             want_to_enable'[c] => wants
      PROVE  IsFull(to_client'[c], need_full_snapshot'[c], want_to_enable'[c])
  BY <1>1, <1>2 DEF StartsFull
<1>3. ASSUME NEW m \in Message, to_client'[c] = Append(q, m), want_to_enable'[c] = wants,
             need_full_snapshot'[c] \in BOOLEAN,
             (m.kind = "state" /\ m.full = needs) \/ (IsStatus(m) /\ need_full_snapshot'[c])
      PROVE  IsFull(to_client'[c], need_full_snapshot'[c], want_to_enable'[c])
  <2> DEFINE r == Append(q, m)
             after == need_full_snapshot'[c]
  <2>1. Len(r) = Len(q) + 1 /\ r[Len(q) + 1] = m /\ \A i \in 1 .. Len(q) : r[i] = q[i]
    BY <1>1, AppendKeeps
  <2>2. \A i \in 0 .. Len(q) : StartsFull(q, i, needs) => StartsFull(r, i, after)
    BY <1>1, <1>3, StartsAfterAppend
  <2> HIDE DEF r, after
  <2>3. wants => StartsFull(r, 0, after)
    BY <1>1, <2>2
  <2>4. ASSUME NEW i \in 1 .. Len(r), IsStatus(r[i])
        PROVE  StartsFull(r, i, after)
    <3>1. CASE i <= Len(q)
      <4>1. i \in 1 .. Len(q) /\ i \in 0 .. Len(q)
        BY <1>1, <3>1
      <4> QED BY <1>1, <2>1, <2>2, <2>4, <4>1
    <3>2. CASE i = Len(q) + 1
      <4>1. IsStatus(m)
        BY <2>1, <2>4, <3>2
      <4>2. after
        BY <1>3, <4>1 DEF IsStatus, after
      <4>3. \A k \in i + 1 .. Len(r) : FALSE
        BY <1>1, <2>1, <3>2
      <4> QED BY <4>2, <4>3 DEF StartsFull
    <3> QED BY <1>1, <2>1, <3>1, <3>2
  <2> QED BY <1>3, <2>3, <2>4 DEF r, after
<1>4. ASSUME q /= <<>>, to_client'[c] = Tail(q), need_full_snapshot'[c] = needs,
             want_to_enable'[c] => IsStatus(Head(q))
      PROVE  IsFull(to_client'[c], need_full_snapshot'[c], want_to_enable'[c])
  <2> DEFINE t == Tail(q)
  <2>1. Head(q) = q[1] /\ Len(q) >= 1 /\ Len(t) = Len(q) - 1
        /\ \A i \in 1 .. Len(t) : t[i] = q[i + 1]
    BY <1>1, <1>4, TailKeeps
  <2>2. \A i \in 1 .. Len(q) : StartsFull(q, i, needs) => StartsFull(t, i - 1, needs)
    BY <1>1, <1>4, StartsAfterTail
  <2> HIDE DEF t
  <2>3. IsStatus(Head(q)) => StartsFull(t, 0, needs)
    <3>1. 1 \in 1 .. Len(q) /\ 1 - 1 = 0
      BY <1>1, <2>1
    <3> QED BY <1>1, <2>1, <2>2, <3>1
  <2>4. ASSUME NEW i \in 1 .. Len(t), IsStatus(t[i])
        PROVE  StartsFull(t, i, needs)
    <3>1. i + 1 \in 1 .. Len(q) /\ (i + 1) - 1 = i
      BY <1>1, <2>1
    <3> QED BY <1>1, <2>1, <2>2, <2>4, <3>1
  <2> QED BY <1>4, <2>3, <2>4 DEF t
<1>5. ASSUME NEW ns \in BOOLEAN, NotifyState(ns)
      PROVE  IsFull(to_client'[c], need_full_snapshot'[c], want_to_enable'[c])
  <2>1. want_to_enable' = want_to_enable
        /\ to_client'[c] = IF IsNotified(c, ns) THEN Append(q, State(c)) ELSE q
    BY <1>5 DEF NotifyState
  <2>2. CASE ~IsNotified(c, ns)
    <3>1. needs => need_full_snapshot'[c]
      BY <1>5, <2>2 DEF NotifyState, StillNeedsFull
    <3> QED BY <1>1, <1>2, <2>1, <2>2, <3>1
  <2>3. CASE IsNotified(c, ns)
    <3>1. State(c) \in Message /\ State(c).kind = "state" /\ State(c).full = needs
      BY StateType DEF IInv, Message, State
    <3>2. need_full_snapshot'[c] \in BOOLEAN
      BY TypeStep DEF IInv, TypeOK
    <3> QED BY <1>3, <2>1, <2>3, <3>1, <3>2
  <2> QED BY <2>2, <2>3
<1>6. ASSUME NEW d \in Clients, NEW e \in BOOLEAN, SetPeerEnabled(d, e), want_to_enable' = want_to_enable
      PROVE  IsFull(to_client'[c], need_full_snapshot'[c], want_to_enable'[c])
  <2>1. CASE d /= c \/ peer_enabled[d] = e
    <3>1. to_client'[c] = q /\ need_full_snapshot'[c] = needs
      BY <1>1, <1>6, <2>1 DEF SetPeerEnabled, TypeOK
    <3> QED BY <1>2, <1>6, <3>1
  <2>2. CASE d = c /\ peer_enabled[d] /= e
    <3>1. to_client'[c] = Append(q, Status(c, e)) /\ need_full_snapshot'[c] = TRUE
      BY <1>1, <1>6, <2>2 DEF SetPeerEnabled, NeedsFull, TypeOK
    <3>2. Status(c, e) \in Message /\ IsStatus(Status(c, e))
      BY <1>1, StatusType DEF Message, IsStatus, Status
    <3> QED BY <1>3, <1>6, <3>1, <3>2
  <2> QED BY <2>1, <2>2
<1>7. ASSUME NEW d \in Clients, NEW e \in BOOLEAN, SetPeerNetworkingEnable(d, e)
      PROVE  IsFull(to_client'[c], need_full_snapshot'[c], want_to_enable'[c])
  BY <1>6, <1>7 DEF SetPeerNetworkingEnable
<1>8. ASSUME NEW d \in Clients, ReceiveSetEnabled(d)
      PROVE  IsFull(to_client'[c], need_full_snapshot'[c], want_to_enable'[c])
  BY <1>6, <1>8 DEF ReceiveSetEnabled
<1>9. ASSUME NEW d \in Clients, ReceiveNeedFull(d) \/ Connect(d)
      PROVE  IsFull(to_client'[c], need_full_snapshot'[c], want_to_enable'[c])
  BY <1>1, <1>2, <1>9 DEF ReceiveNeedFull, Connect, TypeOK
<1>10. ASSUME NEW d \in Clients, Disconnect(d)
       PROVE  IsFull(to_client'[c], need_full_snapshot'[c], want_to_enable'[c])
  <2>1. CASE d = c
    <3>1. to_client'[c] = <<>> /\ ~want_to_enable'[c]
      BY <1>1, <1>10, <2>1 DEF Disconnect, TypeOK
    <3> QED BY <3>1
  <2>2. CASE d /= c
    BY <1>1, <1>2, <1>10, <2>2 DEF Disconnect, TypeOK
  <2> QED BY <2>1, <2>2
<1>11. ASSUME NEW d \in Clients, NEW e \in BOOLEAN, SetEnabled(d, e)
       PROVE  IsFull(to_client'[c], need_full_snapshot'[c], want_to_enable'[c])
  <2>1. want_to_enable'[c] => wants
    BY <1>1, <1>11 DEF SetEnabled, SetClientEnabled, TypeOK
  <2> QED BY <1>2, <1>11, <2>1 DEF SetEnabled
<1>12. ASSUME NEW d \in Clients, ReceiveStatus(d)
       PROVE  IsFull(to_client'[c], need_full_snapshot'[c], want_to_enable'[c])
  <2>1. CASE d = c
    <3>1. q /= <<>> /\ IsStatus(Head(q)) /\ to_client'[c] = Tail(q)
          /\ need_full_snapshot'[c] = needs
      BY <1>1, <1>12, <2>1 DEF ReceiveStatus, IsStatus, TypeOK
    <3> QED BY <1>4, <3>1
  <2>2. CASE d /= c
    <3>1. to_client'[c] = q /\ need_full_snapshot'[c] = needs /\ want_to_enable'[c] = wants
      BY <1>1, <1>12, <2>2 DEF ReceiveStatus, SetClientEnabled, TypeOK
    <3> QED BY <1>2, <3>1
  <2> QED BY <2>1, <2>2
<1>13. ASSUME NEW d \in Clients, ReceiveState(d)
       PROVE  IsFull(to_client'[c], need_full_snapshot'[c], want_to_enable'[c])
  <2>1. CASE d = c
    <3>1. q /= <<>> /\ to_client'[c] = Tail(q) /\ need_full_snapshot'[c] = needs
          /\ want_to_enable'[c] = FALSE
      BY <1>1, <1>13, <2>1 DEF ReceiveState, TypeOK
    <3> QED BY <1>4, <3>1
  <2>2. CASE d /= c
    <3>1. to_client'[c] = q /\ need_full_snapshot'[c] = needs /\ want_to_enable'[c] = wants
      BY <1>1, <1>13, <2>2 DEF ReceiveState, TypeOK
    <3> QED BY <1>2, <3>1
  <2> QED BY <2>1, <2>2
<1>14. CASE UNCHANGED <<to_client, need_full_snapshot, want_to_enable>>
  BY <1>2, <1>14
<1> QED BY <1>5, <1>7, <1>8, <1>9, <1>10, <1>11, <1>12, <1>13, <1>14, GameAssumption
        DEF Next, ServerNext, ClientNext, vars, RegisterNode, RegisterVariable, ChangeVariable,
            AddNode, RemoveNode

\* The state that enables a client that was disabled is a full one, however
\* its requests, the server's answers and the deltas overtook each other.
THEOREM EnablingStartsFull == Spec => StartsWithEverything
<1>1. Init => EnablingIsFull
  <2>1. ASSUME Init, NEW c \in Clients
        PROVE  ~want_to_enable[c] /\ Len(to_client[c]) = 0
    BY <2>1 DEF Init
  <2>2. 1 .. 0 = {}
    OBVIOUS
  <2> QED BY <2>1, <2>2 DEF EnablingIsFull
<1>2. ASSUME IInv, EnablingIsFull, [Next]_vars, NEW c \in Clients,
             ~enabled[c], enabled'[c], c \in peer_data'
      PROVE  Head(to_client[c]).full
  <2> USE DEF peerVars, snapshotVars, enabledVars
  <2>1. TypeOK
    BY <1>2 DEF IInv
  <2>2. ASSUME ReceiveState(c)
        PROVE  Head(to_client[c]).full
    <3>1. want_to_enable[c] /\ to_client[c] /= <<>> /\ Head(to_client[c]).kind = "state"
      BY <1>2, <2>1, <2>2 DEF ReceiveState, TypeOK
    <3>2. to_client[c] \in Seq(Message) /\ need_full_snapshot[c] \in BOOLEAN
          /\ StartsFull(to_client[c], 0, need_full_snapshot[c])
      BY <1>2, <2>1, <3>1 DEF EnablingIsFull, TypeOK, Message
    <3> QED BY <3>1, <3>2, StartsAtHead
  \* No other step enables the client and keeps the peer.
  <2>3. ASSUME NEW d \in Clients, Disconnect(d)
        PROVE  FALSE
    BY <1>2, <2>1, <2>3 DEF Disconnect, TypeOK
  <2>4. ASSUME NEW d \in Clients, NEW e \in BOOLEAN, SetEnabled(d, e)
        PROVE  FALSE
    BY <1>2, <2>1, <2>4 DEF SetEnabled, SetClientEnabled, TypeOK
  <2>5. ASSUME NEW d \in Clients, ReceiveStatus(d)
        PROVE  FALSE
    BY <1>2, <2>1, <2>5 DEF ReceiveStatus, SetClientEnabled, TypeOK
  <2>6. ASSUME NEW d \in Clients, ReceiveState(d)
        PROVE  d = c
    BY <1>2, <2>1, <2>6 DEF ReceiveState, TypeOK
  <2>7. enabled' /= enabled
    BY <1>2
  <2> QED BY <1>2, <2>2, <2>3, <2>4, <2>5, <2>6, <2>7
          DEF Next, ServerNext, ClientNext, vars, RegisterNode, RegisterVariable, ChangeVariable,
              NotifyState, SetPeerNetworkingEnable, ReceiveNeedFull, ReceiveSetEnabled, Connect,
              AddNode, RemoveNode
<1>3. IInv /\ EnablingIsFull /\ [Next]_vars =>
        [\A c \in Clients : ~enabled[c] /\ enabled'[c] /\ c \in peer_data' =>
           Head(to_client[c]).full]_vars
  BY <1>2
<1> QED BY <1>1, <1>3, EnablingStep, IInvHolds, PTL DEF Spec, StartsWithEverything

-----------------------------------------------------------------------------
(***************************************************************************)
(* The client's snapshots are copies of the scene.                         *)
(***************************************************************************)
\* A full state names all the variables of all the nodes that are shown.
IsWholeState(c, m) ==
  m.kind = "state" /\ m.full =>
    \A n \in Shown(c), v \in VarIds :
      v < Len(m.scene[n]) => n \in DOMAIN m.nodes /\ m.nodes[n].path /\ v \in m.nodes[n].names

FullStatesAreWhole ==
  \A c \in Clients : \A i \in 1 .. Len(to_client[c]) : IsWholeState(c, to_client[c][i])

LEMMA StateIsWhole ==
  ASSUME TypeOK, VariablesHaveNodes, NEW c \in Clients
  PROVE  IsWholeState(c, State(c))
<1> SUFFICES ASSUME need_full_snapshot[c], NEW n \in Shown(c), NEW v \in VarIds, v < Len(values[n])
             PROVE  /\ n \in DOMAIN State(c).nodes
                    /\ State(c).nodes[n].path /\ v \in State(c).nodes[n].names
  BY DEF IsWholeState, State
<1>1. n \in Nodes /\ Len(values[n]) \in Nat /\ v \in Nat
  BY VarIdsAreNatural DEF TypeOK, SceneValues, Shown
<1>2. values[n] /= <<>> /\ v \in Registered(n)
  BY <1>1 DEF Registered
<1>3. n \in node_data /\ NodeIsSent(c, n, need_full_snapshot[c])
  BY <1>1, <1>2 DEF VariablesHaveNodes, NodeIsSent
<1> QED BY <1>2, <1>3 DEF State, NodeState

LEMMA FullStatesStep == IInv /\ FullStatesAreWhole /\ [Next]_vars => FullStatesAreWhole'
<1> SUFFICES ASSUME IInv, FullStatesAreWhole, [Next]_vars, NEW c \in Clients,
                    NEW i \in 1 .. Len(to_client'[c])
             PROVE  IsWholeState(c, to_client'[c][i])
  BY DEF FullStatesAreWhole, IsWholeState, Shown
<1> DEFINE q == to_client[c]
<1>1. q \in Seq(Message) /\ \A j \in 1 .. Len(q) : IsWholeState(c, q[j])
  BY DEF IInv, TypeOK, Message, FullStatesAreWhole
<1> HIDE DEF q
<1>2. CASE CallsStay(c)
  BY <1>1, <1>2 DEF CallsStay, q
<1>3. CASE CallIsMade(c)
  <2>1. PICK m \in Message : (m = State(c) \/ m.kind = "status") /\ to_client'[c] = Append(q, m)
    BY <1>3 DEF CallIsMade, q
  <2>2. IsWholeState(c, m)
    BY <2>1, StateIsWhole DEF IInv, IsWholeState
  <2>3. i \in 1 .. Len(q) \/ i = Len(q) + 1
    BY <1>1, <2>1, AppendKeeps
  <2> QED BY <1>1, <2>1, <2>2, <2>3, AppendKeeps
<1>4. CASE CallIsTaken(c)
  <2>1. q /= <<>> /\ to_client'[c] = Tail(q)
    BY <1>4 DEF CallIsTaken, q
  <2>2. i + 1 \in 1 .. Len(q) /\ to_client'[c][i] = q[i + 1]
    BY <1>1, <2>1, TailKeeps
  <2> QED BY <1>1, <2>2
<1>5. CASE CallsAreLost(c)
  BY <1>5 DEF CallsAreLost
<1> QED BY <1>2, <1>3, <1>4, <1>5, ChannelStep

MomentOf(m) == [scene |-> m.scene, full |-> m.kind = "state" /\ m.full]
Moment == [scene : SceneValues, full : BOOLEAN]

LEMMA MomentType == ASSUME NEW m \in Message PROVE MomentOf(m) \in Moment
BY DEF MomentOf, Moment, Message, Statuses, States

LEMMA MomentsType ==
  ASSUME NEW q \in Seq(Message)
  PROVE  /\ Moments(q) \in Seq(Moment) /\ Len(Moments(q)) = Len(q)
         /\ \A i \in 1 .. Len(q) : Moments(q)[i] = MomentOf(q[i])
<1>1. Moments(q) = [i \in 1 .. Len(q) |-> MomentOf(q[i])]
  BY DEF Moments, MomentOf
<1>2. \A i \in 1 .. Len(q) : MomentOf(q[i]) \in Moment
  BY MomentType
<1> QED BY <1>1, <1>2

LEMMA MomentsOfAppend ==
  ASSUME NEW q \in Seq(Message), NEW m \in Message
  PROVE  Moments(Append(q, m)) = Append(Moments(q), MomentOf(m))
<1> DEFINE r == Append(q, m)
           told == Moments(q)
           new == MomentOf(m)
<1>1. r \in Seq(Message) /\ Len(r) = Len(q) + 1 /\ r[Len(q) + 1] = m
      /\ \A i \in 1 .. Len(q) : r[i] = q[i]
  BY AppendKeeps
<1>2. told \in Seq(Moment) /\ new \in Moment /\ Len(told) = Len(q)
      /\ \A i \in 1 .. Len(q) : told[i] = MomentOf(q[i])
  BY MomentsType, MomentType
<1>3. Moments(r) \in Seq(Moment) /\ Len(Moments(r)) = Len(r)
      /\ \A i \in 1 .. Len(r) : Moments(r)[i] = MomentOf(r[i])
  BY <1>1, MomentsType
<1> HIDE DEF r, told, new
<1>4. /\ Append(told, new) \in Seq(Moment) /\ Len(Append(told, new)) = Len(told) + 1
      /\ Append(told, new)[Len(told) + 1] = new
      /\ \A i \in 1 .. Len(told) : Append(told, new)[i] = told[i]
  BY <1>2
<1>5. \A i \in 1 .. Len(Moments(r)) : Moments(r)[i] = Append(told, new)[i]
  BY <1>1, <1>2, <1>3, <1>4 DEF new
<1> QED BY <1>1, <1>2, <1>3, <1>4, <1>5, SeqEqual DEF r, told, new

LEMMA MomentsOfTail ==
  ASSUME NEW q \in Seq(Message), q /= <<>>
  PROVE  /\ Moments(q) /= <<>> /\ Head(Moments(q)) = MomentOf(Head(q))
         /\ Moments(Tail(q)) = Tail(Moments(q))
<1> DEFINE r == Tail(q)
           told == Moments(q)
<1>1. r \in Seq(Message) /\ Len(q) >= 1 /\ Len(r) = Len(q) - 1 /\ Head(q) = q[1]
      /\ \A i \in 1 .. Len(r) : r[i] = q[i + 1]
  BY TailKeeps
<1>2. told \in Seq(Moment) /\ Len(told) = Len(q)
      /\ \A i \in 1 .. Len(q) : told[i] = MomentOf(q[i])
  BY MomentsType
<1>3. Moments(r) \in Seq(Moment) /\ Len(Moments(r)) = Len(r)
      /\ \A i \in 1 .. Len(r) : Moments(r)[i] = MomentOf(r[i])
  BY <1>1, MomentsType
<1> HIDE DEF r, told
<1>4. told /= <<>>
  BY <1>1, <1>2
<1>5. Head(told) = told[1] /\ Tail(told) \in Seq(Moment) /\ Len(Tail(told)) = Len(told) - 1
      /\ \A i \in 1 .. Len(Tail(told)) : Tail(told)[i] = told[i + 1]
  BY <1>2, <1>4, TailKeeps
<1>6. Head(told) = MomentOf(Head(q))
  BY <1>1, <1>2, <1>5
<1>7. \A i \in 1 .. Len(Moments(r)) : Moments(r)[i] = Tail(told)[i]
  <2> SUFFICES ASSUME NEW i \in 1 .. Len(Moments(r)) PROVE Moments(r)[i] = Tail(told)[i]
    OBVIOUS
  <2>1. i \in 1 .. Len(r) /\ i \in 1 .. Len(Tail(told)) /\ i + 1 \in 1 .. Len(q)
    BY <1>1, <1>2, <1>3, <1>5
  <2> QED BY <1>1, <1>2, <1>3, <1>5, <2>1
<1>8. Moments(r) = Tail(told)
  BY <1>1, <1>2, <1>3, <1>5, <1>7, SeqEqual
<1> QED BY <1>4, <1>6, <1>8 DEF r, told

LEMMA LatestIsTold ==
  ASSUME TypeOK, NEW c \in Clients
  PROVE  Copies!Latest(c) = Told(c)
<1> DEFINE q == to_client[c]
           coming == Moments(q)
<1>1. q \in Seq(Message)
  BY DEF TypeOK, Message
<1>2. coming \in Seq(Moment) /\ Len(coming) = Len(q)
      /\ \A i \in 1 .. Len(q) : coming[i] = MomentOf(q[i])
  BY <1>1, MomentsType
<1>3. Copies!Latest(c) = IF coming = <<>> THEN heard[c] ELSE coming[Len(coming)].scene
  BY DEF Copies!Latest
<1> HIDE DEF coming
<1>4. CASE q = <<>>
  BY <1>1, <1>2, <1>3, <1>4 DEF Told
<1>5. CASE q /= <<>>
  <2>1. Len(q) \in 1 .. Len(q)
    BY <1>1, <1>5
  <2>2. coming /= <<>>
    BY <1>2, <2>1
  <2>3. coming[Len(coming)] = MomentOf(q[Len(q)])
    BY <1>2, <2>1
  <2>4. Copies!Latest(c) = q[Len(q)].scene
    BY <1>3, <2>2, <2>3 DEF MomentOf
  <2> QED BY <1>5, <2>4 DEF Told
<1> QED BY <1>4, <1>5

\* The steps of the copies.
LEMMA SceneChanges ==
  ASSUME IInv, NEW n \in Nodes, NEW x \in Values,
         RegisterVariable(n, x) \/ \E v \in VarIds : ChangeVariable(n, v, x)
  PROVE  Copies!Change
<1>1. UNCHANGED <<to_client, heard, last_received_snapshot, in_tree>>
  BY DEF RegisterVariable, ChangeVariable, networkVars, snapshotVars, storedVars
<1>2. UNCHANGED <<heard, last_received_snapshot, in_tree, [c \in Clients |-> Moments(to_client[c])]>>
  BY <1>1
<1>3. CASE RegisterVariable(n, x)
  <2>1. values' = [values EXCEPT ![n] = Append(@, x)]
    BY <1>3 DEF RegisterVariable
  <2> QED BY <1>2, <2>1 DEF Copies!Change
<1>4. ASSUME NEW v \in VarIds, ChangeVariable(n, v, x)
      PROVE  Copies!Change
  <2>1. values' = [values EXCEPT ![n][v + 1] = x] /\ v \in 0 .. Len(values[n]) - 1
    BY <1>4 DEF ChangeVariable, Registered
  <2>2. Len(values[n]) \in Nat
    BY DEF IInv, TypeOK, SceneValues
  <2>3. v + 1 \in 1 .. Len(values[n])
    BY <2>1, <2>2
  <2> QED BY <1>2, <2>1, <2>3 DEF Copies!Change
<1> QED BY <1>3, <1>4

LEMMA StatesAreShown ==
  ASSUME IInv, NEW ns \in BOOLEAN, NotifyState(ns)
  PROVE  Copies!Show
<1> DEFINE notified == {c \in Clients : IsNotified(c, ns)}
           full == {c \in notified : need_full_snapshot[c]}
<1>1. UNCHANGED <<values, heard, last_received_snapshot, in_tree>>
  BY DEF NotifyState, snapshotVars, storedVars
<1>2. ASSUME NEW c \in Clients
      PROVE  Moments(to_client'[c]) =
               IF c \in notified
               THEN Append(Moments(to_client[c]), [scene |-> values, full |-> c \in full])
               ELSE Moments(to_client[c])
  <2>1. to_client[c] \in Seq(Message) /\ State(c) \in Message /\ need_full_snapshot[c] \in BOOLEAN
    BY StateType DEF IInv, TypeOK, Message
  <2>2. to_client'[c] = IF c \in notified THEN Append(to_client[c], State(c)) ELSE to_client[c]
    BY DEF NotifyState
  <2>3. c \in notified => MomentOf(State(c)) = [scene |-> values, full |-> c \in full]
    BY <2>1 DEF MomentOf, State
  <2>4. Moments(Append(to_client[c], State(c))) = Append(Moments(to_client[c]), MomentOf(State(c)))
    BY <2>1, MomentsOfAppend
  <2> HIDE DEF notified, full
  <2> QED BY <2>2, <2>3, <2>4
<1>3. full \in SUBSET notified /\ notified \in SUBSET Clients
  OBVIOUS
<1> HIDE DEF notified, full
<1> QED BY <1>1, <1>2, <1>3 DEF Copies!Show

LEMMA StatusIsCalled ==
  ASSUME IInv, NEW c \in Clients, NEW e \in BOOLEAN, SetPeerEnabled(c, e),
         UNCHANGED <<values, heard, last_received_snapshot, in_tree>>
  PROVE  to_client' = to_client \/ Copies!Call(c)
<1>1. CASE peer_enabled[c] = e
  BY <1>1 DEF SetPeerEnabled, peerVars
<1>2. CASE peer_enabled[c] /= e
  <2>1. to_client \in [Clients -> Seq(Message)] /\ Status(c, e) \in Message
    BY StatusType DEF IInv, TypeOK, Message
  <2>2. to_client' = [to_client EXCEPT ![c] = Append(to_client[c], Status(c, e))]
    BY <1>2 DEF SetPeerEnabled
  <2>3. MomentOf(Status(c, e)) = [scene |-> Copies!Latest(c), full |-> FALSE]
    BY LatestIsTold DEF IInv, MomentOf, Status
  <2>4. \A d \in Clients :
          Moments(to_client'[d]) =
            IF d = c THEN Append(Moments(to_client[d]), [scene |-> Copies!Latest(c), full |-> FALSE])
                     ELSE Moments(to_client[d])
    BY <2>1, <2>2, <2>3, MomentsOfAppend
  <2>5. [d \in Clients |-> Moments(to_client[d])]' =
          [[d \in Clients |-> Moments(to_client[d])] EXCEPT ![c] =
             Append(@, [scene |-> Copies!Latest(c), full |-> FALSE])]
    BY <2>4
  <2> QED BY <2>5 DEF Copies!Call
<1> QED BY <1>1, <1>2

\* What a client gets by a call that it takes.
LEMMA CopyIsTaken ==
  ASSUME IInv, IInv', NEW c \in Clients, CallIsTaken(c),
         UNCHANGED <<values, in_tree>>,
         to_client' = [to_client EXCEPT ![c] = Tail(@)],
         heard' = [heard EXCEPT ![c] = Head(to_client[c]).scene],
         NEW new \in [Nodes -> [VarIds -> Values \cup {Unset}]],
         last_received_snapshot' = [last_received_snapshot EXCEPT ![c] = new],
         \A n \in Nodes, v \in VarIds :
           last_received_snapshot[c][n][v] /= Unset => new[n][v] /= Unset,
         Head(to_client[c]).kind = "state" /\ Head(to_client[c]).full =>
           \A n \in in_tree[c] \cap Shown(c), v \in VarIds :
             v < Len(Head(to_client[c]).scene[n]) => new[n][v] /= Unset
  PROVE  Copies!Take(c)
<1> DEFINE coming == [d \in Clients |-> Moments(to_client[d])]
           sees == [d \in Clients |-> Shown(d)]
           told == Head(coming[c])
<1>1. to_client \in [Clients -> Seq(Message)] /\ to_client[c] /= <<>>
  BY DEF IInv, TypeOK, Message, CallIsTaken
<1>2. coming[c] /= <<>> /\ told = MomentOf(Head(to_client[c]))
      /\ Moments(Tail(to_client[c])) = Tail(coming[c])
  BY <1>1, MomentsOfTail
<1>3. coming' = [coming EXCEPT ![c] = Tail(@)]
  <2>1. \A d \in Clients :
          Moments(to_client'[d]) = IF d = c THEN Tail(coming[c]) ELSE Moments(to_client[d])
    BY <1>1, <1>2
  <2> QED BY <2>1
<1>4. told.scene = Head(to_client[c]).scene
      /\ told.full = (Head(to_client[c]).kind = "state" /\ Head(to_client[c]).full)
  BY <1>2 DEF MomentOf
<1>5. heard' = [heard EXCEPT ![c] = told.scene]
  BY <1>4
<1>6. last_received_snapshot'[c] = new
  BY DEF IInv, TypeOK
<1>7. Copies!IsOf(new, told.scene)
  <2>1. heard'[c] = told.scene
    BY <1>5 DEF IInv, TypeOK
  <2>2. \A n \in Nodes, v \in VarIds :
          new[n][v] /= Unset => v < Len(heard'[c][n]) /\ new[n][v] = heard'[c][n][v + 1]
    BY <1>6 DEF IInv, SnapshotIsTheServers
  <2> QED BY <2>1, <2>2 DEF Copies!IsOf
<1>8. told.full => \A n \in in_tree[c] \cap sees[c] : Copies!IsWhole(new, n, told.scene)
  BY <1>4 DEF Copies!IsWhole
<1> HIDE DEF told
<1>9. /\ last_received_snapshot'[c] \in Copies!Copy
      /\ last_received_snapshot' = [last_received_snapshot EXCEPT ![c] = last_received_snapshot'[c]]
  BY <1>6 DEF Copies!Copy
<1>10. \A n \in Nodes, v \in VarIds :
         last_received_snapshot[c][n][v] /= Unset => last_received_snapshot'[c][n][v] /= Unset
  BY <1>6
<1>11. /\ Copies!IsOf(last_received_snapshot'[c], told.scene)
       /\ told.full => \A n \in in_tree[c] \cap sees[c] :
            Copies!IsWhole(last_received_snapshot'[c], n, told.scene)
  BY <1>6, <1>7, <1>8
<1> QED BY <1>2, <1>3, <1>5, <1>9, <1>10, <1>11 DEF Copies!Take, told

LEMMA StatusIsTaken ==
  ASSUME IInv, IInv', NEW c \in Clients, ReceiveStatus(c)
  PROVE  Copies!Take(c)
<1>1. /\ to_client[c] /= <<>> /\ Head(to_client[c]).kind = "status"
      /\ to_client' = [to_client EXCEPT ![c] = Tail(@)]
      /\ heard' = [heard EXCEPT ![c] = Head(to_client[c]).scene]
      /\ UNCHANGED <<values, in_tree, last_received_snapshot>>
  BY DEF ReceiveStatus, nodeVars, storedVars
<1>2. CallIsTaken(c)
  BY <1>1 DEF CallIsTaken, IInv, TypeOK
<1>3. /\ last_received_snapshot[c] \in [Nodes -> [VarIds -> Values \cup {Unset}]]
      /\ last_received_snapshot' = [last_received_snapshot EXCEPT ![c] = last_received_snapshot[c]]
  BY <1>1 DEF IInv, TypeOK
<1> QED BY <1>1, <1>2, <1>3, CopyIsTaken

LEMMA StateIsTaken ==
  ASSUME IInv, IInv', FullStatesAreWhole, NEW c \in Clients, ReceiveState(c)
  PROVE  Copies!Take(c)
<1> DEFINE m == Head(to_client[c])
           new == Merged(c, m.nodes)
<1>1. /\ to_client[c] /= <<>> /\ m.kind = "state"
      /\ to_client' = [to_client EXCEPT ![c] = Tail(@)]
      /\ heard' = [heard EXCEPT ![c] = m.scene]
      /\ last_received_snapshot' = [last_received_snapshot EXCEPT ![c] = new]
      /\ UNCHANGED <<values, in_tree>>
  BY DEF ReceiveState, nodeVars
<1>2. CallIsTaken(c)
  BY <1>1 DEF CallIsTaken, IInv, TypeOK
<1>3. new \in [Nodes -> [VarIds -> Values \cup {Unset}]]
  <2>1. last_received_snapshot'[c] = new
    BY <1>1 DEF IInv, TypeOK
  <2> QED BY <2>1 DEF IInv, TypeOK
<1>4. to_client[c] \in Seq(Message) /\ m \in States /\ IsWholeState(c, m) /\ IsExact(c, m)
  <2>1. to_client[c] \in Seq(Message) /\ IsChain(c, to_client[c], heard[c])
    BY DEF IInv, TypeOK, Message, CallsAreChained
  <2>2. Continues(c, m, heard[c])
    BY <1>1, <2>1, QueueTail
  <2>3. m = to_client[c][1] /\ 1 \in 1 .. Len(to_client[c]) /\ m \in Message
    BY <1>1, <2>1
  <2> QED BY <1>1, <2>1, <2>2, <2>3 DEF Continues, FullStatesAreWhole, Message, Statuses, States
<1>5. ASSUME NEW n \in Nodes, NEW v \in VarIds, n \in Found(c, m.nodes),
             v \in Understood(c, n, m.nodes[n])
      PROVE  new[n][v] /= Unset
  <2>1. n \in DOMAIN m.nodes /\ v \in DOMAIN m.nodes[n].vars
    BY <1>5 DEF Found, Understood
  <2>2. m.nodes[n].vars[v] \in Values
    BY <1>4, <2>1 DEF States, NodeStates, Partial
  <2> QED BY <1>5, <2>2, UnsetAssumption DEF Merged
<1>6. ASSUME NEW n \in Nodes, NEW v \in VarIds, last_received_snapshot[c][n][v] /= Unset
      PROVE  new[n][v] /= Unset
  BY <1>5, <1>6 DEF Merged
<1>7. ASSUME m.full, NEW n \in in_tree[c] \cap Shown(c), NEW v \in VarIds, v < Len(m.scene[n])
      PROVE  new[n][v] /= Unset
  <2>1. n \in DOMAIN m.nodes /\ m.nodes[n].path /\ v \in m.nodes[n].names /\ n \in Nodes
    BY <1>1, <1>4, <1>7 DEF IsWholeState, Shown
  <2>2. n \in Found(c, m.nodes) /\ v \in Understood(c, n, m.nodes[n])
    BY <1>4, <2>1 DEF Found, Located, Understood, IsExact
  <2> QED BY <1>5, <2>1, <2>2
<1> HIDE DEF new
<1> QED BY <1>1, <1>2, <1>3, <1>6, <1>7, CopyIsTaken

LEMMA NodeIsUnloaded ==
  ASSUME IInv, NEW c \in Clients, NEW n \in Nodes, RemoveNode(c, n)
  PROVE  Copies!Unload(c)
<1>1. /\ n \in in_tree[c] /\ in_tree' = [in_tree EXCEPT ![c] = @ \ {n}]
      /\ UNCHANGED <<values, to_client, heard>>
  BY DEF RemoveNode, nodeVars, networkVars
<1>2. last_received_snapshot \in [Clients -> [Nodes -> [VarIds -> Values \cup {Unset}]]]
  BY DEF IInv, TypeOK
<1>3. last_received_snapshot' = [last_received_snapshot EXCEPT ![c][n] = Copies!Blank]
  <2>1. CASE n \in known[c]
    BY <1>2, <2>1 DEF RemoveNode, Forgotten, Copies!Blank
  <2>2. CASE n \notin known[c]
    <3>1. \A v \in VarIds : last_received_snapshot[c][n][v] = Unset
      BY <2>2 DEF IInv, IdsAreValues
    <3>2. last_received_snapshot[c][n] = Copies!Blank
      BY <1>2, <3>1 DEF Copies!Blank
    <3>3. last_received_snapshot' = last_received_snapshot
      BY <1>2, <2>2 DEF RemoveNode
    <3> QED BY <1>2, <3>2, <3>3
  <2> QED BY <2>1, <2>2
<1>4. [d \in Clients |-> Moments(to_client[d])]' = [d \in Clients |-> Moments(to_client[d])]
  BY <1>1
<1> QED BY <1>1, <1>3, <1>4 DEF Copies!Unload

LEMMA ClientLeaves ==
  ASSUME IInv, NEW c \in Clients, Disconnect(c)
  PROVE  Copies!Leave(c)
<1>1. /\ to_client' = [to_client EXCEPT ![c] = <<>>]
      /\ heard' = [heard EXCEPT ![c] = NoValues]
      /\ last_received_snapshot' = [last_received_snapshot EXCEPT ![c] = NothingSet]
      /\ UNCHANGED <<values, in_tree>>
  BY DEF Disconnect, nodeVars
<1>2. NoValues = Copies!Empty /\ NothingSet = [n \in Nodes |-> Copies!Blank]
  BY DEF NoValues, NothingSet, Copies!Empty, Copies!Blank
<1>3. Moments(<<>>) = <<>>
  BY DEF Moments
<1>4. [d \in Clients |-> Moments(to_client[d])]' =
        [[d \in Clients |-> Moments(to_client[d])] EXCEPT ![c] = <<>>]
  <2>1. \A d \in Clients :
          Moments(to_client'[d]) = IF d = c THEN <<>> ELSE Moments(to_client[d])
    BY <1>1, <1>3 DEF IInv, TypeOK
  <2> QED BY <2>1
<1> QED BY <1>1, <1>2, <1>4 DEF Copies!Leave

LEMMA CopiesInitHolds == Init => Copies!CopiesInit
<1> SUFFICES ASSUME Init PROVE Copies!CopiesInit
  OBVIOUS
<1>1. Moments(<<>>) = <<>>
  BY DEF Moments
<1>2. [c \in Clients |-> Moments(to_client[c])] = [c \in Clients |-> <<>>]
  BY <1>1 DEF Init
<1>3. /\ values = NoValues /\ heard = [c \in Clients |-> NoValues]
      /\ last_received_snapshot = [c \in Clients |-> NothingSet]
      /\ in_tree = [c \in Clients |-> {}]
  BY DEF Init
<1> QED BY <1>2, <1>3 DEF Copies!CopiesInit, Copies!Empty, Copies!Blank, NoValues, NothingSet

LEMMA CopiesStepHolds ==
  IInv /\ IInv' /\ FullStatesAreWhole /\ [Next]_vars => [Copies!CopiesNext]_(Copies!copyVars)
<1> SUFFICES ASSUME IInv, IInv', FullStatesAreWhole, [Next]_vars
             PROVE  [Copies!CopiesNext]_(Copies!copyVars)
  OBVIOUS
<1> USE DEF nodeVars, peerVars, networkVars, storedVars, snapshotVars, enabledVars
<1>1. CASE UNCHANGED <<values, to_client, heard, last_received_snapshot, in_tree>>
  BY <1>1 DEF Copies!copyVars
<1>2. ASSUME NEW n \in Nodes, NEW x \in Values,
             RegisterVariable(n, x) \/ \E v \in VarIds : ChangeVariable(n, v, x)
      PROVE  Copies!CopiesNext
  BY <1>2, SceneChanges DEF Copies!CopiesNext
<1>3. ASSUME NEW ns \in BOOLEAN, NotifyState(ns)
      PROVE  Copies!CopiesNext
  BY <1>3, StatesAreShown DEF Copies!CopiesNext
<1>4. ASSUME NEW c \in Clients, NEW e \in BOOLEAN, SetPeerNetworkingEnable(c, e)
      PROVE  [Copies!CopiesNext]_(Copies!copyVars)
  BY <1>1, <1>4, StatusIsCalled DEF SetPeerNetworkingEnable, Copies!CopiesNext
<1>5. ASSUME NEW c \in Clients, ReceiveSetEnabled(c)
      PROVE  [Copies!CopiesNext]_(Copies!copyVars)
  BY <1>1, <1>5, StatusIsCalled DEF ReceiveSetEnabled, Copies!CopiesNext
<1>6. ASSUME NEW c \in Clients, ReceiveStatus(c) \/ ReceiveState(c) \/ Disconnect(c)
      PROVE  Copies!CopiesNext
  BY <1>6, StatusIsTaken, StateIsTaken, ClientLeaves DEF Copies!CopiesNext
<1>7. ASSUME NEW c \in Clients, NEW n \in Nodes, RemoveNode(c, n)
      PROVE  Copies!CopiesNext
  BY <1>7, NodeIsUnloaded DEF Copies!CopiesNext
<1>8. ASSUME NEW c \in Clients, NEW n \in Nodes, AddNode(c, n)
      PROVE  Copies!CopiesNext
  <2>1. /\ n \in Nodes \ in_tree[c] /\ in_tree' = [in_tree EXCEPT ![c] = @ \cup {n}]
        /\ UNCHANGED <<values, to_client, heard, last_received_snapshot>>
    BY <1>8 DEF AddNode
  <2> QED BY <2>1 DEF Copies!CopiesNext, Copies!Load
<1> QED BY <1>1, <1>2, <1>3, <1>4, <1>5, <1>6, <1>7, <1>8, GameAssumption
        DEF Next, ServerNext, ClientNext, vars, RegisterNode, ReceiveNeedFull, Connect, SetEnabled

\* Whatever is sent in full or in part, skipped, forced, disabled or lost with a
\* connection, a client has a copy of one moment of the server's scene, goes on to later
\* ones in their order, loses no value to a delta and misses none after a full state
\* (server_synchronizer.cpp:294-523, client_synchronizer.cpp:1025-1402).
THEOREM SnapshotsImplementCopies == Spec => ImplementsCopies
<1>1. Init => FullStatesAreWhole
  <2>1. ASSUME Init, NEW c \in Clients
        PROVE  Len(to_client[c]) = 0
    BY <2>1 DEF Init
  <2> QED BY <2>1 DEF FullStatesAreWhole
<1> QED BY <1>1, CopiesInitHolds, CopiesStepHolds, FullStatesStep, IInvHolds, PTL
        DEF Spec, ImplementsCopies, Copies!CopiesSpec
=============================================================================
