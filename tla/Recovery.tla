------------------------------- MODULE Recovery -------------------------------
(***************************************************************************)
(* How a client comes back to the server's values.  Each frame the client  *)
(* plays is remembered with the values it left.  When a state of the       *)
(* server for one of these frames differs, the nodes that differ are set   *)
(* to the server's values and the frames since are played again for them;  *)
(* the nodes of the player's controller always together.                   *)
(*                                                                         *)
(* The world is a function from variables to values; a variable belongs to *)
(* one node.  Only the nodes the server sends to this client are modelled. *)
(* A node's functions read and write that node, the controller reads and   *)
(* writes its own nodes and reads the dependencies it meets.               *)
(***************************************************************************)
EXTENDS Integers, SequencesExt

CONSTANTS
  Vars, NodeOf,             \* the variables, and the node of each
  Values,
  Nil,                      \* the value of a variable no state told
  Controller, Controlled,   \* the player's controller and its nodes
  Dependable,               \* nodes the game makes its dependencies
  SkipRewinding,            \* variables whose difference alone does not rewind
  Told,                     \* the variables the server registered too
  Stoppable,                \* nodes whose sync the game stops and starts
  Inputs, Void,             \* the inputs, and the empty one
  Actions, NoAction,        \* the player's actions
  Targets,                  \* the nodes they act on
  Deeds,                    \* what the player may do in a frame
  Initial,                  \* the world at first
  Touches,                  \* what the server's game sets by itself
  Process(_, _),            \* the world after the functions of a node
  Control(_, _, _),         \* after the controller, with its input and the nodes it meets
  Act(_, _),                \* after an action
  MaxStorage,               \* player_input_storage_size
  MaxInput,                 \* bound: frames the player plays
  MaxStates,                \* bound: states on their way
  MaxStrays                 \* bound: times the server departs from the player's frames

ASSUME WorldAssumption ==
  /\ Nil \notin Values
  /\ Told \subseteq Vars /\ SkipRewinding \subseteq Vars
  /\ \A v \in Vars : \E u \in Told : NodeOf[u] = NodeOf[v]
  /\ Controller \notin Controlled \cup Dependable /\ Controlled \cap Dependable = {}
ASSUME DeedsAssumption ==
  /\ Void \in Inputs /\ NoAction \notin Actions
  /\ Deeds \subseteq [input : Inputs, meets : SUBSET Dependable, action : Actions \cup {NoAction}]
  /\ Initial \in [Vars -> Values]
  /\ \A t \in Touches : DOMAIN t \subseteq Vars /\ \A v \in DOMAIN t : t[v] \in Values
\* What the game's functions may change.
ASSUME GameAssumption ==
  /\ Stoppable \subseteq {Controller} \cup {NodeOf[v] : v \in Vars}
  /\ \A w \in [Vars -> Values] :
       /\ \A v \in Vars : Process(NodeOf[v], w) \in [Vars -> Values]
       /\ \A i \in Inputs, meets \in SUBSET Dependable :
            /\ Control(i, meets, w) \in [Vars -> Values]
            /\ \A v \in Vars : NodeOf[v] \notin Controlled \cup {Controller} =>
                 Control(i, meets, w)[v] = w[v]
       /\ \A a \in Actions :
            /\ Act(a, w) \in [Vars -> Values]
            /\ \A v \in Vars : NodeOf[v] \notin Targets => Act(a, w)[v] = w[v]

Own == Controlled \cup {Controller}

\* Of the variables K, those of some nodes as they are in w, everything else as at first.
Only(w, K, nodes) == [v \in Vars |-> IF v \in K /\ NodeOf[v] \in nodes THEN w[v] ELSE Initial[v]]

\* What they read: a node's functions the node, the controller its nodes and those it
\* meets, an action what it acts on.  What the server tells never follows from what it
\* does not know.
ASSUME ReadsAssumption ==
  \A w \in [Vars -> Values] :
    /\ \A K \in {Vars, Told} : \A v \in K :
         /\ Process(NodeOf[v], w)[v] = Process(NodeOf[v], Only(w, K, {NodeOf[v]}))[v]
         /\ NodeOf[v] \in Own => \A i \in Inputs, meets \in SUBSET Dependable :
              Control(i, meets, w)[v] = Control(i, meets, Only(w, K, Own \cup meets))[v]
    /\ \A v \in Vars, a \in Actions : Act(a, w)[v] = Act(a, Only(w, Vars, {NodeOf[v]}))[v]
ASSUME BoundsAssumption ==
  MaxStorage \in Nat \ {0} /\ MaxInput \in Nat /\ MaxStates \in Nat /\ MaxStrays \in Nat

VARIABLES
  \* The client.
  value,                    \* the properties of the nodes
  var_values,               \* what the synchronizer knows of them
  sync_enabled,             \* the nodes that are synchronized
  dependency_nodes_end,     \* for each dependency, the input after which it is none
  current_input_id,         \* 0 before the first frame
  streaming_paused,
  frames_snapshot,
  client_snapshots,
  server_snapshots,
  last_checked_input,
  in_frame,                 \* the sub ticks of a frame have begun
  end_sync,                 \* what the last END_SYNC told: variable to old value
  \* The server and the network.
  server_values,
  server_input_id,
  states,
  \* History.
  made,                     \* every frame the player played
  base,                     \* the world as the last state that was used has it
  idle,                     \* frames that follow a tick without an input
  stopped,                  \* the nodes the game ever stopped synchronizing
  strays                    \* times the server departed from the player's frames

worldVars == <<value, var_values>>
syncVars == <<sync_enabled, stopped>>
gameVars == <<syncVars, dependency_nodes_end>>
frameVars == <<current_input_id, streaming_paused, frames_snapshot, client_snapshots>>
checkVars == <<server_snapshots, last_checked_input>>
serverVars == <<server_values, server_input_id, states, strays>>
vars == <<worldVars, gameVars, frameVars, checkVars, in_frame, end_sync, serverVars, made,
          base, idle>>

Nodes == {Controller} \cup {NodeOf[v] : v \in Vars}
VarsOf(n) == {v \in Vars : NodeOf[v] = n}
World == [Vars -> Values]
Ids == 1 .. MaxInput
Never == MaxInput + 1       \* UINT32_MAX, as an input no frame has
Nothing == [v \in {} |-> Nil]

\* What f says, and g where f says nothing.
Over(f, g) == [v \in DOMAIN f \cup DOMAIN g |-> IF v \in DOMAIN f THEN f[v] ELSE g[v]]

Init ==
  /\ value = Initial
  /\ var_values = value
  /\ sync_enabled = Nodes
  /\ dependency_nodes_end = [n \in {} |-> Never]
  /\ current_input_id = 0
  /\ streaming_paused = FALSE
  /\ frames_snapshot = <<>>
  /\ client_snapshots = <<>>
  /\ server_snapshots = <<>>
  /\ last_checked_input = 0
  /\ in_frame = FALSE
  /\ end_sync = Nothing
  /\ server_values = value
  /\ server_input_id = 0
  /\ states = <<>>
  /\ made = <<>>
  /\ base = value
  /\ idle = {}
  /\ stopped = {}
  /\ strays = 0

-----------------------------------------------------------------------------
(* A tick of the simulation, which both sides run. *)

\* NodeData::process, run several times over.
Processed(n, w, times) ==
  CASE times = 0 -> w
    [] times = 1 -> Process(n, w)
    [] OTHER -> Process(n, Process(n, w))

Acted(a, w) == IF a = NoAction THEN w ELSE Act(a, w)

\* Every node, then the controller, then the actions.
Play(w, deed) ==
  LET processed == [v \in Vars |-> Process(NodeOf[v], w)[v]]
  IN  Acted(deed.action, Control(deed.input, deed.meets, processed))

-----------------------------------------------------------------------------
(* The client's frames. *)

input_buffers_counter == Len(made) + 1
can_accept_new_inputs == Len(frames_snapshot) < MaxStorage
dependency_nodes == DOMAIN dependency_nodes_end
Met == {n \in dependency_nodes : dependency_nodes_end[n] = Never}

\* A sub tick that stores an input and the snapshot of its frame.
SubTickStream(deed) ==
  /\ can_accept_new_inputs
  /\ input_buffers_counter <= MaxInput
  /\ deed.input = Void => ~streaming_paused
  /\ deed.meets \subseteq Met
  /\ streaming_paused' = (streaming_paused /\ deed.input = Void)
  /\ current_input_id' = input_buffers_counter
  /\ value' = Play(value, deed)
  /\ var_values' = value'
  /\ frames_snapshot' = Append(frames_snapshot,
       [id |-> current_input_id', input |-> deed.input, meets |-> deed.meets])
  /\ client_snapshots' = Append(client_snapshots,
       [input_id |-> current_input_id', values |-> var_values', action |-> deed.action])
  /\ made' = Append(made, deed)
  /\ in_frame' = TRUE
  /\ UNCHANGED <<gameVars, checkVars, end_sync, serverVars, base, idle>>

\* One that stores none: the storage is full or the stream is paused.
SubTickIdle(meets) ==
  /\ meets \subseteq Met
  /\ input_buffers_counter \notin idle    \* bound: one between two frames
  /\ \/ /\ can_accept_new_inputs
        /\ streaming_paused
        /\ current_input_id' = input_buffers_counter
        /\ value' = Play(value, [input |-> Void, meets |-> meets, action |-> NoAction])
     \/ /\ ~can_accept_new_inputs
        /\ UNCHANGED current_input_id
        /\ value' = Play(value, [input |-> Last(frames_snapshot).input, meets |-> meets,
                                 action |-> NoAction])
  /\ var_values' = value'
  /\ in_frame' = TRUE
  /\ idle' = idle \cup {input_buffers_counter}
  /\ UNCHANGED <<gameVars, streaming_paused, frames_snapshot, client_snapshots, checkVars,
                 end_sync, serverVars, made, base>>

\* receive_snapshot: a state of the last id replaces it, an older one is refused.
ReceiveState ==
  /\ ~in_frame
  /\ states /= <<>>
  /\ LET s == Head(states)
         stored == Len(server_snapshots)
     IN  server_snapshots' =
           IF stored = 0 \/ s.input_id > server_snapshots[stored].input_id
             THEN Append(server_snapshots, s)
           ELSE IF s.input_id = server_snapshots[stored].input_id
             THEN [server_snapshots EXCEPT ![stored] = s]
           ELSE server_snapshots
  /\ states' = Tail(states)
  /\ UNCHANGED <<worldVars, gameVars, frameVars, last_checked_input, in_frame, end_sync,
                 server_values, server_input_id, strays, made, base, idle>>

-----------------------------------------------------------------------------
(* The game: which nodes are synchronized, which the controller depends on. *)

StartNodeSync(n) ==
  /\ sync_enabled' = sync_enabled \cup {n}
  /\ UNCHANGED <<worldVars, stopped, dependency_nodes_end, frameVars, checkVars, in_frame, end_sync,
                 serverVars, made, base, idle>>

StopNodeSync(n) ==
  /\ sync_enabled' = sync_enabled \ {n}
  /\ stopped' = stopped \cup {n}
  /\ UNCHANGED <<worldVars, dependency_nodes_end, frameVars, checkVars, in_frame, end_sync,
                 serverVars, made, base, idle>>

\* controller_add_dependency.
AddDependency(n) ==
  /\ dependency_nodes_end' =
       [d \in dependency_nodes \cup {n} |-> IF d = n THEN Never ELSE dependency_nodes_end[d]]
  /\ UNCHANGED <<worldVars, syncVars, frameVars, checkVars, in_frame, end_sync,
                 serverVars, made, base, idle>>

\* Mutant of DependencyEnd: the dependency is dropped at the next check.
DependencyEndAtOnce == -1

\* get_current_input_id, which is UINT32_MAX before the first input.
DependencyEnd == IF current_input_id = 0 THEN Never ELSE current_input_id

\* controller_remove_dependency: not before the server confirmed the last frame.
RemoveDependency(n) ==
  /\ n \in dependency_nodes
  /\ dependency_nodes_end' = [dependency_nodes_end EXCEPT ![n] = DependencyEnd]
  /\ UNCHANGED <<worldVars, syncVars, frameVars, checkVars, in_frame, end_sync,
                 serverVars, made, base, idle>>

\* purge_node_dependencies, after the frame.
Purge ==
  dependency_nodes_end' =
    [n \in {d \in dependency_nodes : dependency_nodes_end[d] >= last_checked_input'}
       |-> dependency_nodes_end[n]]

-----------------------------------------------------------------------------
(* process_controllers_recovery, and the END_SYNC event that follows it. *)

\* Mutant of Noted: the last old value is kept.
NotedLast(events, new) == Over(new, events)

\* on_variable_changed in a recovery: of each variable the first old value is kept.
Noted(events, new) == Over(events, new)

\* What END_SYNC tells of the variables noted.
EndSync(events) ==
  [v \in {u \in DOMAIN events : var_values'[u] /= events[u]} |-> events[v]]

\* What is left of a queue when the first k - 1 are popped, or all when k is 0.
From(s, k) == IF k = 0 THEN <<>> ELSE SubSeq(s, k, Len(s))

\* Mutant of After: the frame of the input is kept.
AfterAndAt(s, id) == From(s, SelectInSeq(s, LAMBDA f : f.id >= id))

\* The frames after an input; notify_input_checked pops the others.
After(s, id) == From(s, SelectInSeq(s, LAMBDA f : f.id > id))

\* The newest server snapshot of a frame that is still stored.
Checkable(i) ==
  LET Common == {j \in 1 .. Len(server_snapshots) :
                   \E c \in 1 .. Len(client_snapshots) :
                     client_snapshots[c].input_id = server_snapshots[j].input_id}
  IN  i \in Common /\ \A j \in Common : j <= i

\* Nothing to compare.
RecoverNothing ==
  /\ \/ server_snapshots = <<>>
     \/ /\ client_snapshots /= <<>>
        /\ \A i \in 1 .. Len(server_snapshots) : ~Checkable(i)
  /\ end_sync' = Nothing
  /\ in_frame' = FALSE
  /\ UNCHANGED <<worldVars, syncVars, frameVars, checkVars, serverVars, made, base, idle>>
  /\ Purge

\* Mutant of IsSynced: whether the sync is stopped is not looked at.
IsSyncedAlways(v) == NodeOf[v] \in Nodes

IsSynced(v) == NodeOf[v] \in sync_enabled

\* process_paused_controller_recovery: no frame is stored, the last state is set as
\* it is, Nil for the variables it does not tell.
RecoverPaused ==
  /\ server_snapshots /= <<>>
  /\ client_snapshots = <<>>
  /\ LET s == Last(server_snapshots).values
         Different == {v \in Vars : IsSynced(v) /\
                         var_values[v] /= IF v \in Told THEN s[v] ELSE Nil}
     IN  /\ var_values' = [v \in Vars |->
              IF v \in Different THEN (IF v \in Told THEN s[v] ELSE Nil) ELSE var_values[v]]
         /\ value' = [v \in Vars |->
              IF v \in Different \cap Told THEN s[v] ELSE value[v]]
         /\ end_sync' = EndSync([v \in Different |-> var_values[v]])
         /\ base' = Over(s, value')
  /\ server_snapshots' = <<>>
  /\ in_frame' = FALSE
  /\ UNCHANGED <<syncVars, frameVars, last_checked_input, serverVars, made, idle>>
  /\ Purge

-----------------------------------------------------------------------------
(* __pcr__fetch_recovery_info: s and c are the values of the server and client. *)

DifferentVars(s, c) == {v \in Told : IsSynced(v) /\ s[v] /= c[v]}
NeedRewind(s, c) == {NodeOf[v] : v \in DifferentVars(s, c) \ SkipRewinding}
Postponed(s, c) == {NodeOf[v] : v \in DifferentVars(s, c)} \ NeedRewind(s, c)

\* The controller, what it controls and what it depends on.
ControllerNodes == {Controller} \cup Controlled \cup dependency_nodes
RecoverController(s, c) == NeedRewind(s, c) \cap ControllerNodes /= {}

Once(condition) == IF condition THEN 1 ELSE 0

\* How often each node is in nodes_to_recover.
NodesToRecover(s, c) ==
  [n \in Nodes |->
     Once(n \in NeedRewind(s, c) \ ControllerNodes)
     + Once(n \in Postponed(s, c))
     + Once(RecoverController(s, c) /\ n \in ControllerNodes)]

\* The variables a rewind sets and stores.
Rewound(nodes) == {v \in Vars : IsSynced(v) /\ nodes[NodeOf[v]] > 0}

\* __pcr__sync_pre_rewind.
Reset(s, nodes) ==
  LET set == Rewound(nodes) \cap Told
  IN  [value  |-> [v \in Vars |-> IF v \in set THEN s[v] ELSE value[v]],
       cached |-> [v \in Vars |-> IF v \in set THEN s[v] ELSE var_values[v]],
       events |-> [v \in set |-> var_values[v]],
       snapshots |-> <<>>]

\* pull_node_changes: the variables, of those pulled, whose value is news.
Changed(pulled, world, cached) == {v \in pulled : world[v] /= cached[v]}

\* One instant of __pcr__rewind: r is the rewind so far, frame and snapshot are of
\* the instant.
Instant(r, frame, snapshot, nodes, controller) ==
  LET processed == [v \in Vars |->
        IF IsSynced(v) THEN Processed(NodeOf[v], r.value, nodes[NodeOf[v]])[v]
                       ELSE r.value[v]]
      controlled == IF controller /\ Controller \in sync_enabled
                      THEN Control(frame.input, frame.meets, processed) ELSE processed
      acted == Acted(snapshot.action, controlled)
      pulled == Rewound(nodes)
      changed == Changed(pulled, acted, r.cached)
  IN  [value  |-> acted,
       cached |-> [v \in Vars |-> IF v \in changed THEN acted[v] ELSE r.cached[v]],
       events |-> Noted(r.events, [v \in changed |-> r.cached[v]]),
       snapshots |-> Append(r.snapshots, [snapshot EXCEPT !.values =
                       [v \in Vars |-> IF v \in pulled THEN acted[v] ELSE snapshot.values[v]]])]

\* Mutant of Rewind: the instants are those of the frames one later.
RewindNextFrames(start, frames, snapshots, nodes, controller) ==
  LET RewoundTo[i \in 0 .. Len(frames)] ==
        IF i = 0 THEN start
        ELSE Instant(RewoundTo[i - 1], frames[IF i < Len(frames) THEN i + 1 ELSE i],
                     snapshots[i], nodes, controller)
  IN RewoundTo[Len(frames)]

\* __pcr__rewind: every frame after the one that was checked.
Rewind(start, frames, snapshots, nodes, controller) ==
  LET RewoundTo[i \in 0 .. Len(frames)] ==
        IF i = 0 THEN start
        ELSE Instant(RewoundTo[i - 1], frames[i], snapshots[i], nodes, controller)
  IN RewoundTo[Len(frames)]

\* The client's and the server's values of the frame that is checked.
CheckedFrame(i) ==
  CHOOSE c \in 1 .. Len(client_snapshots) :
    client_snapshots[c].input_id = server_snapshots[i].input_id

\* What every comparison ends in: the snapshots up to the frame are dropped, the
\* player forgets its inputs.  left is what is left of the client's snapshots.
Checked(i, left) ==
  LET id == server_snapshots[i].input_id
      frames == After(frames_snapshot, id)
  IN  /\ server_snapshots' = SubSeq(server_snapshots, i + 1, Len(server_snapshots))
      /\ client_snapshots' = left
      /\ frames_snapshot' = frames
      /\ streaming_paused' =
           /\ made[id].input = Void
           /\ \A f \in 1 .. Len(frames) : frames[f].input = Void
      /\ last_checked_input' = id
      /\ in_frame' = FALSE
      /\ base' = Over(server_snapshots[i].values, value')
      /\ UNCHANGED <<syncVars, current_input_id, serverVars, made, idle>>
      /\ Purge

\* The frame differs: rewind.
RecoverRewind(i) ==
  /\ Checkable(i)
  /\ LET s == server_snapshots[i].values
         j == CheckedFrame(i)
         c == client_snapshots[j].values
         nodes == NodesToRecover(s, c)
         left == SubSeq(client_snapshots, j + 1, Len(client_snapshots))
         r == Rewind(Reset(s, nodes), After(frames_snapshot, server_snapshots[i].input_id),
                     left, nodes, RecoverController(s, c))
     IN  /\ NeedRewind(s, c) /= {}
         /\ value' = r.value
         /\ var_values' = r.cached
         /\ end_sync' = EndSync(r.events)
         /\ Checked(i, r.snapshots)

\* It does not, or only in variables that skip the rewind: __pcr__sync_no_rewind.
RecoverNoRewind(i) ==
  /\ Checkable(i)
  /\ LET s == server_snapshots[i].values
         j == CheckedFrame(i)
         c == client_snapshots[j].values
         set == DifferentVars(s, c)
         left == SubSeq(client_snapshots, j + 1, Len(client_snapshots))
     IN  /\ NeedRewind(s, c) = {}
         /\ value' = [v \in Vars |-> IF v \in set THEN s[v] ELSE value[v]]
         /\ var_values' = [v \in Vars |-> IF v \in set THEN s[v] ELSE var_values[v]]
         /\ end_sync' = EndSync([v \in set |-> var_values[v]])
         /\ Checked(i,
              IF left = <<>> THEN left
              ELSE [left EXCEPT ![Len(left)].values =
                      [v \in Vars |-> IF NodeOf[v] \in Postponed(s, c)
                                        THEN var_values'[v] ELSE @[v]]])

Recover ==
  \/ RecoverNothing
  \/ RecoverPaused
  \/ \E i \in 1 .. Len(server_snapshots) : RecoverRewind(i) \/ RecoverNoRewind(i)

-----------------------------------------------------------------------------
(* The server. *)

\* A tick: the frame k is executed and the state may be notified.  The server departs
\* from the player's frames when k is not the next one: skipped, or executed again
\* for want of it; and when its game changes a variable by itself, in `touched`.
ServerProcess(k, touched, notify) ==
  /\ k \in server_input_id .. Len(made) /\ k > 0
  /\ server_values' = Over(touched, Play(server_values, made[k]))
  /\ strays' = strays + Once(k /= server_input_id + 1) + Once(touched /= Nothing)
  /\ strays' <= MaxStrays
  /\ server_input_id' = k
  /\ notify => Len(states) < MaxStates
  /\ states' = IF notify
                 THEN Append(states, [input_id |-> k,
                                      values |-> [v \in Told |-> server_values'[v]]])
                 ELSE states
  /\ UNCHANGED <<worldVars, gameVars, frameVars, checkVars, in_frame, end_sync, made,
                 base, idle>>

Next ==
  \/ \E deed \in Deeds : SubTickStream(deed)
  \/ \E deed \in Deeds : SubTickIdle(deed.meets)
  \/ ReceiveState
  \/ Recover
  \/ \E n \in Stoppable : StartNodeSync(n) \/ StopNodeSync(n)
  \/ \E n \in Dependable : AddDependency(n) \/ RemoveDependency(n)
  \/ \E k \in Ids, touched \in Touches \cup {Nothing}, notify \in BOOLEAN :
       ServerProcess(k, touched, notify)

Spec == Init /\ [][Next]_vars
-----------------------------------------------------------------------------
(* Properties. *)

IsConsecutive(ids) == \A i \in 1 .. Len(ids) : ids[i] = Len(made) - Len(ids) + i

\* Types; and the frames, the client's snapshots and the inputs made are aligned,
\* so that instant i of a rewind has the input and the snapshot of one frame
\* (networked_controller.cpp:1395, client_synchronizer.cpp:819).
TypeOK ==
  /\ value \in World /\ server_values \in World
  /\ var_values \in [Vars -> Values \cup {Nil}]
  /\ sync_enabled \subseteq Nodes /\ stopped \subseteq Stoppable
  /\ dependency_nodes \subseteq Dependable
  /\ \A n \in dependency_nodes : dependency_nodes_end[n] \in Ids \cup {Never}
  /\ current_input_id \in {Len(made), Len(made) + 1}
  /\ Len(frames_snapshot) <= MaxStorage
  /\ IsConsecutive([i \in 1 .. Len(frames_snapshot) |-> frames_snapshot[i].id])
  /\ IsConsecutive([i \in 1 .. Len(client_snapshots) |-> client_snapshots[i].input_id])
  /\ Len(frames_snapshot) = Len(client_snapshots)
  /\ \A i \in 1 .. Len(frames_snapshot) :
       frames_snapshot[i].input = made[frames_snapshot[i].id].input
  /\ \A i, j \in 1 .. Len(server_snapshots) :
       i < j => server_snapshots[i].input_id < server_snapshots[j].input_id
  /\ last_checked_input \in 0 .. Len(made)
  /\ server_input_id \in 0 .. Len(made)

\* The nodes that have to do with each other: those the controller may read or write.
Family == Own \cup Dependable
Group(v) == IF NodeOf[v] \in Family THEN Family ELSE {NodeOf[v]}
Skipping == {NodeOf[v] : v \in SkipRewinding}

\* The variables the server decides alone: it tells them, a difference in their group
\* rewinds it, the game never stopped the group's sync and no action acts on it.
Decided == {v \in Told : Group(v) \cap (Skipping \cup stopped \cup Targets) = {}}

\* The client's frames always are what the player's inputs make of the last state
\* of the server it used: each stored frame follows from the one before, the first
\* from the state, and the world is the last one (frames after ticks without an
\* input, which no rewind repeats, excepted).  A recovery must therefore rewind all
\* the nodes that had to do with a difference, dependencies that were removed
\* since included, with the right input at each instant
\* (client_synchronizer.cpp:608-684, 837-918, scene_synchronizer.cpp:761-773).
FramesFollowTheServer ==
  LET n == Len(client_snapshots)
      At(i) == IF i = 0 THEN base ELSE client_snapshots[i].values
      Follows(i) == LET id == client_snapshots[i].input_id
                    IN  id \notin idle =>
                          LET played == Play(At(i - 1), made[id])
                          IN  \A v \in Decided : At(i)[v] = played[v]
  IN  /\ \A i \in 1 .. n : Follows(i)
      /\ input_buffers_counter \notin idle => \A v \in Decided : var_values[v] = At(n)[v]

\* The variables whose group is rewound as a whole: a node of the controller that only
\* differs in variables that skip rewinding is rewound without the controller, and
\* twice when the controller is too (client_synchronizer.cpp:633, 648-662).
Whole == {v \in Vars : NodeOf[v] \in Family => Family \cap (Skipping \cup stopped) = {}}

\* The world after the deeds.
Replay(world, deeds) ==
  LET PlayedTo[i \in 0 .. Len(deeds)] ==
        IF i = 0 THEN world ELSE Play(PlayedTo[i - 1], deeds[i])
  IN  PlayedTo[Len(deeds)]

\* A rewind leaves every node it rewinds as the server's state and a full simulation
\* of the frames since make it, the player's actions included: as if nothing but
\* the state had ever been true; and the synchronizer knows it so, except where no
\* state tells of a variable that actions change (client_synchronizer.cpp:783-918).
RewindIsAReplay ==
  [][\A i \in 1 .. Len(server_snapshots) :
       LET s == server_snapshots[i].values
           c == client_snapshots[CheckedFrame(i)].values
           rewound == Rewound(NodesToRecover(s, c))
           start == [v \in Vars |-> IF v \in rewound \cap Told THEN s[v] ELSE value[v]]
           replayed == Replay(start, SubSeq(made, last_checked_input' + 1, Len(made)))
       IN  /\ last_checked_input' /= last_checked_input
           /\ last_checked_input' = server_snapshots[i].input_id
           /\ NeedRewind(s, c) /= {}
           => \A v \in rewound \cap Whole :
                /\ value'[v] = replayed[v]
                /\ v \in Told \/ NodeOf[v] \notin Targets => var_values'[v] = replayed[v]]_vars

\* Whatever a recovery sets and rewinds, END_SYNC tells the listeners the variables
\* that differ after it, each with its value from before, and no others
\* (client_synchronizer.cpp:174-194, 253-261; net_utilities.h:113-115).
EndSyncTellsTheDifference ==
  [][Len(server_snapshots') < Len(server_snapshots) =>
       end_sync' = [v \in {u \in Vars : var_values'[u] /= var_values[u]} |-> var_values[v]]]_vars

\* A recovery neither sets, pulls nor stores a node whose sync is stopped, also when
\* the controller brings it in: the synchronizer and the client's snapshots know of it
\* what they knew, and END_SYNC tells nothing.  Only the controller, played again in
\* the instants, and the actions move it (client_synchronizer.cpp:703, 793, 857, 870,
\* 891, 925, 994).
StoppedNodesAreLeftAlone ==
  [][Len(server_snapshots') < Len(server_snapshots) =>
       \A v \in Vars : NodeOf[v] \notin sync_enabled =>
         /\ var_values'[v] = var_values[v] /\ v \notin DOMAIN end_sync'
         /\ \A i \in DOMAIN client_snapshots', j \in DOMAIN client_snapshots :
              client_snapshots'[i].input_id = client_snapshots[j].input_id =>
                client_snapshots'[i].values[v] = client_snapshots[j].values[v]
         /\ NodeOf[v] \notin Targets /\ (NodeOf[v] \in Own => Controller \notin sync_enabled)
              => value'[v] = value[v]]_vars

===============================================================================
