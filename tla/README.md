# A TLA+ model of the Network Synchronizer

The repository is a module of the Godot engine that keeps a scene the same on a
server and its clients. The server is authoritative; each client predicts the
character it plays and rewinds when the server disagrees. This directory holds
TLA+ modules translated from the source, the TLC configurations that check them,
and TLAPS proofs. Every line number is one of `src/`.

Contents: 1 the system; 2 the modules; 3 the runs; 4 bounds and fairness;
5 proofs; 6 what was found; 7 what is not modelled; 8 the plan.

## 1. The system

One `SceneSynchronizer` per peer owns the tick. It delegates to a
`ServerSynchronizer`, `ClientSynchronizer` or `NoNetSynchronizer`, and each
`NetworkedController` node owns a controller object for the role it has on that
peer. Peers talk through unreliable calls (inputs, doll epochs, actions), which
may be lost, repeated and reordered, and reliable, ordered ones (states, pauses,
control modes, requests). Within a peer everything runs in one thread; messages
arrive between two ticks.

| Component | State | Operations | What makes it correct |
|---|---|---|---|
| Input stream: `PlayerController`, `ServerController` (networked_controller.cpp 630-1071, 1248-1569), the queues of `ClientSynchronizer` (394-685) | frames not confirmed, client and server snapshots, received inputs, current input, `ghost_input_count`, both `streaming_paused` | sub tick (store, send), receive state, recover, receive inputs, fetch, notify state, enable and disable | the server executes what the player made, in order; nothing is forgotten that is still needed; both agree on the pause; progress |
| Doll sync: `ServerController::doll_sync`, `DollController` (1073-1123, 1566-1720) | epoch, timers, peers; past, current, future and paused epoch | send a batch, pause, activate, receive, interpolate | the doll moves forward only; a paused doll accepts no batch, an active one the next |
| Control switch: `set_server_controlled`, `AutonomousServerController`, `reset_controller` | the mode on each peer, the kind of controller | switch, tell, reset | one pilot; modes and states in the order they were sent |
| Net actions: net_action*.cpp, the action functions of both synchronizers | actions, tokens, send counts, missing tokens, frames, snapshots | trigger, send, receive, put off, execute, forget | executed once, in time, and again in a rewind |
| Snapshots: server_synchronizer.cpp 117-170 and 294-523, client_synchronizer.cpp 206-251 and 1025-1406 | change sets, the flags of each peer; ids known to the client, last received snapshot | mark a change, send a full or delta state, parse, ask for a full one, enable | a client has of each variable what the server had in the last state, and gets what it could not use |
| Recovery: client_synchronizer.cpp 516-1023 | postponed recoveries, end of sync events | compare, rewind, set | after a recovery the client has the server's values |
| Registry: scene_synchronizer.cpp 277-719, 1020-1144, 1364-1478 | nodes, ids, variables, controlled nodes, dependencies | register, remove, own, clear | ids, back references and peers stay consistent |
| Change events: scene_synchronizer.cpp 1258-1362 | the flag of the open batch, listeners | begin, add, flush | a listener is called once in a batch that changed what it watches, with the old values noted last |
| Peers: scene_synchronizer.cpp 1020-1048, 1194-1248 | peer data, the dirty flag | connect, enable, update | each controller learns what its owner and viewers are |
| Tick rate and statistics: `adjust_player_tick_rate`, `calculates_sub_ticks`, `StatisticalRingBuffer` | ring buffers, rates | push, average | running sums are the sums |
| `NoNetSynchronizer`, `NoNetController` | pending actions | process | sequential |
| `DataBuffer`, `BitArray`, `InputNetworkEncoder` | bits, offsets, the inputs of a game and their defaults | write, read, measure, encode, decode, compare | what is read is what was written; sizes are counted as written; equal means the same |
| `SceneDiff` | variables tracked, the differences | start, stop | what changed in between |
| Debugger, registration, docs | - | - | outside the logic |

Interactions: the server's tick makes each controller fetch an input, which
yields a state for its owner and epochs for its viewers. The owner's tick
streams an input, stores a snapshot, and checks the newest state it has. That
check makes `PlayerController` forget inputs and may pause the stream. Actions
are timed by the same input ids. Switching the control mode replaces the
controllers on both sides while all of this is under way.

The hard behaviours: packets lost, repeated and reordered against id comparisons
(`receive_inputs`, `receive_epoch`, `process_received_action`); a pause the two
sides infer separately; queues of the player and of its synchronizer that must
stay the same; resets in the middle of traffic (disabling, switching); limits
(the input storage); a search with a counter that has to end; actions re-timed
after some peer has executed them. `PROJECT.json` lists them as hazards, each
with the properties about it or the reason why there is none; what a reader of one
function sees is in section 6.

## 2. The modules

| Module | Models |
|---|---|
| `InputLog` | what an input stream promises: a log the player appends to, the server walks forward along, and the player releases behind the server |
| `InputStream` | the player, the server and the network between them, in detail |
| `InputStreamMC` | its constants for TLC |
| `InputStream_proofs` | the theorems about it |
| `DollSync`, `DollSyncMC` | a controller's epochs on the server and one viewer's doll |
| `DollSync_proofs` | the theorems about it |
| `ControlSwitch`, `ControlSwitchMC` | the possession of one character, across resets |
| `ControlSwitch_proofs` | the theorems about it |
| `Actions`, `ActionsMC` | actions of a server and several clients |
| `Actions_proofs` | the theorems about it |
| `SceneCopies` | what the snapshots promise a client: a copy of one moment of the server's scene, which goes forward |
| `Snapshots`, `SnapshotsMC` | the changes and states of a scene, from the server to clients that come and go |
| `Snapshots_proofs` | the theorems about it |
| `Recovery`, `RecoveryMC` | the values of a client's frames, and how a state of the server corrects them |
| `Recovery_proofs` | the theorems about it |
| `Registry`, `RegistryMC` | the nodes, ids, links, controllers and peers a synchronizer keeps, through every change of the network |
| `Registry_proofs` | the theorems about it |
| `ChangeEvents`, `ChangeEventsMC` | the listeners of the game and the batches of changes they are told |
| `ChangeEvents_proofs` | the theorems about it |
| `DataBuffer` | values as bits: writing, reading and measuring every type |
| `Encoding`, `EncodingMC` | inputs from the player's `InputNetworkEncoder` through a packet to the server |

Each action of a module is a handler of the code, or one of its paths when the
paths differ much; the map in `PROJECT.json` gives the lines. Variables keep the
names of the code. Operators named in a comment "Mutant of ..." are wrong on
purpose and used by nothing else: each is a plausible slip in the definition that
follows it, and the property listed with it detects it.

`InputStream`. A client frame is any number of sub ticks (`SubTickFull`,
`SubTickPaused`, `SubTickStream`: `PlayerController::process` with
`store_snapshot`), then one `Recover`; states are received only between frames
(`in_frame`). The player's frames are the sequence `frames_snapshot`; the code's
snapshots are their ids. Every packet sent stays in `packets`, so it may be
delivered late, repeatedly or never; with `PacketLoss` it may also vanish, which
matters only to liveness. A tick of the server is one `Fetch...` alternative and,
when `send` is true, the notification of the state. The search of
`fetch_next_input` is the set `Searched` and the choice `IsRecovered`, which is
what its loop computes. An input is a model value; `are_inputs_different` is
taken to be inequality. `__pcr__rewind` also ends in `notify_input_checked`, so
both results of the comparison are the step `RecoverChecked`. Disabling on the
client's side only makes it stutter. `made` is a history variable.

`DollSync`. One viewer. Time is in ticks, `Thresholds` are the sync times that
the rate and its factor give, alpha is in units of 1/`Steps`, and the speed of
the interpolation, a function of the network's quality, is any of `Increments`.
A switch of the control mode makes a new controller (`generation`). The viewer's
synchronizer may be disabled without the server ever noticing, when the game
enables it again before `update_peers` runs: `DisableSync` needs no
`DeactivatePeer`. `newest` and `client_paused` are history variables.

`ControlSwitch`. Reliable messages (modes and states) form one queue; inputs are
a set. The generation an input or a state carries is history: no guard of the
code sees it. The input stream is reduced to the ids.

`Actions`. The frames are the ids of the input stream: `ServerTick` moves any
character to any later input the player made, which covers what `InputStream`
allows. A packet is delivered one action at a time. The code removes an action
that was executed and sent often enough; here it stays, with nothing left to do.
The 2 ms between two sends and the second after which a missing token is given up
are choices (`batch`, `Cleaned`). `SendToClients` keeps the batch as the code
encodes it (server_synchronizer.cpp 654): a peer that one action is meant for
gets all of the batch.

`Snapshots`. A node and a variable are their ids; `names` and `path` say whether
a state tells them. `Clients` are the peers followed in detail; the others are the
`Crowd`: while there is one the notifier runs, and clears the changes, whether or not
a followed client is connected. `notify_state` is the timer of the notifier; a forced
notification goes to the peers with `force_notify_snapshot` and leaves `changes`
alone. A node is the scene's or a character of `Owner`; a peer is sent the values
of the scene's nodes and of its own character, and only the path of the other
characters. The variables of a node are registered in one order on all peers, and
once. What the client skips is `Found` and `Understood`: the node is not there, an
id is unknown. `need_full_snapshot_notified` is reset by each state, so a state
causes at most one request. Reliable calls to one client are a queue, which is
lost when it disconnects. `heard`, `gap` and the `scene` of a call are history
variables: no guard sees them.

`SceneCopies` is what `Snapshots` implements. It has no ids, names, paths, changes,
requests or peers: the server's scene (`values`), the moments of it that each client is
going to be told (`coming`, the `Moments` of the calls on their way), the one its copy
is of (`heard`), the copy (`last_received_snapshot`) and the nodes the client has
(`in_tree`). A copy may lack values, but none it had is lost while the node exists, and
a call that tells everything leaves no value out of the nodes the client has and
sees.

`Recovery`. The world is a function from variables to values, a variable belongs
to a node, and the functions of the game (`Process`, `Control`, `Act`) are
constant operators. A tick (`Play`) processes every node, then the controller,
then the actions, as client and server do. A node's functions concern that node;
the controller moves what it controls and reads the dependencies it meets; an action
reads and changes what it acts on (`GameAssumption`, `ReadsAssumption`). The
game of `RecoveryMC` has the controller (`body`, with an `aim` the server does not
know), what it controls (`arm`, whose sync the game stops and starts), a dependency
(`door`), a node that actions act on (`lamp`, with a variable that skips rewinds) and one
that has to do with no other (`bird`). The order of the functions matters there: the position depends on the
door, the arm on the new position.

The packets of `InputStream` are reduced to what they lead to: the server executes
the frames in order, or departs from them by skipping some, repeating one or
changing a variable by itself (`strays` counts these). `frames_snapshot` and
`client_snapshots` are the two queues of the code, kept by different functions;
`TypeOK` says that they stay aligned. `base` (the world of the last state used),
`made`, `idle` (frames that a tick without a stored input came before), `stopped` (the
nodes the game ever stopped synchronizing) and `strays` are history. `Reset`, `Instant`, `Rewind` are `__pcr__sync_pre_rewind`, the
body of the loop of `__pcr__rewind`, and that loop; `nodes` gives how often a node
is in `nodes_to_recover`. What the modified variables were before is collected as
the code does (`Noted`), and told at the end (`EndSync`). `From` is what is left of a
queue when the frames before a place are popped, `Over` a map on top of another. `Purge` follows every
recovery, as `purge_node_dependencies` follows `process`. The branch for a state
without an input (client_synchronizer.cpp 534-542) is left out: while there is a
player's controller such states are not stored (464), and a reset of the
controller clears those of before (263-285).

`Registry`. One instance, whose whole state is the record `scene`, so that the
helpers of the code, which call each other, are operators from a scene to a scene
(`Register`, `Drop`, `Clear`, `ResetMode`, `ResetController`) and an action applies
the one the game, the engine or a message calls; the loops of `clear` and
`reset_controllers` are recursive functions of the place in the list. A network is one the game joins:
it decides what the instance is there (`Kind`), which peer it is (`Me`) and, for a
client, which nodes the server's ids name (`ServerIds`). Nodes are registered
while it is alone, a server, a client or out of the tree, and stay registered
through a change. The mode changes at the next tick, when `process` finds another
interface. `Drop` empties the slot of an id and never gives it again; `DroppedByClear`
has the indexes `clear` gets to. `skipped` and `renamed` are history (see 3).

`ChangeEvents`. A listener is a method of an object of its own; variables name
listeners by index and listeners name variables, and the two directions are kept by
different functions. A batch is `ChangeEventsBegin`, some `ChangeEventAdd`,
`FlushBegins`, a `FlushNext` for each listener, `FlushEnds`; a call gives the game
`MaxCalls` operations before the loop goes on. `clear` empties `event_listener`
inside the loop, as in the code, and the loop ends. `IsChange` is what each kind of
batch notes: pulled variables and those of END_SYNC are compared, those a reset sets
are noted changed or not. `noted` (what was noted and not told yet), `heard`, `called`,
`passed` and `last_call` are history.

`DataBuffer`. A buffer is a record of its bits and cursors. Each `add_` and `read_`
is the sequence of its fields and their widths (`Fields`, `Widths`, `Value`);
`Returned` is what `add_` returns, and `ReadSize` what `read_..._size` skips. A real
is an integer in units of 1/`Unit`, rounded as `add_real` rounds it; a number of the
unit interval and an angle are in units of 1/`Grain` and are read as their codes.
The memory that a growing array gets has either content (`fresh`).

`Encoding`. The game registers inputs, then each frame collects arguments, which may
be missing, of another type or the default, into the one buffer the node keeps. The
frames are packed as `send_frame_input_buffer_to_server` does, and the server
counts the size of each input, as no size travels. It is `InputStream` without ids
and loss: what `InputStream` takes for granted of an input, that its content
arrives, is what this module is about. `made` and `sent_as` are history.

## 3. The runs

| Run | Result | What it shows |
|---|---|---|
| `input_stream_safety` | holds | inputs, storage, pause and states stay in agreement with every packet repeatable, states delayed and the peer toggled; `InputStream` implements `InputLog` |
| `input_stream_liveness` | holds | a received input is always consumed; a full storage drains while the packet of its newest input is not lost |
| `doll_sync` | holds | the doll never goes back, accepts no batch from before a pause, and accepts the first one after it |
| `control_switch` | holds | an owner that plays while the server does is about to be told: there are never two pilots for good |
| `actions` | holds | an action is issued once, executed once, never found late, and replayed by a rewind in its frame |
| `actions_rewind` | violated | an action that is early at a client is lost by a rewind |
| `snapshots` | holds | `Snapshots` implements `SceneCopies`: the client has a copy of one moment of the server's scene, which goes forward; nothing is untold, gaps are answered, and enabling starts with a full state |
| `recovery` | holds | frames follow from the server's last state used, a rewind is a replay, END_SYNC tells the difference, stopped nodes are left alone, also those of the controller |
| `registry` | holds | ids name the nodes, links are mutual, peers are served by their controllers, and controllers fit the network |
| `change_events` | holds | variables and listeners name each other, and a flush calls each listener it has something for, once, with the old values noted last and not told |
| `encoding` | holds | the server finds in a packet the inputs the player put there, with the values the player's game got back |
| `encoding_duplicates` | violated | different inputs of one size are sent as duplicates |

The properties, with the code they are about, are stated above their definitions.
Some need a word here:

- `AssertionsHold` is the conjunction of `StoredAhead`, `SnapshotsFollowFrames` and
  `StatesInOrder`. It is why the `CRASH_COND`s at the end of `receive_inputs` and
  `fetch_next_input`, those of the recovery (548, 582-606) and the refusal in
  `store_controllers_snapshot` (487) are unreachable. `ForgottenArePassed`, which
  `ImplementsLog` contains, is proved by itself.
- `PauseAgreed` is what makes the silence of a paused player mean void inputs.
- `OnlySimilarInputsAreDropped` is the promise of the long comment in
  `fetch_next_input` (957-972).
- `NewestIsTakenUnswitched` and `PausedDollTakesNoBatch` are the two sides of a pause:
  it must be long enough and not too long. Both exclude a pause that the viewer
  made itself (`client_paused`). They are about what `receive_epoch` accepts, and not
  about the data, which it copies first (see 6).
- `NeverGoesBack` also says that the interpolation starts behind its end.
- `OnePilot` forbids two pilots for good and not none: the owner may be left with a
  doll, and then refuses every mode (see 6, the switch back). So only the first mode
  that it reads ever makes it anything else.
- `ExecutedOnce` is about one token of the server. The echo of a client's own
  action (line 654) has a token of the server and counts as another one.
- In `actions` the game registers an action as one that clients may trigger on
  the clients and not on the server: the server's test (server_synchronizer.cpp
  219) is inverted, so a server that agrees with its clients refuses them all
  (`RejectAction`). With this registration the rest of the protocol runs.
- `ImplementsCopies` is the comment in `receive_snapshot` (client_synchronizer.cpp
  207-213) made exact: the increments put together are one scene of the server, never
  a mixture of two and never an earlier one than before. It implies
  `SnapshotIsTheServers`, which is proved and in no run.
- Neither says that the client has all the values, which is promised only after a full
  state: a node that is not there yet is skipped on purpose (1136), which may leave a
  hole for long (see 6). `GapsAreAnswered` is about the other gaps, those of unknown
  ids (1125, 1260).
- `IdsComeWithValues`, which is proved and not listed in a run, is why a delta cannot
  leave a hole that nobody notices: a client that knows an id, and so asks for
  nothing, has a value.
- `FramesFollowTheServer` is about the variables the server decides alone
  (`Decided`). It tells them; and nothing that they have to do with (`Group`: for the
  controller's nodes and dependencies all of these, else the node itself) has a
  variable that skips rewinds, was ever stopped or is acted on. Frames after a tick
  without a stored input are excepted, because no rewind repeats such a tick. The
  property is what the postponed removal of dependencies is for
  (scene_synchronizer.cpp 767-771). In `RecoveryMC` it is about the position, the arm
  and the door.
- `RewindIsAReplay` compares the nodes a rewind rewinds with a full simulation of
  all the nodes, so it says that nothing they depend on was left out. It is about the
  variables that are rewound together with what they have to do with (`Whole`), which
  those of the controller are unless one of its nodes or dependencies skips rewinds or
  was ever stopped. Each action is replayed too, also on nodes that are not rewound; the
  property is silent on those, and on what the synchronizer knows of an untold
  variable that actions change (see 6).
- `StoppedNodesAreLeftAlone` lets a stopped node move in a rewind only as the code does:
  by the controller, played again in each instant, and by actions. The code does not tell
  the synchronizer (see 6).
- `IdsNameTheNodes` stops at the first node of a client that is given a second id
  (`renamed`): `set_node_data_id` leaves the node in its old slot (see 6). The server
  does this by dropping a node and registering it again while the client keeps it.
- `LinksAreMutual` says that only registered controllers have a synchronizer, except
  those a `clear` stepped over (`skipped`, see 6).
- `PeersAreServed` and `ControllersFitTheMode` hold when a tick has come since the
  last change (`peer_dirty`, `Settled`): what the delay of `update_peers` is for.
  A peer with several controllers has one of them, and only that is enabled with it.
- `ChangesAreTold` says what the code tells, which is not what the comment in
  scene_synchronizer.cpp 1348 promises: of a variable with a note that no argument told
  it tells that note, in whatever batch it was made (see 6), and the present value only
  of one without. Every listener that something was noted for is called in the flush of
  that batch, but for those whose object is found freed and those with more arguments
  than variables.
- `InputsArriveAsMade` compares with what the encoder returns to the player's own
  game, so compression may lose precision and must lose the same on both sides. It
  compares an input with the one it is sent as: `DuplicatesAreTheSame` says, and the
  code fails to ensure, that the two are equal.

## 4. Bounds and fairness

| Run | Bounds | Why they are enough |
|---|---|---|
| `input_stream_safety` | 4 inputs of 3 contents, storage 3, 1 redundant input, 1 state in flight | the storage fills, drains and fills again; a gap with two inputs behind it; a pause and a resumption; an input like and one unlike the executed one |
| `input_stream_liveness` | 3 inputs of 2 contents, storage 2, no redundancy, the peer toggled, ghost count up to 3 | a gap, and a storage that is full with some of it lost; 3 is more than any gap, so that saturation changes nothing |
| `doll_sync` | 3 epochs, 1 switch, 1 pause in flight, alpha in halves with an overshot of 1/2 | a late, an old and a new batch at once, on both sides of a pause or switch |
| `control_switch` | 3 switches, 3 inputs, 4 messages | there, back and there again, with states of two controllers in the queue |
| `actions*` | 2 clients, one of which triggers; 1 action of a client and 2 of the server (1 in the violated run); 2 frames | an action before, at and after its frame; a missing and a late token; the client that does not play has no frames yet in `actions` |
| `snapshots` | 1 client and a crowd, a node of 2 variables that the client may lose and load again, a character of another peer, 2 values, 2 calls to the client and 1 request on their way | a delta about one variable of two, a forced notification between two of everyone, a request that crosses a state and a change of the peer's status. The clients do not meet except in `changes`, where the crowd stands for the others |
| `recovery` | 7 variables of 5 nodes modulo 3, 3 frames of 2 deeds, storage 3, 1 state in flight, 1 departure of the server, 5 variables it may change; the sync of the controlled node stops and starts | a state of the first frame rewinds the two after it; a dependency met in one frame and removed in the next; a full storage, a pause; a difference in each kind of variable; a stopped node that the controller brings into a rewind. After one departure the state that tells of it is used while later ones may be in the queue |
| `registry` | 2 controllers (the host's and a peer's) and another node, 2 peers, 3 ids, 3 networks (alone, host, join), 2 changes of network | a controller dropped and registered again under another id while its peer is connected, disabled or gone; there and back between giving ids and learning them; a server that names one node by two ids |
| `change_events` | 2 variables of one node and one of another, 2 values, a listener with 1 argument and one with 2, 4 kinds of batches, 1 operation in each callback | a listener with too many and with too few arguments, variables removed in and out of order, an index that is freed before and after the listener's turn |
| `encoding*` | encoders of up to 2 inputs, from 12 that cover the types (a Variant comes last), 2 frames, 1/1024 and 1/60 | an input behind one of any size, in a buffer that held a longer or shorter one; values at the ends of a type, beyond them, rounded, negative. `encoding_duplicates` has two inputs of one type |

The bounds appear in guards (`MaxInputs`, `MaxStates`, `MaxGhost`, `MaxEpoch`,
`MaxSwitches`, `MaxPauses`, `MaxMessages`, `MaxRequests`, `MaxFrames`, `MaxOwn`,
`MaxServerOwn`, `MaxInput`, `MaxStrays`, `MaxIds`, `MaxNetworks`, `MaxCalls` and, in `SubTickIdle`, one tick without an
input between two frames) and nowhere else. The theorems hold for every value of
those of their modules. `snapshots` and `change_events` declare
the two values symmetric: nothing distinguishes them, and their temporal properties
are about single steps.

Only the configurations of `Encoding` turn the deadlock check off: once the packet
is received nothing is left to do. Every other module has a step that remains
possible when its bounds are reached.

Fairness is used by `InputStream` only:

- the server's process runs every frame: `WF` of `ServerProcess`. It runs the
  notifier at an interval (`server_notify_state_interval`), so a notification is
  possible again and again and happens: `SF` of `ServerProcess(TRUE)`;
- the client's process ends each frame with the recovery: `WF` of `Recover`;
- reliable messages arrive. Reception is possible only between two frames: `SF`
  of `ReceiveState`;
- the unreliable transport delivers a packet that it does not lose: `SF` of the
  delivery of the packets that end in one id. Losing a packet disables it.

Nothing obliges the player to make inputs, the game to toggle peers or the
network to spare a packet. `StorageDrainsUnlessLost` ends its promise when the
newest packet is lost or the peer is disabled: the code promises no more (see 6).

## 5. Proofs

Every theorem is about the specification of its module, for all values of the
constants that satisfy the assumptions named there; the runs show the same
properties on small instances. Each module has one invariant `IInv`, which holds
initially and is kept by every step, and whose parts imply the properties. What follows
says what must be added to the properties, and why.

| Module | Theorem | Property |
|---|---|---|
| `InputStream_proofs` | `TypeCorrect` | `TypeOK` |
| | `GenuineInputs` | `ServerInputsAreThePlayers` |
| | `AssertionsNeverFail` | `AssertionsHold` |
| | `NothingForgottenEarly` | `ForgottenArePassed` (in no run) |
| | `PausesAgree` | `PauseAgreed` |
| | `DropsAreSimilar` | `OnlySimilarInputsAreDropped` |
| | `StreamImplementsLog` | `ImplementsLog` |
| `Snapshots_proofs` | `SnapshotTypes` | `TypeOK` |
| | `KnownIdsHaveValues` | `IdsComeWithValues` (in no run) |
| | `ClientsHaveTheServersValues` | `SnapshotIsTheServers` (in no run) |
| | `ChangesHoldWhatIsUntold` | `NothingIsUntold` |
| | `GapsGetAnswered` | `GapsAreAnswered` |
| | `EnablingStartsFull` | `StartsWithEverything` |
| | `SnapshotsImplementCopies` | `ImplementsCopies` |
| `ControlSwitch_proofs` | `TypeCorrect` | `TypeOK` |
| | `MessagesInOrder` | `MessagesAreChained`, `OwnerIsTold` (in no run) |
| | `CharacterHasOnePilot` | `OnePilot` |
| `DollSync_proofs` | `TypeCorrect` | `TypeOK` |
| | `DollGoesForward` | `NeverGoesBack` |
| | `LateBatchesAreRefused` | `PausedDollTakesNoBatch` |
| | `NewestBatchMovesTheDoll` | `NewestIsTakenUnswitched` |
| `Actions_proofs` | `TypeCorrect` | `TypeOK` |
| | `ActionsAreIssuedOnce` | `IssuedOnce` |
| | `ActionsRunOnce` | `ExecutedOnce` |
| | `ServerIsNeverTooLate` | `NeverTooLate` |
| | `RewindsReplayOwnActions` | `OwnIsReplayed` |
| `ChangeEvents_proofs` | `TypeCorrect` | `TypeOK` |
| | `WatchersAndVariablesAgree` | `WatchersAgree` |
| | `ListenersHearOfChanges` | `ChangesAreTold` |
| `Recovery_proofs` | `TypeCorrect` | `TypeOK` |
| | `EndSyncIsExact` | `EndSyncTellsTheDifference` |
| | `StoppedNodesStay` | `StoppedNodesAreLeftAlone` |
| | `FramesFollow` | `FramesFollowTheServer` |
| | `RewindsAreReplays` | `RewindIsAReplay` |
| `Registry_proofs` | `TypeCorrect` | `TypeOK` |
| | `IdsNameTheirNodes` | `IdsNameTheNodes` |
| | `LinksStayMutual` | `LinksAreMutual` |
| | `EveryPeerIsServed` | `PeersAreServed` |
| | `ControllersFit` | `ControllersFitTheMode` |

`InputStream`, for every set of inputs, storage size, redundancy and bound, whichever
of loss and toggling is allowed; `Void` is an input, the storage is not empty.

- What arrives must be genuine, so every packet on its way is too
  (`PacketsMade`), and so are the frames packets are made of (`FramesMade`,
  `MadeCounted`);
- what a state releases must have been passed, so no state stored or on its way
  is ahead of the server (`StatesPassed`, `ReleasedPassed`, `PositionMade`), and
  the states are sorted (`StatesSorted`);
- the pause. The player pauses when the frame confirmed is void and all later
  frames are. For the server to have paused too, every state whose input has
  only void inputs from it on (`Quiet`) must have been notified by a server that
  is paused now (`QuietStatesPause`): notifying a void input pauses the server,
  and only an input that is not void resumes it, which ends the quiet.
  `PausedIsQuiet` carries that to the player: while it is paused nothing but
  void follows the server's position.

For the refinement, `log` is `made`, `position` the server's input id and
`released` the inputs the player no longer stores. A streamed input is
`Produce`, a checked one `Release`, a fetch that moves is `Advance`, all else
stutters (`LogStepHolds`).

`Snapshots`, for any clients, crowd, nodes, owners, variables, values and bounds, and
any nodes loaded and peers toggled by the game; `Unset` is not a value. A delta is
right only for a client that has what came before, so the invariant is about the whole
way from the server to the client:

- each state on its way carries values of its scene (`IsExact`) and all that
  differs from the scene of the call before it, or of the last one received
  (`IsComplete`): the queue is a chain (`CallsAreChained`; `QueueAppend`,
  `QueueTail`). `NothingIsUntold` is what makes the next state continue it
  (`StateContinues`), and the checkpoint, which clears `changes` only when all
  enabled peers were notified, is what keeps `NothingIsUntold` (`UntoldStep`);
- the client knows the ids of just the variables it has values of
  (`IdsAreValues`). So the value of an id it does not know, which it skips, is
  one that it does not have and that cannot become old, and a value a state does
  not mention is the one of its scene (`KeptStep`);
- for `StartsWithEverything`, `EnablingIsFull` says that after each status on its
  way, and for a client that waits to be enabled, the next state is full: it is on
  its way or `need_full_snapshot` is set;
- for the refinement a full state on its way must have the path of every node it could
  show, with all the variables of its scene and their names (`FullStatesAreWhole`).
  Then a client finds the nodes it has and understands all of them (`StateIsTaken`).
  A state received is `Take`, and so is a status; a notification is `Show`, with the
  clients it is full for (`StatesAreShown`); a status sent is `Call`, of the moment told
  last; `RegisterVariable` and `ChangeVariable` are `Change`, a node that comes or goes
  `Load` and `Unload`, a disconnection `Leave`, and all else stutters
  (`CopiesStepHolds`).

`ControlSwitch`, for any number of switches, inputs and messages. The reliable
messages are a chain: each state is of the controller that the message before it is
about, the first of the one the owner's last reset followed, and the last is of the
server's present one (`MessagesAreChained`). So the mode of a new controller is read
before any of its states. The last mode on its way says who is in control
(`OwnerIsTold`). `OnePilot` is inductive: the mode that takes the character from the owner
is sent with the switch, moves up in the queue, and is read by a player, which obeys it.

`DollSync`, for any thresholds, steps of the interpolation, increments and overshot.
Three arguments that do not depend on one another:

- what the doll reports is the rounded epoch of its alpha, which is monotone in alpha
  because the past epoch is before the future one, or both are 0 (`Interpolates`);
- the last pause on its way, or the one that arrived last, is not before any batch of
  its controller (`PauseCoversBatches`, with `BatchesAreSent`);
- before any switch epochs only grow, so the batch sent last is after every pause and
  not before any batch (`FirstEpochsAreOrdered`). A switch breaks just this one.

`Actions`, for any finite set of clients, actions, delays and bounds. The clients are
finitely many because the actions are counted: the server's tokens number what it
triggered and what it took from each client, so their bound in `TypeOK` is a sum.

- What a receiver knows it knows for good, and what it takes it did not know
  (`InfosAreOrdered`, `ActionsAreKnown`, `HeardAreKnown`): issued once, executed once;
- the server's next frame of a character is the one after the last it executed and
  never after the client's (`NextFollows`), so an action that waits has its frame to
  come;
- an action that is put off is put off to a later frame than the client's, which the
  client has executed (`AcceptedAreOwn`, `RanAreOwn`, `SentAreOwn`,
  `FramesAreLatest`): its record is where the rewind looks for it.

`ChangeEvents`, for any variables, listeners, events, trackings and values.
`WatchersAgree` needs lists without repetition, which `TypeOK` has. For `ChangesAreTold`
the old values that the listeners keep are those noted and not told, one for one
(`OldValuesAreNoted`), through every change of the lists; a listener that is not
`emitted` was heard of in this batch, and one heard of is not `emitted` until its turn
(`HeardWait`), which comes as the flush goes through them in order (`FlushIsOrdered`).
Only a listener found freed loses what was noted, and it watches nothing any more
(`NobodyWatches`).

`Recovery`, for any world, functions of the game, inputs, deeds, states and bounds.
`GameAssumption` says what the game's functions may change: they make worlds of worlds, a
controller changes its own node and those it controls, an action its targets. Any node may
be stopped, the controller included. `ReadsAssumption` says what they read: a node's functions the
node, the controller its nodes and the dependencies it meets, an action the node it
acts on, and for what the server tells nothing that it does not tell. The code
can check neither; the second is what dependencies are declared for
(scene_synchronizer.cpp 721-774), and without it no rewind of a part of the scene could
be right. The first three theorems do not use it.

`Aligned` is the heart of those: the player's queue and the client's are of the same last
frames made, so instant i of a rewind has the input and the snapshot of one frame, and
the `CRASH_COND`s of the rewind are unreachable. For `EndSyncTellsTheDifference` each
instant keeps, of every variable changed so far, its first old value (`Noted` over the
recursive `Rewind`); for `StoppedNodesAreLeftAlone` no instant pulls or stores a variable
whose node is not synchronized, and none moves it but by the controller and the actions
(`KeepsTheStopped`, `Rests`).

The other two need `FollowInv`, which adds to `IInv` the following. They are about groups
of which no node was ever stopped (`StoppingShrinks`): a node that is left out of one
rewind is behind its group from then on.

- a stored frame and its snapshot have what the player did in it (`StoredAsMade`), and
  the stored frames are just those after the last that was checked
  (`StoredSinceChecked`), so a rewind walks all the frames since the state;
- what a stored frame met is a dependency still (`DependenciesAreKept`): a removed one
  keeps the id of the frame it was removed in, and `Purge` keeps it while that frame is
  stored;
- the synchronizer knows the world (`KnowsTheWorld`): a rewind stores in the snapshots
  what it knows, and `pull_node_changes` looks only at what differs from it;
- the frames are a chain from the state on (`FrameFollows`), and the world is its end
  (`LastIsCurrent`).

A recovery cuts the chain at the frame checked and puts the state at its start. What is
rewound and what is left are then two closed parts of the world: what reaches (is read
for) a decided or whole variable that is rewound is rewound as often, by
`DependenciesAreKept` and because the controller's nodes go together
(`RewoundIsClosed`); what reaches one that is left is left, and agrees in the state and
the frame checked (`LeftIsClosed`, `LeftWithoutController`). So `PlayReads` makes an
instant of a rewind equal to a tick of the whole world on the first part
(`InstantPlays`), and leaves the frames of the second standing (`LeftFollows`). That the
rewind is a replay follows by induction on the instants (`RewindReplays`).

`Registry`, for any nodes, controllers, owners, peers and networks. It assumes what the
code says, one player controller for each client, and for the bound of the ids that the
nodes are finitely many and no more than the ids (one change of the mode gives an id to
every node). Every operator of the scene is shown to keep `Good(scene, network)`, which
is `Sound`, about the scene alone, and three parts about the network:

- the lists have no node twice, and the controllers listed are the registered ones
  (`Lists`): without it `drop_node_data`, which erases one entry, might leave another;
- `Named`, `Numbered` and `Slotted`: ids and slots name each other, also in the states
  between two networks, because `reset_synchronizer_mode` gives all the ids anew;
- `Mutual`, `Linked`, `Owned`: the links, kept by `drop_node_data` on both sides;
- `Known`: controllers send to known peers only, and the player is listed;
- `Modes`: what the synchronizer is, is what the network it was chosen for asks;
- `ServedOn` and `FitOn`, the two properties about the network, relative to that
  network. Only the owner of a character plays it (`Fit`), so with one player to a
  client a controller that is reset cannot be a second one.

Induction. The provers cannot use the induction theorems whose parameter is an
operator. A loop that the model writes as a recursive function is proved with
`NatSetInduction`: a set of numbers with 0, and with n + 1 when it has n, has them
all, since the naturals are well-founded. So what holds after every step of
`Rewind`, `Replay`, `Clear`, `ResetControllers` and `WithoutFirst` is proved for lists of any
length. No module declares a `RECURSIVE` operator.

Only model-checked, and why:

- liveness: under fairness, with `ENABLED`, the prover has no rule that applies here;
- `DataBuffer` and `Encoding`: their content is arithmetic of bits, with sums and
  powers over sequences given by folds, which take an operator;
- the findings, which are counterexamples.

## 6. What was found

Two runs state what the repository says and find a behaviour of the code against it
(`findings` in `PROJECT.json` quotes the lines).

1. `actions_rewind`: an action that reaches a client before its frame is recorded in
   no snapshot (client_synchronizer.cpp 339 and 451), so a rewind of the frame loses
   it.
2. `encoding_duplicates`: when only one of two inputs has the default,
   `are_different` reads a value from both (input_network_encoder.cpp 227-277), so
   two different inputs of one size may be sent as one.

Met while modelling. The models have these steps, and TLC finds each for a property
that excludes it; the properties of the runs leave them aside:

- a player whose storage is full sends nothing (networked_controller.cpp 1297), so
  when the last packets are lost neither side moves again;
- a viewer's doll keeps its epochs when the control mode is switched, while the new
  `ServerController` starts at 0 (181);
- the data of a batch that is refused are shown: `receive_epoch` copies a batch into the
  future buffer (networked_controller.cpp 1612) before it looks whether the batch is late,
  and `process` (1588-1599) interpolates between the past buffer and that one. So a doll
  that got its pause moves with a batch that arrives behind it, though the epoch is to be
  discarded ("so just discard this received epoch", 1619-1620), and any doll with a batch
  older than the one it has;
- the owner of a server controlled character is a doll and refuses the switch back
  (555). A player's controller is therefore never made again by a switch, and the frames
  of a new one are never next to states of an old one;
- an input of the player that is still on its way when the server took the character
  and gave it back is executed by the new `ServerController`, for which no input is old
  (`packets` in `ControlSwitch`);
- a node of the controller that differs only in variables that skip rewinds is postponed
  (client_synchronizer.cpp 633, 648-662). When another node rewinds, it is rewound without
  the controller, whose effect on it is lost in each instant; when the controller is
  rewound too, it is pushed twice into the nodes to recover, and its functions run twice;
- `__pcr__sync_no_rewind` writes the values of the postponed nodes into the last snapshot
  (957-971) as they are now, which after a tick without a stored input is later than the
  frame of that snapshot;
- a node of the controller whose sync is stopped is not set in a rewind (793) and moved by
  the controller in every instant of it (874), so it drifts away from where it was;
- a rewind executes the actions of each instant also on nodes that it does not
  rewind (883). What they change there the synchronizer pulls at the next tick only, and
  a rewind in between, with no frame left to replay, leaves a variable that no
  state tells as it was known before. This came up in the proof of `RewindsAreReplays`:
  it takes two states used in a row, more departures than the run has;
- what a state says of a node the client does not have yet is skipped without asking
  for it (1136). The client remembers the path, so when the game has made the node, the
  next change of it is understood if it names a newer variable: nothing is asked for,
  and the older variables stay without a value until they change (1260). This came up
  in the proof of `SnapshotsImplementCopies`, which promises all the values after a full
  state only;
- a client's node that is given a second id stays in its old slot
  (scene_synchronizer.cpp 1480-1490). When it is dropped, only the slot of its last id
  is emptied, and `store_snapshot` reads the freed node there (client_synchronizer.cpp
  408-413);
- `clear` erases from the list it walks (scene_synchronizer.cpp 1127), so it drops
  every second node. The others are forgotten: a controller keeps its synchronizer
  and is refused when it is registered again (289-291);
- an old value that is noted and not told, beyond the method's arguments or of a
  "broken" listener (1339), is told in a later batch, when arguments reach it, as the
  old value of a variable that did not change in it: the comment in 1348 says that such
  a variable is told with its current one;
- a reset notes every variable it sets (client_synchronizer.cpp 824, 952), so a listener
  of SYNC_RECOVER or SYNC_RESET is called when nothing changed; and a variable that is
  noted twice in a batch is told with the second old value, which after a reset of a
  node that is twice in the list (632-663) is the value just set.

Seen by reading one function; the models follow the code where they reach it:

- the server's test of `can_client_trigger` is inverted (server_synchronizer.cpp
  219), and an action without an input of its reference peer is dropped on the server
  and executed by the clients (561);
- the list that is encoded (654) holds the actions meant for others, and actions are
  re-sent only with other traffic (291);
- a client's own pause may lower `paused_epoch` (networked_controller.cpp 622);
  `mark_epoch_as_important` called while the epoch is collected
  is reset before the peers not due were asked (1122);
- the index of the variable in `parse_sync_data` (client_synchronizer.cpp 1234);
- while the stream is paused variables the server does not tell become Nil in the
  synchronizer (1008);
- END_SYNC events keep pointers to nodes that may be dropped before they are told
  (client_synchronizer.cpp 179, 254);
- `set_node_as_controlled_by` leaves the old controller before it checks the new one
  (scene_synchronizer.cpp 690-698), a dependency may become controlled afterwards,
  and the second controller of a disabled peer stays enabled (1206-1238);
- an owner whose character the server plays gets no batches of it (`activate_peer`, 754,
  leaves the owner out), its synchronizer processes nothing without a player's
  controller (client_synchronizer.cpp 69), and the states it receives with the id of an
  input pile up in `server_snapshots` (491), which nothing pops;
- the peers are kept through a change of the network (1054), as the engine drops its
  connections without a signal;
- a level 3 real whose magnitude rounds to 4 or more overflows the exponent, whose
  bias is 13 (data_buffer.cpp 381), and is read as nearly 0; `read_variant_size` does
  not count the padding in front of a Variant (966), so only a Variant at the end of
  an input is measured well enough;
- a Variant input with a boolean default is encoded as a boolean and decoded as a
  Variant.

## 7. What is not modelled

- In `Snapshots`: nodes and variables that the server unregisters or registers
  again, a node that is given to another controller, variables in another order
  on the client, and the parser's use by `SceneDiff`.
- In `Recovery`: nodes and variables that come and go, the other players' dolls
  (which no recovery touches), values that are only nearly equal (`compare` is
  equality), and game functions that read other nodes than they own and meet.
- In `Registry`: variables, whose ids follow the node's (`Snapshots` and
  `ChangeEvents` have them), the queues that a reset of a controller clears
  (`ControlSwitch`), and signals of the engine at other moments than between two
  ticks.
- In `DataBuffer` and `Encoding`: the `skip_` functions, `zero`, copies and bindings;
  reals of the levels 0 and 1, which are written down and need more than TLC's 32
  bits; the reals beyond a level's range that 6 tells of; a Variant before another
  input; booleans as defaults of other types; the tolerance of comparisons, which is
  below the step of each level.
- The tick rate and `StatisticalRingBuffer`: a heuristic over real numbers that
  decides how often a peer ticks. The models allow every speed.
- `NoNetSynchronizer`, `NoNetController`: each tick executes the pending actions and
  one input, in order; `Registry` has their kinds.
- `SceneDiff`: a sequential comparison of variables for the data of a doll.
- Wrap-around of the 32 bit ids: it takes years at 60 inputs per second.
- The engine: its reliable calls are queues and its unreliable ones sets.
- The debugger, registration and documentation: no logic of the system.

## 8. Plan

Order by importance. Done: `InputLog`, `InputStream` with its proofs,
`DollSync`, `ControlSwitch`, `Actions`, `SceneCopies`, `Snapshots`, `Recovery`, `Registry` and
`ChangeEvents` with their proofs, `DataBuffer`, `Encoding`.

1. Proofs: for `Encoding`, that a field read with the width it was written with has its
   value.
2. To `Snapshots`: variables registered again, a node given to another controller, the
   liveness of the request of a full state.
3. Algorithms: `StatisticalRingBuffer` (running sum against sum).
4. `NoNetSynchronizer`, `SceneDiff`.

The number of runs is kept small: a property that a theorem states is dropped from a
run before one that is only model-checked.
