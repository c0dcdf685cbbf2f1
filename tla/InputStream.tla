---------------------------- MODULE InputStream -----------------------------
(***************************************************************************)
(* The input stream of one player: the PlayerController and the part of    *)
(* the ClientSynchronizer that matches snapshots, on the client; the       *)
(* ServerController on the server; the unreliable packets that carry the   *)
(* inputs and the reliable, ordered messages that carry the server's state.*)
(*                                                                         *)
(* The ids of the code are uint32_t with UINT32_MAX for "none"; here "none"*)
(* is NoInput and an id is a natural number.                               *)
(***************************************************************************)
EXTENDS Integers, Sequences, FiniteSets

CONSTANTS
  Inputs,                  \* the contents an input buffer can have
  Void,                    \* the empty one
  PlayerInputStorageSize,  \* player_input_storage_size
  MaxRedundantInputs,      \* max_redundant_inputs
  MaxInputs,               \* bound: inputs the player makes in a behaviour
  MaxStates,               \* bound: state messages in flight
  MaxGhost,                \* bound: where ghost_input_count saturates
  PacketLoss,              \* whether the network may lose a packet
  PeerToggles              \* whether the game may disable and enable the peer

ASSUME InputsAssumption == Void \in Inputs
ASSUME StorageAssumption == PlayerInputStorageSize \in Nat \ {0}
ASSUME RedundancyAssumption == MaxRedundantInputs \in Nat
ASSUME BoundsAssumption == /\ MaxInputs \in Nat
                           /\ MaxStates \in Nat
                           /\ MaxGhost \in Nat
ASSUME EnvironmentAssumption == PacketLoss \in BOOLEAN /\ PeerToggles \in BOOLEAN

NoInput == -1

VARIABLES
  \* The client.
  frames_snapshot,       \* inputs stored until the server has checked them
  input_buffers_counter, \* the id of the next input
  player_input_id,       \* PlayerController::current_input_id
  player_paused,         \* PlayerController::streaming_paused
  client_snapshots,      \* ids of the stored client snapshots
  server_snapshots,      \* ids of the stored server snapshots
  in_frame,              \* inside ClientSynchronizer::process, after a sub tick
  \* The server.
  snapshots,             \* the received inputs, by id
  current_input_id,      \* ServerController::current_input_buffer_id
  inputs_buffer,         \* the input being executed
  ghost_input_count,
  server_paused,         \* ServerController::streaming_paused
  enabled,               \* ServerController::enabled
  \* The network.
  packets,               \* unreliable: the input packets sent and not lost
  states,                \* reliable and ordered: the input ids of the states sent
  \* History.
  made                   \* every input the player streamed: id i is made[i + 1]

playerVars == <<frames_snapshot, input_buffers_counter, player_input_id,
                player_paused, client_snapshots, made>>
clientVars == <<playerVars, server_snapshots, in_frame>>
serverVars == <<snapshots, current_input_id, inputs_buffer, ghost_input_count,
                server_paused, enabled>>
vars == <<clientVars, serverVars, packets, states>>

Id == 0 .. MaxInputs - 1
Frame == [id : Nat, input : Inputs]
Packet == [first : Nat, inputs : Seq(Inputs)]

Init ==
  /\ frames_snapshot = <<>>
  /\ input_buffers_counter = 0
  /\ player_input_id = NoInput
  /\ player_paused = FALSE
  /\ client_snapshots = <<>>
  /\ server_snapshots = <<>>
  /\ in_frame = FALSE
  /\ snapshots = [i \in {} |-> Void]
  /\ current_input_id = NoInput
  /\ inputs_buffer = Void
  /\ ghost_input_count = 0
  /\ server_paused = FALSE
  /\ enabled = TRUE
  /\ packets = {}
  /\ states = <<>>
  /\ made = <<>>

-----------------------------------------------------------------------------
(***************************************************************************)
(* The client.  ClientSynchronizer::process runs any number of sub ticks   *)
(* (PlayerController::process and store_snapshot) and then the recovery;   *)
(* no message is received in between.                                      *)
(***************************************************************************)

\* Mutant of can_accept_new_inputs: one too many.
can_accept_one_more == Len(frames_snapshot) <= PlayerInputStorageSize

can_accept_new_inputs == Len(frames_snapshot) < PlayerInputStorageSize

\* How many frames a packet repeats.
RedundantCount(frames) ==
  IF Len(frames) < MaxRedundantInputs + 1 THEN Len(frames) ELSE MaxRedundantInputs + 1

\* Mutants of FramePacket: an id one too low; the oldest inputs, not the last.
FramePacketEarlyId(frames) ==
  LET count == RedundantCount(frames)
      ofs == Len(frames) - count
  IN  [first |-> frames[ofs + 1].id - 1,
       inputs |-> [i \in 1 .. count |-> frames[ofs + i].input]]
FramePacketOldest(frames) ==
  LET count == RedundantCount(frames)
      ofs == Len(frames) - count
  IN  [first |-> frames[ofs + 1].id,
       inputs |-> [i \in 1 .. count |-> frames[i].input]]

\* The packet with the last frames: an id, then the inputs from it on.
FramePacket(frames) ==
  LET count == RedundantCount(frames)
      ofs == Len(frames) - count
  IN  [first |-> frames[ofs + 1].id,
       inputs |-> [i \in 1 .. count |-> frames[ofs + i].input]]

\* A sub tick that takes no input: the storage is full.
SubTickFull ==
  /\ ~can_accept_new_inputs
  /\ in_frame' = TRUE
  /\ UNCHANGED <<playerVars, server_snapshots, serverVars, packets, states>>

\* A sub tick whose input is void while the streaming is paused.
SubTickPaused ==
  /\ can_accept_new_inputs
  /\ player_paused
  /\ player_input_id' = input_buffers_counter
  /\ in_frame' = TRUE
  /\ UNCHANGED <<frames_snapshot, input_buffers_counter, player_paused,
                 client_snapshots, made, server_snapshots, serverVars,
                 packets, states>>

\* A sub tick that stores its input, sends the last ones and a snapshot.
SubTickStream(input) ==
  /\ can_accept_new_inputs
  /\ input_buffers_counter < MaxInputs
  /\ input = Void => ~player_paused
  /\ player_input_id' = input_buffers_counter
  /\ player_paused' = FALSE
  /\ input_buffers_counter' = input_buffers_counter + 1
  /\ frames_snapshot' = Append(frames_snapshot,
                               [id |-> input_buffers_counter, input |-> input])
  /\ packets' = packets \cup {FramePacket(frames_snapshot')}
  /\ client_snapshots' = Append(client_snapshots, player_input_id')
  /\ made' = Append(made, input)
  /\ in_frame' = TRUE
  /\ UNCHANGED <<server_snapshots, serverVars, states>>

\* Mutant of ReceiveState: a stored snapshot is never followed by another.
ReceiveStateOnce ==
  /\ ~in_frame
  /\ states /= <<>>
  /\ server_snapshots' = IF server_snapshots = <<>> /\ Head(states) /= NoInput
                           THEN <<Head(states)>> ELSE server_snapshots
  /\ states' = Tail(states)
  /\ UNCHANGED <<playerVars, in_frame, serverVars, packets>>

\* ClientSynchronizer::receive_snapshot, as far as the input id goes: a snapshot
\* of no input is skipped, one of the last id replaces it, an older one is refused.
ReceiveState ==
  /\ ~in_frame
  /\ states /= <<>>
  /\ LET id == Head(states)
         stored == Len(server_snapshots)
     IN  server_snapshots' =
           IF id /= NoInput /\ (stored = 0 \/ id > server_snapshots[stored])
             THEN Append(server_snapshots, id)
             ELSE server_snapshots
  /\ states' = Tail(states)
  /\ UNCHANGED <<playerVars, in_frame, serverVars, packets>>

\* n is how many leading ids of the sequence "while front OP id, pop" removes.
PopsBelow(ids, n, id) ==
  /\ n \in 0 .. Len(ids)
  /\ \A i \in 1 .. n : ids[i] < id
  /\ n < Len(ids) => ids[n + 1] >= id

DropFirst(s, n) == [i \in 1 .. Len(s) - n |-> s[n + i]]

FrameSet == {frames_snapshot[i] : i \in 1 .. Len(frames_snapshot)}
FrameIds == [i \in 1 .. Len(frames_snapshot) |-> frames_snapshot[i].id]

\* Mutant of notify_input_checked: the checked input is kept.
notify_input_checked_keeps(id) ==
  /\ \E n \in 0 .. Len(frames_snapshot) :
       /\ PopsBelow(FrameIds, n, id)
       /\ frames_snapshot' = DropFirst(frames_snapshot, n)
  /\ UNCHANGED player_paused

\* PlayerController::notify_input_checked.
notify_input_checked(id) ==
  LET known == /\ frames_snapshot /= <<>>
               /\ id >= frames_snapshot[1].id
               /\ id <= frames_snapshot[Len(frames_snapshot)].id
      CheckedIsVoid == IF \E i \in 1 .. Len(frames_snapshot) : frames_snapshot[i].id = id
                         THEN [id |-> id, input |-> Void] \in FrameSet
                         ELSE player_paused
  IN  \/ /\ ~known
         /\ UNCHANGED <<frames_snapshot, player_paused>>
      \/ /\ known
         /\ \E n \in 1 .. Len(frames_snapshot) :
              /\ PopsBelow(FrameIds, n, id + 1)
              /\ frames_snapshot' = DropFirst(frames_snapshot, n)
         /\ player_paused' =
              (CheckedIsVoid /\ \A i \in 1 .. Len(frames_snapshot') :
                                  frames_snapshot'[i].input = Void)

\* The newest server snapshot of an input whose client snapshot is still stored.
Checkable(id) ==
  LET Common == {i \in 1 .. Len(server_snapshots) :
                   \E j \in 1 .. Len(client_snapshots) :
                     client_snapshots[j] = server_snapshots[i]}
  IN  \E i \in Common : id = server_snapshots[i] /\ \A j \in Common : j <= i

\* process_controllers_recovery: nothing to compare.
RecoverNothing ==
  /\ \/ server_snapshots = <<>>
     \/ /\ client_snapshots /= <<>>
        /\ \A i \in 1 .. Len(server_snapshots) : ~Checkable(server_snapshots[i])
  /\ in_frame' = FALSE
  /\ UNCHANGED <<playerVars, server_snapshots, serverVars, packets, states>>

\* process_paused_controller_recovery: no client snapshot, the last state applies.
RecoverPaused ==
  /\ server_snapshots /= <<>>
  /\ client_snapshots = <<>>
  /\ server_snapshots' = <<>>
  /\ in_frame' = FALSE
  /\ UNCHANGED <<playerVars, serverVars, packets, states>>

\* The snapshots of the checkable input are compared (and rewound or not: both
\* end in notify_input_checked) and dropped with all the older ones.
RecoverChecked(id) ==
  /\ Checkable(id)
  /\ \E n \in 0 .. Len(server_snapshots) :
       /\ PopsBelow(server_snapshots, n, id)
       /\ server_snapshots' = DropFirst(server_snapshots, n + 1)
  /\ \E n \in 0 .. Len(client_snapshots) :
       /\ PopsBelow(client_snapshots, n, id)
       /\ client_snapshots' = DropFirst(client_snapshots, n + 1)
  /\ notify_input_checked(id)
  /\ in_frame' = FALSE
  /\ UNCHANGED <<input_buffers_counter, player_input_id, made,
                 serverVars, packets, states>>

SubTick == SubTickFull \/ SubTickPaused \/ \E input \in Inputs : SubTickStream(input)
Recover == RecoverNothing \/ RecoverPaused \/ \E id \in Id : RecoverChecked(id)

-----------------------------------------------------------------------------
(***************************************************************************)
(* The server.  One tick fetches an input and may then notify the state.   *)
(***************************************************************************)

Received == DOMAIN snapshots
IsFront(id) == id \in Received /\ \A other \in Received : id <= other
KeepAfter(id) == [i \in {j \in Received : j > id} |-> snapshots[i]]
next_input_id == current_input_id + 1

\* ServerController::receive_inputs: known ids are skipped, the rest inserted.
ReceiveInputs(packet) ==
  LET IdsIn == packet.first .. packet.first + Len(packet.inputs) - 1
      New == {id \in IdsIn : current_input_id = NoInput \/ current_input_id < id}
  IN  /\ snapshots' = [id \in Received \cup New |->
                         IF id \in Received THEN snapshots[id]
                         ELSE packet.inputs[id - packet.first + 1]]
      /\ UNCHANGED <<clientVars, current_input_id, inputs_buffer, ghost_input_count,
                     server_paused, enabled, packets, states>>

\* Mutant of Execute: notify_send_state does not pause the streaming.
ExecuteUnpaused(id, input, paused, send) ==
  /\ current_input_id' = id
  /\ inputs_buffer' = input
  /\ server_paused' = paused
  /\ send => Len(states) < MaxStates
  /\ states' = IF send THEN Append(states, id) ELSE states
  /\ UNCHANGED <<clientVars, enabled, packets>>

\* The end of every tick: what the fetch chose is executed, and if the state is
\* notified (send) notify_send_state pauses the streaming on a void input.
Execute(id, input, paused, send) ==
  /\ current_input_id' = id
  /\ inputs_buffer' = input
  /\ server_paused' = (paused \/ (send /\ input = Void))
  /\ send => Len(states) < MaxStates
  /\ states' = IF send THEN Append(states, id) ELSE states
  /\ UNCHANGED <<clientVars, enabled, packets>>

\* Mutant of GhostUp: the missed tick is not counted.
GhostSame == UNCHANGED ghost_input_count

GhostUp == ghost_input_count' = IF ghost_input_count < MaxGhost
                                  THEN ghost_input_count + 1 ELSE MaxGhost

\* No input arrived yet: the tick is skipped, the notification is not.
FetchNothingYet(send) ==
  /\ current_input_id = NoInput
  /\ Received = {}
  /\ UNCHANGED <<snapshots, ghost_input_count>>
  /\ Execute(current_input_id, inputs_buffer, server_paused, send)

\* The first input, whatever its id.
FetchFirst(front, send) ==
  /\ current_input_id = NoInput
  /\ IsFront(front)
  /\ snapshots' = KeepAfter(front)
  /\ UNCHANGED ghost_input_count
  /\ Execute(front, snapshots[front], server_paused, send)

\* An input arrived while the streaming was paused.
FetchResume(front, send) ==
  /\ current_input_id /= NoInput
  /\ server_paused
  /\ IsFront(front) /\ front >= next_input_id
  /\ snapshots' = KeepAfter(front)
  /\ UNCHANGED ghost_input_count
  /\ Execute(front, snapshots[front], snapshots[front] = Void, send)

\* Paused and no input: pretend the next input is void.
FetchPaused(send) ==
  /\ current_input_id /= NoInput
  /\ server_paused
  /\ ~\E front \in Received : IsFront(front) /\ front >= next_input_id
  /\ UNCHANGED <<snapshots, ghost_input_count>>
  /\ Execute(current_input_id, Void, server_paused, send)

\* Nothing received: the previous input is used again.
FetchMissing(send) ==
  /\ current_input_id /= NoInput
  /\ ~server_paused
  /\ Received = {}
  /\ GhostUp
  /\ UNCHANGED snapshots
  /\ Execute(current_input_id, inputs_buffer, server_paused, send)

\* The next input is there.
FetchNext(send) ==
  /\ current_input_id /= NoInput
  /\ ~server_paused
  /\ IsFront(next_input_id)
  /\ snapshots' = KeepAfter(next_input_id)
  /\ ghost_input_count' = 0
  /\ Execute(next_input_id, snapshots[next_input_id], server_paused, send)

\* The received inputs the search for a missing one goes through: as many as
\* the ticks waited, none further than as many ids after the missing one.
Searched ==
  {id \in Received :
     /\ id <= next_input_id + ghost_input_count
     /\ Cardinality({j \in Received : j <= id}) <= ghost_input_count}

\* Mutant of IsRecovered: straight to the newest input.
IsRecoveredNewest(id) == id \in Searched /\ \A other \in Searched : other <= id

\* The search stops at the first input that differs from the executed one.
IsRecovered(id) ==
  /\ id \in Searched
  /\ \A other \in Searched :
       /\ other < id => snapshots[other] = inputs_buffer
       /\ other > id => snapshots[id] /= inputs_buffer

\* A gap is jumped.
FetchRecover(id, send) ==
  /\ current_input_id /= NoInput
  /\ ~server_paused
  /\ Received /= {} /\ ~IsFront(next_input_id)
  /\ IsRecovered(id)
  /\ snapshots' = KeepAfter(id)
  /\ ghost_input_count' = 0
  /\ Execute(id, snapshots[id], server_paused, send)

\* A gap is waited on: the previous input is used again.
FetchWait(send) ==
  /\ current_input_id /= NoInput
  /\ ~server_paused
  /\ Received /= {} /\ ~IsFront(next_input_id)
  /\ Searched = {}
  /\ GhostUp
  /\ UNCHANGED snapshots
  /\ Execute(current_input_id, inputs_buffer, server_paused, send)

ServerProcess(send) ==
  /\ enabled
  /\ \/ FetchNothingYet(send)
     \/ \E front \in Received : FetchFirst(front, send)
     \/ \E front \in Received : FetchResume(front, send)
     \/ FetchPaused(send)
     \/ FetchMissing(send)
     \/ FetchNext(send)
     \/ \E id \in Received : FetchRecover(id, send)
     \/ FetchWait(send)

\* ServerController::set_enabled, called when the peer is enabled or disabled.
SetEnabled ==
  /\ PeerToggles
  /\ enabled' = ~enabled
  /\ ghost_input_count' = 0
  /\ snapshots' = [i \in {} |-> Void]
  /\ UNCHANGED <<clientVars, current_input_id, inputs_buffer, server_paused,
                 packets, states>>

-----------------------------------------------------------------------------
\* The network: a packet stays deliverable (again) until it is lost.
LosePacket(packet) ==
  /\ PacketLoss
  /\ packets' = packets \ {packet}
  /\ UNCHANGED <<clientVars, serverVars, states>>

LastIdOf(packet) == packet.first + Len(packet.inputs) - 1

Next ==
  \/ SubTick
  \/ Recover
  \/ ReceiveState
  \/ \E packet \in packets : ReceiveInputs(packet)
  \/ \E packet \in packets : LosePacket(packet)
  \/ \E send \in BOOLEAN : ServerProcess(send)
  \/ SetEnabled

Spec == Init /\ [][Next]_vars

(***************************************************************************)
(* Fairness.  Both programs run their process once per frame, the server   *)
(* notifies its state again and again (server_notify_state_interval), the  *)
(* reliable messages arrive, and so do the packets that are not lost.      *)
(***************************************************************************)
DeliverUpTo(id) ==
  \E packet \in packets : LastIdOf(packet) = id /\ ReceiveInputs(packet)

Fairness ==
  /\ WF_vars(\E send \in BOOLEAN : ServerProcess(send))
  /\ SF_vars(ServerProcess(TRUE))
  /\ WF_vars(Recover)
  /\ SF_vars(ReceiveState)
  /\ \A id \in Id : SF_vars(DeliverUpTo(id))

FairSpec == Spec /\ Fairness

-----------------------------------------------------------------------------
TypeOK ==
  /\ frames_snapshot \in Seq(Frame)
  /\ input_buffers_counter \in Nat
  /\ player_input_id \in Nat \cup {NoInput}
  /\ player_paused \in BOOLEAN
  /\ client_snapshots \in Seq(Nat)
  /\ server_snapshots \in Seq(Nat)
  /\ in_frame \in BOOLEAN
  /\ Received \subseteq Nat
  /\ \A id \in Received : snapshots[id] \in Inputs
  /\ snapshots = [id \in Received |-> snapshots[id]]
  /\ current_input_id \in Nat \cup {NoInput}
  /\ inputs_buffer \in Inputs
  /\ ghost_input_count \in Nat
  /\ server_paused \in BOOLEAN
  /\ enabled \in BOOLEAN
  /\ packets \subseteq Packet
  /\ states \in Seq(Nat \cup {NoInput})
  /\ made \in Seq(Inputs)

\* The input the player made under an id.
MadeAs(id, input) == id < Len(made) /\ made[id + 1] = input

(* Whatever the network repeats, reorders or loses, the server executes    *)
(* under an id only the input the player made under that id (void instead  *)
(* while the streaming is paused), and stores no other under it:           *)
(* receive_inputs numbers the inputs by their place in the packet.         *)
ServerInputsAreThePlayers ==
  /\ \A id \in Received : MadeAs(id, snapshots[id])
  /\ current_input_id /= NoInput =>
       \/ MadeAs(current_input_id, inputs_buffer)
       \/ server_paused /\ inputs_buffer = Void

\* What the server stores is always ahead of the input it executes (the
\* CRASH_CONDs that end receive_inputs and fetch_next_input).
StoredAhead == \A id \in Received : current_input_id < id

\* The synchronizer's client snapshots and the player's frames stay the same
\* inputs, consecutive up to the last made (the CRASH_CONDs of
\* process_controllers_recovery, __pcr__rewind and notify_input_checked).
SnapshotsFollowFrames ==
  /\ client_snapshots = FrameIds
  /\ \A i \in 1 .. Len(FrameIds) :
       FrameIds[i] = input_buffers_counter - Len(FrameIds) + i - 1

(* The player forgets an input only when the server has executed it or a   *)
(* later one: everything else can still be sent and rewound.               *)
ForgottenArePassed ==
  \A id \in 0 .. input_buffers_counter - 1 :
    \/ \E i \in 1 .. Len(FrameIds) : FrameIds[i] = id
    \/ id <= current_input_id

(* While the player has stopped streaming, the server takes a missing      *)
(* input as void and not as lost: both agree that the stream is paused.    *)
PauseAgreed == player_paused => server_paused

\* The states on their way are no older than the stored ones, nor than each other
\* (store_controllers_snapshot refuses an older one as "not expected").
StatesInOrder ==
  LET sent == server_snapshots \o states
  IN  \A i, j \in 1 .. Len(sent) : i < j => sent[i] <= sent[j]

(* No CRASH_COND of the stream fails and no state is refused, whatever the *)
(* network does: the server stores only what is ahead of it, the           *)
(* synchronizer's snapshots and the player's frames are the same inputs,   *)
(* and the states come in the order of their inputs.                       *)
AssertionsHold == StoredAhead /\ SnapshotsFollowFrames /\ StatesInOrder

(* fetch_next_input looks for "the next important packet": an input it     *)
(* drops in favour of a later one has the content that was being executed. *)
OnlySimilarInputsAreDropped ==
  [][\A id \in Received \ DOMAIN snapshots' :
       id < current_input_id' => snapshots[id] = inputs_buffer]_vars

(* The stream implements the log: see InputLog.                            *)
Log == INSTANCE InputLog WITH
  log <- made,
  position <- current_input_id,
  released <- input_buffers_counter - Len(frames_snapshot),
  WindowSize <- PlayerInputStorageSize
ImplementsLog == Log!LogSpec

(* The search for missing inputs always ends: no received input waits      *)
(* forever behind a gap, as long as the controller is enabled.             *)
ReceivedIsConsumed ==
  \A id \in Id : id \in Received /\ enabled ~> id \notin Received \/ ~enabled

(* A full storage makes room again while the packet of its newest input is *)
(* not lost and the controller stays enabled: the server gets to that      *)
(* input, and its states, passing by the skipped and the stored ones, free *)
(* the inputs up to it.  (When that packet is lost nothing is sent again.) *)
InFlight(id) == \E packet \in packets : LastIdOf(packet) = id
StorageDrainsUnlessLost ==
  \A id \in Id :
    enabled /\ ~can_accept_new_inputs /\ id = input_buffers_counter - 1 /\ InFlight(id)
      ~> can_accept_new_inputs \/ ~InFlight(id) \/ ~enabled

=============================================================================
