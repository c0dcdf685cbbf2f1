--------------------------- MODULE ControlSwitch ---------------------------
(***************************************************************************)
(* The possession of one NetworkedController passes between its player and *)
(* the server: set_server_controlled on the server makes a new controller  *)
(* there and tells the peer that owns the node, whose frames, inputs and   *)
(* states are meanwhile under way.                                         *)
(*                                                                         *)
(* The input stream is InputStream's with its storage, its loss recovery   *)
(* and its pauses left out.                                                *)
(***************************************************************************)
EXTENDS Integers, Sequences

CONSTANTS
  MaxSwitches,    \* bound: switches of the control mode
  MaxInputs,      \* bound: inputs of one controller
  MaxMessages     \* bound: reliable messages in flight

ASSUME SwitchBoundsAssumption ==
  MaxSwitches \in Nat /\ MaxInputs \in Nat /\ MaxMessages \in Nat

VARIABLES
  \* The server.
  server_controlled,
  generation,               \* counts the controllers the server has made
  current_input_buffer_id,
  snapshots,                \* the inputs received and not executed
  \* The network.
  packets,                  \* unreliable: every input ever sent
  messages,                 \* reliable and ordered: control modes and states
  \* The owner.
  owner_controlled,         \* its copy of server_controlled
  owner_type,               \* what reset_controller made of it
  owner_generation,         \* the controller its last reset followed
  current_input_id,
  client_snapshots,         \* the frames not checked yet
  server_snapshots          \* the states received and not checked yet

serverVars == <<server_controlled, generation, current_input_buffer_id, snapshots>>
ownerVars == <<owner_controlled, owner_type, owner_generation, current_input_id,
               client_snapshots, server_snapshots>>
vars == <<serverVars, packets, messages, ownerVars>>

\* UINT32_MAX, the id of a controller that had no input yet: one more is 0.
NoInput == -1

Ids == 0 .. MaxInputs - 1
Input == [generation : 0 .. MaxSwitches, id : Ids]
State == [generation : 0 .. MaxSwitches, input_id : Ids \cup {NoInput}]
Mode == [server_controlled : BOOLEAN, generation : 0 .. MaxSwitches]

\* Mutant of TypeFor: a doll is left without a controller.
TypeForDollLess(controlled) == IF controlled THEN "null" ELSE "player"

\* What reset_controller makes of the node on the peer that owns it.
TypeFor(controlled) == IF controlled THEN "doll" ELSE "player"

Init ==
  /\ server_controlled \in BOOLEAN
  /\ generation = 0
  /\ current_input_buffer_id = NoInput
  /\ snapshots = {}
  /\ packets = {}
  /\ messages = <<>>
  /\ owner_controlled = server_controlled
  /\ owner_type = TypeFor(server_controlled)
  /\ owner_generation = 0
  /\ current_input_id = NoInput
  /\ client_snapshots = {}
  /\ server_snapshots = {}

-----------------------------------------------------------------------------
\* Mutant of Tell: the owner is not told.
TellNobody == UNCHANGED messages

\* The rpc that tells the owner.
Tell == messages' = Append(messages, [server_controlled |-> server_controlled',
                                      generation |-> generation'])

\* set_server_controlled, with the reset of the controller.
SetServerControlled ==
  /\ generation < MaxSwitches
  /\ Len(messages) < MaxMessages
  /\ server_controlled' = ~server_controlled
  /\ generation' = generation + 1
  /\ current_input_buffer_id' = NoInput
  /\ snapshots' = {}
  /\ Tell
  /\ UNCHANGED <<packets, ownerVars>>

\* receive_inputs: the AutonomousServerController ignores them, and nobody can
\* tell whom a packet was meant for.
ReceiveInputs(input) ==
  /\ ~server_controlled
  /\ input.id > current_input_buffer_id
  /\ \A other \in snapshots : other.id /= input.id
  /\ snapshots' = snapshots \cup {input}
  /\ UNCHANGED <<server_controlled, generation, current_input_buffer_id, packets,
                 messages, ownerVars>>

\* fetch_next_input of the ServerController.
FetchReceived(input) ==
  /\ ~server_controlled
  /\ input \in snapshots
  /\ \A other \in snapshots : input.id <= other.id
  /\ current_input_buffer_id' = input.id
  /\ snapshots' = snapshots \ {input}
  /\ UNCHANGED <<server_controlled, generation, packets, messages, ownerVars>>

\* fetch_next_input of the AutonomousServerController.
FetchCollected ==
  /\ server_controlled
  /\ current_input_buffer_id + 1 \in Ids
  /\ current_input_buffer_id' = current_input_buffer_id + 1
  /\ UNCHANGED <<server_controlled, generation, snapshots, packets, messages, ownerVars>>

\* process_snapshot_notificator.
SendState ==
  /\ Len(messages) < MaxMessages
  /\ messages' = Append(messages, [generation |-> generation,
                                   input_id |-> current_input_buffer_id])
  /\ UNCHANGED <<serverVars, packets, ownerVars>>

-----------------------------------------------------------------------------
\* PlayerController::process and store_snapshot.
PlayerProcess ==
  /\ owner_type = "player"
  /\ current_input_id + 1 \in Ids
  /\ current_input_id' = current_input_id + 1
  /\ client_snapshots' = client_snapshots \cup {current_input_id'}
  /\ packets' = packets \cup {[generation |-> owner_generation, id |-> current_input_id']}
  /\ UNCHANGED <<serverVars, messages, owner_controlled, owner_type, owner_generation,
                 server_snapshots>>

IsMode(message) == "server_controlled" \in DOMAIN message

\* _rpc_set_server_controlled, with the reset of the controller and, in the
\* client's synchronizer, on_controller_reset.
ReceiveMode ==
  /\ messages /= <<>> /\ IsMode(Head(messages))
  /\ owner_type = "player"
  /\ messages' = Tail(messages)
  /\ owner_controlled' = Head(messages).server_controlled
  /\ owner_type' = TypeFor(owner_controlled')
  /\ owner_generation' = Head(messages).generation
  /\ current_input_id' = NoInput
  /\ client_snapshots' = {}
  /\ server_snapshots' = {}
  /\ UNCHANGED <<serverVars, packets>>

\* _rpc_set_server_controlled fails on any other controller.
RefuseMode ==
  /\ messages /= <<>> /\ IsMode(Head(messages))
  /\ owner_type /= "player"
  /\ messages' = Tail(messages)
  /\ UNCHANGED <<serverVars, packets, ownerVars>>

\* store_controllers_snapshot: a state without input is skipped by a player and
\* replaces the others on a client without one; else they are kept in order,
\* and an older one is refused.
Stored(state) ==
  IF state.input_id = NoInput
  THEN IF owner_type = "player" THEN server_snapshots ELSE {state}
  ELSE IF \E s \in server_snapshots : s.input_id = NoInput \/ s.input_id > state.input_id
       THEN server_snapshots
       ELSE {s \in server_snapshots : s.input_id /= state.input_id} \cup {state}

ReceiveState ==
  /\ messages /= <<>> /\ ~IsMode(Head(messages))
  /\ messages' = Tail(messages)
  /\ server_snapshots' = Stored(Head(messages))
  /\ UNCHANGED <<serverVars, packets, owner_controlled, owner_type, owner_generation,
                 current_input_id, client_snapshots>>

\* process_controllers_recovery: the newest state of a stored frame is checked.
\* Without a player controller it is never called.
CheckFrame(state) ==
  /\ owner_type = "player"
  /\ state \in server_snapshots
  /\ state.input_id \in client_snapshots
  /\ \A s \in server_snapshots :
       s.input_id \in client_snapshots => s.input_id <= state.input_id
  /\ client_snapshots' = {id \in client_snapshots : id > state.input_id}
  /\ server_snapshots' = {s \in server_snapshots : s.input_id > state.input_id}
  /\ UNCHANGED <<serverVars, packets, messages, owner_controlled, owner_type,
                 owner_generation, current_input_id>>

Server == \/ SetServerControlled \/ FetchCollected \/ SendState
          \/ \E input \in packets : ReceiveInputs(input)
          \/ \E input \in snapshots : FetchReceived(input)
Owner == \/ PlayerProcess \/ ReceiveMode \/ RefuseMode \/ ReceiveState
         \/ \E state \in server_snapshots : CheckFrame(state)

Next == Server \/ Owner

Spec == Init /\ [][Next]_vars

-----------------------------------------------------------------------------
TypeOK ==
  /\ server_controlled \in BOOLEAN
  /\ generation \in 0 .. MaxSwitches
  /\ current_input_buffer_id \in Ids \cup {NoInput}
  /\ snapshots \subseteq Input
  /\ packets \subseteq Input
  /\ messages \in Seq(Mode \cup State)
  /\ owner_controlled \in BOOLEAN
  /\ owner_type \in {"player", "doll"}
  /\ owner_generation \in 0 .. MaxSwitches
  /\ current_input_id \in Ids \cup {NoInput}
  /\ client_snapshots \subseteq Ids
  /\ server_snapshots \subseteq State

ModesInFlight == {i \in DOMAIN messages : IsMode(messages[i])}

(* The character never has two pilots for good: while the server plays it  *)
(* and the owner does too, a mode is on its way that makes the owner a     *)
(* doll, however often the server switched since                           *)
(* (set_server_controlled, _rpc_set_server_controlled).                    *)
OnePilot ==
  server_controlled /\ owner_type = "player" =>
    \E i \in ModesInFlight : messages[i].server_controlled
=============================================================================
