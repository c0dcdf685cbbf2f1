------------------------------- MODULE Actions -------------------------------
(***************************************************************************)
(* Actions: one-off calls that a client or the server triggers and every   *)
(* peer executes in the same frame of the character that triggered them.   *)
(* The server numbers all of them and says in which frame of its own       *)
(* character each client executes them; a client keeps those of its frames *)
(* in its snapshots, to execute them again when it rewinds.                *)
(*                                                                         *)
(* A packet of actions is delivered one action at a time, repeatedly or    *)
(* never, in any order.  Each peer is a client with one character; the     *)
(* frames are its inputs, of which the server may skip some.               *)
(***************************************************************************)
EXTENDS Integers, FiniteSets, Sequences

CONSTANTS
  Clients,                  \* the peers
  Server,                   \* the sender of the server's own actions
  Triggerers,               \* the clients whose game triggers actions
  ClientCanTrigger,         \* can_client_trigger, as registered on the clients
  ServerCanTrigger,         \* ... and on the server
  Recipients,               \* the recipients the server's game names, {} for everyone
  Redundancy,               \* actions_redundancy
  MaxFrames,                \* bound: frames of each client
  MaxOwn,                   \* bound: actions triggered by a client
  MaxServerOwn              \* bound: actions triggered by the server

ASSUME ClientsAssumption ==
  Clients /= {} /\ IsFiniteSet(Clients) /\ Server \notin Clients /\ Triggerers \subseteq Clients
ASSUME RecipientsAssumption == Recipients \subseteq SUBSET Clients
ASSUME RegistrationAssumption == ClientCanTrigger \in BOOLEAN /\ ServerCanTrigger \in BOOLEAN
ASSUME ActionBoundsAssumption ==
  /\ Redundancy \in Nat \ {0}
  /\ MaxFrames \in [Clients -> Nat] /\ MaxOwn \in Nat /\ MaxServerOwn \in Nat

VARIABLES
  \* The server.
  server_input,             \* the input each client's character has executed
  peers_next_action_trigger_input_id,
  server_actions,           \* all of them, by token + 1
  send_count,
  locally_executed,         \* the tokens the server executed
  senders_info,             \* what it received from each client
  \* The network.
  to_server,
  to_clients,
  \* The clients.
  player_input,             \* the last frame of each
  frames,                   \* those with a snapshot
  snapshot_actions,         \* the actions in the snapshots
  own_actions,              \* the actions it triggered, by token + 1
  own_send_count,
  pending_actions,          \* the server's, not executed yet
  server_sender_info,
  heard,                    \* history: the server's, ever taken
  ran                       \* history: all it executed, with the frame

actionVars == <<server_actions, send_count>>
serverVars == <<server_input, peers_next_action_trigger_input_id, actionVars,
                locally_executed, senders_info>>
playerVars == <<player_input, frames>>
clientVars == <<playerVars, snapshot_actions, own_actions, own_send_count,
                pending_actions, server_sender_info, heard, ran>>
vars == <<serverVars, to_server, to_clients, clientVars>>

\* UINT32_MAX: no frame yet, or no frame set.
NoInput == -1
FramesOf(c) == 0 .. MaxFrames[c] - 1
FrameIds == UNION {FramesOf(c) : c \in Clients}
FrameOrNone == FrameIds \cup {NoInput}

OwnTokens == 0 .. MaxOwn - 1
Tokens == 0 .. MaxServerOwn + MaxOwn * Cardinality(Triggerers) - 1

\* Comparison of ids, where UINT32_MAX is the largest.
AtLeast(id, other) == id = NoInput \/ (other /= NoInput /\ id >= other)

\* NetActionSenderInfo.
Info == [last : Tokens \cup {NoInput}, missing : SUBSET Tokens]
NoInfo == [last |-> NoInput, missing |-> {}]

Init ==
  /\ server_input = [c \in Clients |-> NoInput]
  /\ peers_next_action_trigger_input_id = [c \in Clients |-> NoInput]
  /\ server_actions = <<>>
  /\ send_count = <<>>
  /\ locally_executed = {}
  /\ senders_info = [c \in Clients |-> NoInfo]
  /\ to_server = {}
  /\ to_clients = {}
  /\ player_input = [c \in Clients |-> NoInput]
  /\ frames = [c \in Clients |-> {}]
  /\ snapshot_actions = [c \in Clients |-> {}]
  /\ own_actions = [c \in Clients |-> <<>>]
  /\ own_send_count = [c \in Clients |-> <<>>]
  /\ pending_actions = [c \in Clients |-> {}]
  /\ server_sender_info = [c \in Clients |-> NoInfo]
  /\ heard = [c \in Clients |-> {}]
  /\ ran = [c \in Clients |-> {}]

-----------------------------------------------------------------------------
\* Mutant of IsKnown: the last token is not known.
IsKnownOlder(info, token) ==
  /\ info.last /= NoInput
  /\ token < info.last
  /\ token \notin info.missing

\* process_received_action.  The tokens before the first one are never missed.
IsKnown(info, token) ==
  /\ info.last /= NoInput
  /\ token <= info.last
  /\ token \notin info.missing

\* Mutant of Noted: a late token stays missing.
NotedLeavingMissing(info, token) ==
  IF info.last = NoInput THEN [info EXCEPT !.last = token]
  ELSE IF info.last < token
  THEN [last |-> token, missing |-> info.missing \cup (info.last + 1 .. token - 1)]
  ELSE info

Noted(info, token) ==
  IF info.last = NoInput THEN [info EXCEPT !.last = token]
  ELSE IF info.last < token
  THEN [last |-> token, missing |-> info.missing \cup (info.last + 1 .. token - 1)]
  ELSE [info EXCEPT !.missing = @ \ {token}]

\* check_missing_actions_and_clean_up: any of the missing may be a second old.
Cleaned(info) == {[info EXCEPT !.missing = kept] : kept \in SUBSET info.missing}

-----------------------------------------------------------------------------
\* Mutant of Unsent: one send too many.
UnsentOneMore(counts) == {i \in DOMAIN counts : counts[i] <= Redundancy}

\* The sends a peer has left; those of the last 2 ms are spared.
Unsent(counts) == {i \in DOMAIN counts : counts[i] < Redundancy}
Counted(counts, batch) == [i \in DOMAIN counts |-> IF i \in batch THEN counts[i] + 1 ELSE counts[i]]

\* Whether send_actions_to_clients means the action for this client.
IsFor(action, client) ==
  /\ action.sender = client => action.wait_server_validation \/ action.sender_executed_time_changed
  /\ action.recipients = {} \/ client \in action.recipients

\* send_actions_to_clients, once the actions are `actions`.  A client meant by
\* one action of the batch gets the batch.
SendToClients(actions, counts, fresh) ==
  \E batch \in SUBSET Unsent(counts) :
    /\ fresh \subseteq batch
    /\ server_actions' = actions
    /\ send_count' = Counted(counts, batch)
    /\ to_clients' = to_clients \cup
         {[to |-> c, token |-> i - 1] :
            c \in {client \in Clients : \E i \in batch : IsFor(actions[i], client)},
            i \in batch}

\* The same, with a new action.
Issue(action) ==
  SendToClients(Append(server_actions, action), Append(send_count, 0), {Len(server_actions) + 1})

ServerOwn == {i \in DOMAIN server_actions : server_actions[i].sender = Server}

\* ServerSynchronizer::on_action_triggered.
ServerTrigger(recipients) ==
  /\ Cardinality(ServerOwn) < MaxServerOwn
  /\ Issue([sender |-> Server, triggerer_action_token |-> Len(server_actions),
            wait_server_validation |-> FALSE, recipients |-> recipients,
            executed_input_id |-> peers_next_action_trigger_input_id,
            sender_executed_time_changed |-> FALSE])
  /\ UNCHANGED <<server_input, peers_next_action_trigger_input_id, locally_executed,
                 senders_info, to_server, clientVars>>

\* What on_actions_received makes of an action, with the frames given.
Received(message, executed_input_id, changed) ==
  [sender |-> message.from, triggerer_action_token |-> message.token,
   wait_server_validation |-> message.wait_server_validation, recipients |-> {},
   executed_input_id |-> executed_input_id, sender_executed_time_changed |-> changed]

\* Mutant of IsLate: the frame the server is in counts as one to come.
IsLateStrict(message) ==
  message.wait_server_validation \/
  (AtLeast(server_input[message.from], message.executed_input_id)
   /\ server_input[message.from] /= message.executed_input_id)

\* Whether the server executes the action as soon as possible, instead of in the
\* frame the client did.
IsLate(message) ==
  message.wait_server_validation \/
  AtLeast(server_input[message.from], message.executed_input_id)

\* The frames of a late action: the next of each client that has any, and what
\* the sender said otherwise.
Rescheduled(message) ==
  [c \in Clients |->
     IF peers_next_action_trigger_input_id[c] = NoInput /\ c = message.from
     THEN message.executed_input_id ELSE peers_next_action_trigger_input_id[c]]

\* The frames of an action in time: as far ahead for each client.
InStep(message) ==
  [c \in Clients |->
     IF c = message.from THEN message.executed_input_id
     ELSE IF peers_next_action_trigger_input_id[c] = NoInput THEN NoInput
     ELSE server_input[c] + message.executed_input_id - server_input[message.from]]

\* ServerSynchronizer::on_actions_received: a client's action is accepted.
AcceptAction(message) ==
  LET info == senders_info[message.from] IN
  /\ ~ServerCanTrigger
  /\ ~IsKnown(info, message.token)
  /\ senders_info' = [senders_info EXCEPT ![message.from] = Noted(info, message.token)]
  /\ Issue(IF IsLate(message) THEN Received(message, Rescheduled(message), TRUE)
           ELSE Received(message, InStep(message), FALSE))
  /\ UNCHANGED <<server_input, peers_next_action_trigger_input_id, locally_executed,
                 to_server, clientVars>>

\* The same: it is known or not valid, or one the server does not let clients
\* trigger.  The server's own actions are sent in any case.
RejectAction(message) ==
  LET info == senders_info[message.from] IN
  /\ \/ /\ ServerCanTrigger \/ IsKnown(info, message.token)
        /\ UNCHANGED senders_info
     \/ /\ ~ServerCanTrigger
        /\ ~IsKnown(info, message.token)
        /\ senders_info' = [senders_info EXCEPT ![message.from] = Noted(info, message.token)]
  /\ SendToClients(server_actions, send_count, {})
  /\ UNCHANGED <<server_input, peers_next_action_trigger_input_id, locally_executed,
                 to_server, clientVars>>

\* The client whose frames say when the server executes an action.
Reference(action) == IF action.sender = Server THEN CHOOSE c \in Clients : TRUE ELSE action.sender

\* The frame of that client; an action without one is dropped, as if executed.
ReferenceFrame(action) == action.executed_input_id[Reference(action)]

\* execute_actions: what is due once the inputs are `input`.
DueOnServer(input) ==
  {i - 1 : i \in {j \in DOMAIN server_actions :
     LET action == server_actions[j] IN
     \/ ReferenceFrame(action) = NoInput
     \/ AtLeast(input[Reference(action)], ReferenceFrame(action))}}

\* ServerSynchronizer::process, as far as actions go: the characters execute an
\* input, the next or a later one, or repeat the last.
ServerTick(input) ==
  /\ \A c \in Clients :
       input[c] = server_input[c] \/ input[c] \in server_input[c] + 1 .. player_input[c]
  /\ server_input' = input
  /\ locally_executed' = locally_executed \cup DueOnServer(input)
  /\ peers_next_action_trigger_input_id' =
       [c \in Clients |-> IF input[c] = NoInput THEN peers_next_action_trigger_input_id[c]
                          ELSE input[c] + 1]
  /\ senders_info' \in [Clients -> UNION {Cleaned(senders_info[c]) : c \in Clients}]
  /\ \A c \in Clients : senders_info'[c] \in Cleaned(senders_info[c])
  /\ UNCHANGED <<actionVars, to_server, to_clients, clientVars>>

-----------------------------------------------------------------------------
\* send_actions_to_server, once the client's actions are `actions`.
SendToServer(c, actions, counts, fresh) ==
  \E batch \in SUBSET Unsent(counts) :
    /\ fresh \subseteq batch
    /\ own_send_count' = [own_send_count EXCEPT ![c] = Counted(counts, batch)]
    /\ to_server' = to_server \cup
         {[from |-> c, token |-> i - 1,
           wait_server_validation |-> actions[i].wait_server_validation,
           executed_input_id |-> actions[i].executed_input_id] : i \in batch}

\* ClientSynchronizer::on_action_triggered, between two frames.
ClientTrigger(c, wait) ==
  LET action == [wait_server_validation |-> wait,
                 executed_input_id |-> IF wait THEN NoInput ELSE player_input[c] + 1] IN
  /\ ClientCanTrigger
  /\ Len(own_actions[c]) < MaxOwn
  /\ ~wait => player_input[c] + 1 \in FramesOf(c)
  /\ own_actions' = [own_actions EXCEPT ![c] = Append(@, action)]
  /\ SendToServer(c, own_actions'[c], Append(own_send_count[c], 0), {Len(own_actions'[c])})
  /\ UNCHANGED <<serverVars, to_clients, playerVars, snapshot_actions, pending_actions,
                 server_sender_info, heard, ran>>

\* What an execution or a snapshot refers to: an action of one's own or of the
\* server, by its token.
OwnEntry(token, frame) == [own |-> TRUE, token |-> token, frame |-> frame]
ServerEntry(token, frame) == [own |-> FALSE, token |-> token, frame |-> frame]

\* Whether the server tells this client that its action was put off.
IsPutOff(action, c) == action.sender = c /\ action.sender_executed_time_changed

\* Mutant of WithoutOriginal: the original stays in its snapshot.
WithOriginal(c, action) == snapshot_actions[c]

\* The snapshots without the action that was put off.
WithoutOriginal(c, action) ==
  {e \in snapshot_actions[c] :
     ~(IsPutOff(action, c) /\ e.own /\ e.token = action.triggerer_action_token)}

\* ClientSynchronizer::on_actions_received.  An action of a passed frame goes
\* into the snapshot of that frame, or is dropped when there is none; one the
\* client has executed already is only moved.
ReceiveAction(c, token) ==
  LET action == server_actions[token + 1]
      frame  == action.executed_input_id[c]
      passed == AtLeast(player_input[c], frame)
      taken  == passed => frame \in frames[c]
  IN
  /\ ~IsKnown(server_sender_info[c], token)
  /\ server_sender_info' = [server_sender_info EXCEPT ![c] = Noted(@, token)]
  /\ heard' = [heard EXCEPT ![c] = @ \cup {token}]
  /\ snapshot_actions' = [snapshot_actions EXCEPT ![c] =
       IF ~taken THEN @
       ELSE WithoutOriginal(c, action) \cup (IF passed THEN {ServerEntry(token, frame)} ELSE {})]
  /\ pending_actions' = [pending_actions EXCEPT ![c] =
       IF taken /\ (IsPutOff(action, c) => action.wait_server_validation)
       THEN @ \cup {token} ELSE @]
  /\ UNCHANGED <<serverVars, to_server, to_clients, playerVars, own_actions,
                 own_send_count, ran>>

\* The client's own actions to execute in this frame, and the server's.
DueOwn(c, frame) ==
  {i - 1 : i \in {j \in DOMAIN own_actions[c] :
     ~own_actions[c][j].wait_server_validation /\ own_actions[c][j].executed_input_id = frame}}
DuePending(c, frame) ==
  {token \in pending_actions[c] :
     AtLeast(frame, server_actions[token + 1].executed_input_id[c])}

\* ClientSynchronizer::process, as far as actions go: the frame, if the player
\* makes one, its actions and its snapshot; the check of a state, which forgets
\* the frames up to it; the resends.
ClientTick(c, frame, checked) ==
  LET isNew == frame /= player_input[c]
      stored == IF isNew THEN frames[c] \cup {frame} ELSE frames[c]
  IN
  /\ frame \in {player_input[c], player_input[c] + 1}
  /\ frame \in FramesOf(c) \cup {NoInput}
  /\ checked = NoInput \/ (checked \in stored /\ checked <= server_input[c])
  /\ player_input' = [player_input EXCEPT ![c] = frame]
  /\ ran' = [ran EXCEPT ![c] = @ \cup
       (IF isNew THEN {OwnEntry(token, frame) : token \in DueOwn(c, frame)} ELSE {})
       \cup {ServerEntry(token, frame) : token \in DuePending(c, frame)}]
  /\ pending_actions' = [pending_actions EXCEPT ![c] = @ \ DuePending(c, frame)]
  /\ frames' = [frames EXCEPT ![c] = {f \in stored : f > checked}]
  /\ snapshot_actions' = [snapshot_actions EXCEPT ![c] =
       {e \in @ \cup (IF isNew THEN {OwnEntry(token, frame) : token \in DueOwn(c, frame)} ELSE {}) :
          e.frame > checked}]
  /\ SendToServer(c, own_actions[c], own_send_count[c], {})
  /\ \E info \in Cleaned(server_sender_info[c]) :
       server_sender_info' = [server_sender_info EXCEPT ![c] = info]
  /\ UNCHANGED <<serverVars, to_clients, own_actions, heard>>

Next ==
  \/ \E recipients \in Recipients : ServerTrigger(recipients)
  \/ \E message \in to_server : AcceptAction(message) \/ RejectAction(message)
  \/ \E input \in [Clients -> FrameOrNone] : ServerTick(input)
  \/ \E c \in Triggerers, wait \in BOOLEAN : ClientTrigger(c, wait)
  \/ \E message \in to_clients : ReceiveAction(message.to, message.token)
  \/ \E c \in Clients, frame \in FrameOrNone, checked \in FrameOrNone :
       ClientTick(c, frame, checked)

Spec == Init /\ [][Next]_vars

-----------------------------------------------------------------------------
ServerAction ==
  [sender : Clients \cup {Server}, triggerer_action_token : Nat,
   wait_server_validation : BOOLEAN, recipients : SUBSET Clients,
   executed_input_id : [Clients -> Int], sender_executed_time_changed : BOOLEAN]
OwnAction == [wait_server_validation : BOOLEAN, executed_input_id : FrameOrNone]
Entry == [own : BOOLEAN, token : Nat, frame : FrameOrNone]

TypeOK ==
  /\ server_input \in [Clients -> FrameOrNone]
  /\ peers_next_action_trigger_input_id \in [Clients -> {id + 1 : id \in FrameIds} \cup {NoInput}]
  /\ server_actions \in Seq(ServerAction)
  /\ send_count \in [DOMAIN server_actions -> 0 .. Redundancy]
  /\ locally_executed \subseteq Tokens
  /\ senders_info \in [Clients -> Info]
  /\ to_server \subseteq [from : Triggerers, token : OwnTokens,
                          wait_server_validation : BOOLEAN, executed_input_id : FrameOrNone]
  /\ to_clients \subseteq [to : Clients, token : Tokens]
  /\ player_input \in [Clients -> FrameOrNone]
  /\ frames \in [Clients -> SUBSET FrameIds]
  /\ snapshot_actions \in [Clients -> SUBSET Entry]
  /\ own_actions \in [Clients -> Seq(OwnAction)]
  /\ own_send_count \in [Clients -> Seq(0 .. Redundancy)]
  /\ \A c \in Clients : Len(own_send_count[c]) = Len(own_actions[c])
  /\ pending_actions \in [Clients -> SUBSET Tokens]
  /\ server_sender_info \in [Clients -> Info]
  /\ heard \in [Clients -> SUBSET Tokens]
  /\ ran \in [Clients -> SUBSET Entry]

(* However often it is sent, a client's action becomes one action of the   *)
(* server, also when it arrives after later ones or after the server gave  *)
(* it up (NetActionSenderInfo::process_received_action).                   *)
IssuedOnce ==
  \A i, j \in DOMAIN server_actions :
    /\ server_actions[i].sender = server_actions[j].sender
    /\ server_actions[i].triggerer_action_token = server_actions[j].triggerer_action_token
    => i = j

(* ... and a client executes an action the server sends only once: none    *)
(* that was executed is ever pending again, however late or often it       *)
(* arrives (on_actions_received, process_received_action).                 *)
ExecutedOnce ==
  \A c \in Clients : \A e \in ran[c] : ~e.own => e.token \notin pending_actions[c]

(* The server never finds out too late when to execute an action: while it *)
(* waits, its frame is still to come (on_actions_received puts off what    *)
(* arrived after its frame, execute_actions takes it from the next tick).  *)
NeverTooLate ==
  \A i \in DOMAIN server_actions : i - 1 \notin locally_executed =>
    LET action == server_actions[i]
        input  == server_input[Reference(action)] IN
    input = NoInput \/ ReferenceFrame(action) = NoInput \/ input < ReferenceFrame(action)

IsOf(action, c, token) == action.sender = c /\ action.triggerer_action_token = token

\* A rewind executes the client's own action in the frame, as such or as the
\* server's.
Replays(c, token, frame) ==
  \E e \in snapshot_actions[c] :
    /\ e.frame = frame
    /\ IF e.own THEN e.token = token ELSE IsOf(server_actions[e.token + 1], c, token)

HeardPutOff(c, token, frame) ==
  \E t \in heard[c] :
    LET action == server_actions[t + 1] IN
    IsOf(action, c, token) /\ IsPutOff(action, c) /\ action.executed_input_id[c] /= frame

(* A rewind executes an action of the client's own in the frame the client *)
(* executed it in, exactly until the client hears that the server put it   *)
(* off to another one (store_snapshot, on_actions_received).               *)
OwnIsReplayed ==
  \A c \in Clients : \A e \in ran[c] : e.own /\ e.frame \in frames[c] =>
    (Replays(c, e.token, e.frame) <=> ~HeardPutOff(c, e.token, e.frame))

(* A rewind executes the actions of the server that the client executed in *)
(* frames it still keeps ("This is needed in case of rewind to take the    *)
(* action into account").                                                  *)
RewindReplays ==
  \A c \in Clients : \A e \in ran[c] :
    LET frame == server_actions[e.token + 1].executed_input_id[c] IN
    ~e.own /\ frame \in frames[c] => ServerEntry(e.token, frame) \in snapshot_actions[c]
=============================================================================
