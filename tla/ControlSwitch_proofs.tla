------------------------ MODULE ControlSwitch_proofs ------------------------
(***************************************************************************)
(* Proofs about ControlSwitch, for any number of switches, inputs and      *)
(* messages.                                                               *)
(*                                                                         *)
(* The reliable messages are a chain: a state is of the controller that    *)
(* the message before it is about, the first of the one the owner's last   *)
(* reset followed.  So the mode of a new controller is read before any of  *)
(* its states.  The last mode on its way tells who is in control now.      *)
(***************************************************************************)
EXTENDS ControlSwitch, TLAPS

Message == Mode \cup State

(***************************************************************************)
(* The inductive invariant.                                                *)
(***************************************************************************)
\* Each state on its way is of the controller of the message before.
IsChain(queue, first) ==
  \A i \in 1 .. Len(queue) :
    ~IsMode(queue[i]) =>
      queue[i].generation = IF i = 1 THEN first ELSE queue[i - 1].generation

LastGeneration(queue, first) == IF queue = <<>> THEN first ELSE queue[Len(queue)].generation

\* The last mode on its way says so.
LastModeSays(queue, controlled) ==
  \A i \in 1 .. Len(queue) :
    /\ IsMode(queue[i])
    /\ \A j \in 1 .. Len(queue) : i < j => ~IsMode(queue[j])
    => queue[i].server_controlled = controlled

\* From the controller the player follows to the one of the server.
MessagesAreChained ==
  \E first \in 0 .. MaxSwitches :
    /\ IsChain(messages, first)
    /\ LastGeneration(messages, first) = generation
    /\ owner_type = "player" => first = owner_generation

OwnerIsTold == LastModeSays(messages, server_controlled)

IInv ==
  /\ TypeOK
  /\ MessagesAreChained
  /\ OwnerIsTold
  /\ OnePilot

-----------------------------------------------------------------------------
(***************************************************************************)
(* The queue of messages.                                                  *)
(***************************************************************************)
LEMMA ModesAndStates ==
  /\ \A m \in Mode : IsMode(m)
  /\ \A m \in State : ~IsMode(m)
  /\ \A m \in Message : m.generation \in 0 .. MaxSwitches
BY DEF Message, Mode, State, IsMode

LEMMA ChainAppend ==
  ASSUME NEW first, NEW q \in Seq(Message), NEW m \in Message, IsChain(q, first),
         IsMode(m) \/ m.generation = LastGeneration(q, first)
  PROVE  IsChain(Append(q, m), first) /\ LastGeneration(Append(q, m), first) = m.generation
<1> DEFINE r == Append(q, m)
<1>1. r \in Seq(Message) /\ Len(r) = Len(q) + 1 /\ r[Len(q) + 1] = m
      /\ (\A i \in 1 .. Len(q) : r[i] = q[i]) /\ r /= <<>>
  OBVIOUS
<1>2. ASSUME NEW i \in 1 .. Len(r), ~IsMode(r[i])
      PROVE  r[i].generation = IF i = 1 THEN first ELSE r[i - 1].generation
  <2>1. CASE i <= Len(q)
    <3>1. i \in 1 .. Len(q) /\ (i /= 1 => i - 1 \in 1 .. Len(q))
      BY <1>1, <2>1
    <3> QED BY <1>1, <1>2, <3>1 DEF IsChain
  <2>2. CASE i = Len(q) + 1
    <3>1. i = 1 <=> q = <<>>
      BY <2>2
    <3>2. i /= 1 => i - 1 = Len(q) /\ Len(q) \in 1 .. Len(q)
      BY <2>2
    <3> QED BY <1>1, <1>2, <2>2, <3>1, <3>2 DEF LastGeneration
  <2> QED BY <1>1, <2>1, <2>2
<1>3. LastGeneration(r, first) = m.generation
  BY <1>1 DEF LastGeneration
<1> QED BY <1>2, <1>3 DEF IsChain

LEMMA ChainTail ==
  ASSUME NEW first, NEW q \in Seq(Message), q /= <<>>, IsChain(q, first)
  PROVE  /\ ~IsMode(Head(q)) => Head(q).generation = first
         /\ IsChain(Tail(q), Head(q).generation)
         /\ LastGeneration(Tail(q), Head(q).generation) = LastGeneration(q, first)
<1> DEFINE t == Tail(q)
<1>1. Head(q) = q[1] /\ Len(q) >= 1 /\ t \in Seq(Message) /\ Len(t) = Len(q) - 1
      /\ \A i \in 1 .. Len(t) : t[i] = q[i + 1]
  OBVIOUS
<1>2. ~IsMode(Head(q)) => Head(q).generation = first
  BY <1>1 DEF IsChain
<1>3. ASSUME NEW i \in 1 .. Len(t), ~IsMode(t[i])
      PROVE  t[i].generation = IF i = 1 THEN Head(q).generation ELSE t[i - 1].generation
  <2>1. i + 1 \in 1 .. Len(q) /\ i + 1 /= 1 /\ (i + 1) - 1 = i
    BY <1>1
  <2>2. q[i + 1].generation = q[i].generation
    BY <1>1, <1>3, <2>1 DEF IsChain
  <2>3. i /= 1 => i - 1 \in 1 .. Len(t) /\ (i - 1) + 1 = i
    BY <1>1
  <2>4. q[i] = IF i = 1 THEN Head(q) ELSE t[i - 1]
    BY <1>1, <2>3
  <2> QED BY <1>1, <2>2, <2>4
<1>4. LastGeneration(t, Head(q).generation) = LastGeneration(q, first)
  <2>1. CASE t = <<>>
    <3> HIDE DEF t
    <3>1. Len(t) = 0
      BY <2>1
    <3>2. Len(q) = 1
      BY <1>1, <3>1
    <3> QED BY <1>1, <2>1, <3>2 DEF LastGeneration
  <2>2. CASE t /= <<>>
    <3>1. Len(t) \in 1 .. Len(t) /\ Len(t) + 1 = Len(q)
      BY <1>1, <2>2
    <3> QED BY <1>1, <2>2, <3>1 DEF LastGeneration
  <2> QED BY <2>1, <2>2
<1> QED BY <1>2, <1>3, <1>4 DEF IsChain

\* A mode that is sent is the last one; a state leaves the last one.
LEMMA LastModeAppend ==
  ASSUME NEW q \in Seq(Message), NEW m \in Message, NEW before, NEW controlled,
         LastModeSays(q, before),
         IF IsMode(m) THEN m.server_controlled = controlled ELSE controlled = before
  PROVE  LastModeSays(Append(q, m), controlled)
<1> DEFINE r == Append(q, m)
<1>1. r \in Seq(Message) /\ Len(r) = Len(q) + 1 /\ Len(q) \in Nat /\ r[Len(q) + 1] = m
      /\ \A i \in 1 .. Len(q) : r[i] = q[i]
  OBVIOUS
<1> HIDE DEF r
<1>2. ASSUME NEW i \in 1 .. Len(r), IsMode(r[i]),
             \A j \in 1 .. Len(r) : i < j => ~IsMode(r[j])
      PROVE  r[i].server_controlled = controlled
  <2>1. CASE i <= Len(q)
    <3>1. ~IsMode(m)
      BY <1>1, <1>2, <2>1
    <3>2. i \in 1 .. Len(q) /\ \A j \in 1 .. Len(q) : i < j => ~IsMode(q[j])
      BY <1>1, <1>2, <2>1
    <3>3. q[i].server_controlled = before
      BY <1>1, <1>2, <3>2 DEF LastModeSays
    <3> QED BY <1>1, <3>1, <3>2, <3>3
  <2>2. CASE i = Len(q) + 1
    BY <1>1, <1>2, <2>2
  <2> QED BY <1>1, <2>1, <2>2
<1> QED BY <1>2 DEF LastModeSays, r

LEMMA LastModeTail ==
  ASSUME NEW q \in Seq(Message), q /= <<>>, NEW controlled, LastModeSays(q, controlled)
  PROVE  LastModeSays(Tail(q), controlled)
<1> DEFINE t == Tail(q)
<1>1. Head(q) = q[1] /\ Len(q) >= 1 /\ Len(q) \in Nat /\ Len(t) = Len(q) - 1
      /\ \A i \in 1 .. Len(t) : t[i] = q[i + 1]
  OBVIOUS
<1> HIDE DEF t
<1>2. \A j \in 1 .. Len(q) : j = 1 \/ (j - 1 \in 1 .. Len(t) /\ q[j] = t[j - 1])
  BY <1>1
<1>3. ASSUME NEW i \in 1 .. Len(t), IsMode(t[i]),
             \A j \in 1 .. Len(t) : i < j => ~IsMode(t[j])
      PROVE  t[i].server_controlled = controlled
  <2>1. i + 1 \in 1 .. Len(q) /\ t[i] = q[i + 1]
    BY <1>1
  <2>2. \A j \in 1 .. Len(q) : i + 1 < j => ~IsMode(q[j])
    BY <1>1, <1>2, <1>3
  <2> QED BY <1>3, <2>1, <2>2 DEF LastModeSays
<1> QED BY <1>3 DEF LastModeSays, t

-----------------------------------------------------------------------------
(***************************************************************************)
(* Types.                                                                  *)
(***************************************************************************)
LEMMA HeadAndTail ==
  ASSUME TypeOK, messages /= <<>>
  PROVE  /\ Head(messages) \in Message /\ Tail(messages) \in Seq(Message)
         /\ IsMode(Head(messages)) => Head(messages) \in Mode
         /\ ~IsMode(Head(messages)) => Head(messages) \in State
<1>1. messages \in Seq(Message)
  BY DEF TypeOK, Message
<1>2. Head(messages) \in Message /\ Tail(messages) \in Seq(Message)
  BY <1>1
<1> QED BY <1>2, ModesAndStates DEF Message

LEMMA ModeType ==
  ASSUME NEW controlled \in BOOLEAN, NEW g \in 0 .. MaxSwitches
  PROVE  /\ [server_controlled |-> controlled, generation |-> g] \in Mode
         /\ IsMode([server_controlled |-> controlled, generation |-> g])
<1>1. [server_controlled |-> controlled, generation |-> g] \in Mode
  BY DEF Mode
<1> QED BY <1>1, ModesAndStates

LEMMA StateType ==
  ASSUME NEW g \in 0 .. MaxSwitches, NEW id \in Ids \cup {NoInput}
  PROVE  /\ [generation |-> g, input_id |-> id] \in State
         /\ ~IsMode([generation |-> g, input_id |-> id])
<1>1. [generation |-> g, input_id |-> id] \in State
  BY DEF State
<1> QED BY <1>1, ModesAndStates

LEMMA StoredType ==
  ASSUME TypeOK, NEW state \in State
  PROVE  Stored(state) \subseteq State /\ Stored(state) \subseteq server_snapshots \cup {state}
BY DEF TypeOK, Stored

LEMMA TypeInit == Init => TypeOK
BY SwitchBoundsAssumption DEF Init, TypeOK, TypeFor, Ids, NoInput

LEMMA TypeStep == TypeOK /\ [Next]_vars => TypeOK'
<1> SUFFICES ASSUME TypeOK, [Next]_vars
             PROVE  TypeOK'
  OBVIOUS
<1> USE SwitchBoundsAssumption DEF serverVars, ownerVars
<1>1. CASE SetServerControlled
  <2>1. generation' \in 0 .. MaxSwitches /\ server_controlled' \in BOOLEAN
    BY <1>1 DEF SetServerControlled, TypeOK
  <2>2. messages' \in Seq(Mode \cup State)
    <3> DEFINE m == [server_controlled |-> server_controlled', generation |-> generation']
    <3>1. m \in Mode
      BY <2>1, ModeType
    <3>2. messages' = Append(messages, m)
      BY <1>1 DEF SetServerControlled, Tell
    <3> HIDE DEF m
    <3> QED BY <3>1, <3>2 DEF TypeOK
  <2> QED BY <1>1, <2>1, <2>2 DEF SetServerControlled, TypeOK
<1>2. CASE FetchCollected
  BY <1>2 DEF FetchCollected, TypeOK
<1>3. CASE SendState
  <2>1. messages' \in Seq(Mode \cup State)
    BY <1>3, StateType DEF SendState, TypeOK
  <2> QED BY <1>3, <2>1 DEF SendState, TypeOK
<1>4. ASSUME NEW input \in packets, ReceiveInputs(input)
      PROVE  TypeOK'
  BY <1>4 DEF ReceiveInputs, TypeOK
<1>5. ASSUME NEW input \in snapshots, FetchReceived(input)
      PROVE  TypeOK'
  BY <1>5 DEF FetchReceived, TypeOK, Input
<1>6. CASE PlayerProcess
  <2>1. [generation |-> owner_generation, id |-> current_input_id'] \in Input
    BY <1>6 DEF PlayerProcess, TypeOK, Input
  <2> QED BY <1>6, <2>1 DEF PlayerProcess, TypeOK
<1>7. CASE ReceiveMode
  <2>1. Head(messages) \in Mode /\ Tail(messages) \in Seq(Message)
    BY <1>7, HeadAndTail DEF ReceiveMode
  <2>2. owner_controlled' \in BOOLEAN /\ owner_generation' \in 0 .. MaxSwitches
        /\ owner_type' \in {"player", "doll"} /\ messages' \in Seq(Mode \cup State)
    BY <1>7, <2>1 DEF ReceiveMode, Mode, TypeFor, Message
  <2> QED BY <1>7, <2>2 DEF ReceiveMode, TypeOK
<1>8. CASE RefuseMode
  <2>1. messages' \in Seq(Mode \cup State)
    BY <1>8, HeadAndTail DEF RefuseMode, Message
  <2> QED BY <1>8, <2>1 DEF RefuseMode, TypeOK
<1>9. CASE ReceiveState
  <2>1. messages' \in Seq(Mode \cup State) /\ server_snapshots' \subseteq State
    BY <1>9, HeadAndTail, StoredType DEF ReceiveState, Message
  <2> QED BY <1>9, <2>1 DEF ReceiveState, TypeOK
<1>10. ASSUME NEW state \in server_snapshots, CheckFrame(state)
       PROVE  TypeOK'
  BY <1>10 DEF CheckFrame, TypeOK
<1>11. CASE UNCHANGED vars
  BY <1>11 DEF vars, TypeOK
<1> QED BY <1>1, <1>2, <1>3, <1>4, <1>5, <1>6, <1>7, <1>8, <1>9, <1>10, <1>11
        DEF Next, Server, Owner

(* The possession of the node keeps its types: modes and states on their   *)
(* way, ids within their counters, a player or a doll at the owner.        *)
THEOREM TypeCorrect == Spec => []TypeOK
BY TypeInit, TypeStep, PTL DEF Spec

-----------------------------------------------------------------------------
(***************************************************************************)
(* The steps.                                                              *)
(***************************************************************************)
\* What the server's messages are about changes with them.
LEMMA ChainStep == IInv /\ TypeOK' /\ [Next]_vars => MessagesAreChained'
<1> SUFFICES ASSUME IInv, TypeOK', [Next]_vars
             PROVE  MessagesAreChained'
  OBVIOUS
<1> USE DEF serverVars, ownerVars
<1>1. messages \in Seq(Message) /\ generation \in 0 .. MaxSwitches
      /\ generation' \in 0 .. MaxSwitches
  BY DEF IInv, TypeOK, Message
<1>2. PICK first \in 0 .. MaxSwitches :
        /\ IsChain(messages, first)
        /\ LastGeneration(messages, first) = generation
        /\ owner_type = "player" => first = owner_generation
  BY DEF IInv, MessagesAreChained
<1>3. CASE SetServerControlled
  <2> DEFINE m == [server_controlled |-> server_controlled', generation |-> generation']
  <2>1. m \in Mode /\ IsMode(m) /\ m \in Message /\ m.generation = generation'
    <3>1. server_controlled' \in BOOLEAN
      BY DEF TypeOK
    <3> QED BY <1>1, <3>1, ModeType DEF Message
  <2>2. messages' = Append(messages, m)
    BY <1>3 DEF SetServerControlled, Tell
  <2> HIDE DEF m
  <2>3. IsChain(messages', first) /\ LastGeneration(messages', first) = generation'
    BY <1>1, <1>2, <2>1, <2>2, ChainAppend
  <2> QED BY <1>2, <1>3, <2>3 DEF SetServerControlled, MessagesAreChained
<1>4. CASE SendState
  <2> DEFINE m == [generation |-> generation, input_id |-> current_input_buffer_id]
  <2>1. m \in Message /\ m.generation = generation
    BY StateType DEF IInv, TypeOK, Message
  <2>2. messages' = Append(messages, m)
    BY <1>4 DEF SendState
  <2> HIDE DEF m
  <2>3. IsChain(messages', first) /\ LastGeneration(messages', first) = generation
    BY <1>1, <1>2, <2>1, <2>2, ChainAppend
  <2> QED BY <1>2, <1>4, <2>3 DEF SendState, MessagesAreChained
<1>5. ASSUME messages /= <<>>, messages' = Tail(messages)
      PROVE  LET next == Head(messages).generation
             IN  /\ next \in 0 .. MaxSwitches
                 /\ IsChain(messages', next)
                 /\ LastGeneration(messages', next) = generation
                 /\ ~IsMode(Head(messages)) => next = first
  BY <1>1, <1>2, <1>5, ChainTail, HeadAndTail, ModesAndStates DEF IInv
<1>6. CASE ReceiveMode
  BY <1>5, <1>6 DEF ReceiveMode, MessagesAreChained
<1>7. CASE RefuseMode
  BY <1>5, <1>7 DEF RefuseMode, MessagesAreChained
<1>8. CASE ReceiveState
  BY <1>2, <1>5, <1>8 DEF ReceiveState, MessagesAreChained
<1>9. ASSUME UNCHANGED <<messages, generation, owner_type, owner_generation>>
      PROVE  MessagesAreChained'
  BY <1>2, <1>9 DEF MessagesAreChained
<1> QED BY <1>3, <1>4, <1>6, <1>7, <1>8, <1>9
        DEF Next, vars, Server, Owner, FetchCollected, ReceiveInputs, FetchReceived,
            PlayerProcess, CheckFrame

\* A switch tells the owner.
LEMMA ToldStep == IInv /\ TypeOK' /\ [Next]_vars => OwnerIsTold'
<1> SUFFICES ASSUME IInv, TypeOK', [Next]_vars
             PROVE  OwnerIsTold'
  OBVIOUS
<1> USE DEF serverVars, ownerVars, OwnerIsTold
<1>1. messages \in Seq(Message) /\ LastModeSays(messages, server_controlled)
  BY DEF IInv, TypeOK, Message
<1>2. CASE SetServerControlled
  <2> DEFINE m == [server_controlled |-> server_controlled', generation |-> generation']
  <2>1. IsMode(m) /\ m \in Message /\ m.server_controlled = server_controlled'
    BY ModeType DEF TypeOK, Message
  <2>2. messages' = Append(messages, m)
    BY <1>2 DEF SetServerControlled, Tell
  <2> HIDE DEF m
  <2> QED BY <1>1, <2>1, <2>2, LastModeAppend
<1>3. CASE SendState
  <2> DEFINE m == [generation |-> generation, input_id |-> current_input_buffer_id]
  <2>1. ~IsMode(m) /\ m \in Message
    BY StateType DEF IInv, TypeOK, Message
  <2>2. messages' = Append(messages, m) /\ server_controlled' = server_controlled
    BY <1>3 DEF SendState
  <2> HIDE DEF m
  <2> QED BY <1>1, <2>1, <2>2, LastModeAppend
<1>4. ASSUME messages /= <<>>, messages' = Tail(messages), UNCHANGED server_controlled
      PROVE  OwnerIsTold'
  BY <1>1, <1>4, LastModeTail
<1>5. ASSUME UNCHANGED <<messages, server_controlled>>
      PROVE  OwnerIsTold'
  BY <1>1, <1>5
<1> QED BY <1>2, <1>3, <1>4, <1>5
        DEF Next, vars, Server, Owner, FetchCollected, ReceiveInputs, FetchReceived,
            PlayerProcess, ReceiveMode, RefuseMode, ReceiveState, CheckFrame

\* The mode that makes the owner a doll is sent, moves up and is read by a player.
LEMMA PilotStep == IInv /\ TypeOK' /\ [Next]_vars => OnePilot'
<1> SUFFICES ASSUME IInv, TypeOK', [Next]_vars, server_controlled', owner_type' = "player"
             PROVE  \E i \in 1 .. Len(messages') :
                      IsMode(messages'[i]) /\ messages'[i].server_controlled
  <2>1. DOMAIN messages' = 1 .. Len(messages')
    BY DEF TypeOK
  <2> QED BY <2>1 DEF OnePilot, ModesInFlight
<1> USE DEF serverVars, ownerVars
<1>1. messages \in Seq(Message) /\ DOMAIN messages = 1 .. Len(messages)
  BY DEF IInv, TypeOK, Message
<1>2. server_controlled /\ owner_type = "player" =>
        \E i \in 1 .. Len(messages) : IsMode(messages[i]) /\ messages[i].server_controlled
  BY <1>1 DEF IInv, OnePilot, ModesInFlight
<1>3. CASE SetServerControlled
  <2> DEFINE m == [server_controlled |-> server_controlled', generation |-> generation']
  <2>1. IsMode(m) /\ m \in Message /\ m.server_controlled = server_controlled'
    BY ModeType DEF TypeOK, Message
  <2>2. messages' = Append(messages, m)
    BY <1>3 DEF SetServerControlled, Tell
  <2> HIDE DEF m
  <2>3. /\ Len(messages') = Len(messages) + 1 /\ messages'[Len(messages) + 1] = m
        /\ Len(messages) + 1 \in 1 .. Len(messages')
    BY <1>1, <2>1, <2>2
  <2> QED BY <2>1, <2>3
<1>4. CASE SendState
  <2> DEFINE m == [generation |-> generation, input_id |-> current_input_buffer_id]
  <2>1. m \in Message
    BY StateType DEF IInv, TypeOK, Message
  <2>2. messages' = Append(messages, m) /\ UNCHANGED <<server_controlled, owner_type>>
    BY <1>4 DEF SendState
  <2> HIDE DEF m
  <2>3. PICK i \in 1 .. Len(messages) : IsMode(messages[i]) /\ messages[i].server_controlled
    BY <1>2, <2>2
  <2>4. i \in 1 .. Len(messages') /\ messages'[i] = messages[i]
    BY <1>1, <2>1, <2>2
  <2> QED BY <2>3, <2>4
<1>5. ASSUME messages /= <<>>, messages' = Tail(messages),
             UNCHANGED server_controlled, owner_type = "player",
             IsMode(Head(messages)) => ~Head(messages).server_controlled
      PROVE  \E i \in 1 .. Len(messages') :
               IsMode(messages'[i]) /\ messages'[i].server_controlled
  <2>1. PICK i \in 1 .. Len(messages) : IsMode(messages[i]) /\ messages[i].server_controlled
    BY <1>2, <1>5
  <2>2. i /= 1
    <3>1. Head(messages) = messages[1]
      BY <1>1, <1>5
    <3> QED BY <1>5, <2>1, <3>1
  <2>3. i - 1 \in 1 .. Len(messages') /\ messages'[i - 1] = messages[i]
    BY <1>1, <1>5, <2>2
  <2> QED BY <2>1, <2>3
<1>6. CASE ReceiveMode
  <2>1. owner_type' = TypeFor(Head(messages).server_controlled)
    BY <1>6 DEF ReceiveMode
  <2>2. ~Head(messages).server_controlled
    BY <2>1 DEF TypeFor
  <2> QED BY <1>5, <1>6, <2>2 DEF ReceiveMode
<1>7. CASE RefuseMode
  BY <1>7 DEF RefuseMode
<1>8. CASE ReceiveState
  BY <1>5, <1>8 DEF ReceiveState
<1>9. ASSUME UNCHANGED <<messages, server_controlled, owner_type>>
      PROVE  \E i \in 1 .. Len(messages') :
               IsMode(messages'[i]) /\ messages'[i].server_controlled
  BY <1>2, <1>9
<1> QED BY <1>3, <1>4, <1>6, <1>7, <1>8, <1>9
        DEF Next, vars, Server, Owner, FetchCollected, ReceiveInputs, FetchReceived,
            PlayerProcess, CheckFrame

-----------------------------------------------------------------------------
LEMMA IInvInit == Init => IInv
<1> SUFFICES ASSUME Init
             PROVE  IInv
  OBVIOUS
<1>1. TypeOK
  BY TypeInit
<1>2. MessagesAreChained
  <2>1. IsChain(messages, 0) /\ LastGeneration(messages, 0) = generation /\ 0 \in 0 .. MaxSwitches
    BY SwitchBoundsAssumption DEF Init, IsChain, LastGeneration
  <2> QED BY <2>1 DEF Init, MessagesAreChained
<1>3. OwnerIsTold
  BY DEF Init, OwnerIsTold, LastModeSays
<1>4. OnePilot
  BY DEF Init, OnePilot, TypeFor
<1> QED BY <1>1, <1>2, <1>3, <1>4 DEF IInv

LEMMA IInvStep == IInv /\ [Next]_vars => IInv'
<1> SUFFICES ASSUME IInv, [Next]_vars
             PROVE  IInv'
  OBVIOUS
<1>1. TypeOK'
  BY TypeStep DEF IInv
<1> QED BY <1>1, ChainStep, ToldStep, PilotStep DEF IInv

(* The states on their way to a player are of the controller it follows,   *)
(* but for those behind a mode that it reads first; and the last mode on   *)
(* its way says who is in control (set_server_controlled and the states    *)
(* share one reliable, ordered channel).                                   *)
THEOREM MessagesInOrder == Spec => [](MessagesAreChained /\ OwnerIsTold)
<1>1. IInv => MessagesAreChained /\ OwnerIsTold
  BY DEF IInv
<1> QED BY <1>1, IInvInit, IInvStep, PTL DEF Spec

(* An owner that plays a character the server plays is going to be told    *)
(* so: the mode is on its way, and the owner has not refused it            *)
(* (set_server_controlled, _rpc_set_server_controlled).                    *)
THEOREM CharacterHasOnePilot == Spec => []OnePilot
<1>1. IInv => OnePilot
  BY DEF IInv
<1> QED BY <1>1, IInvInit, IInvStep, PTL DEF Spec
=============================================================================
