------------------------- MODULE InputStream_proofs -------------------------
EXTENDS InputStream, SequenceTheorems, FiniteSetTheorems, TLAPS

LEMMA DropFirstType ==
  ASSUME NEW S, NEW s \in Seq(S), NEW n \in 0 .. Len(s)
  PROVE  /\ DropFirst(s, n) \in Seq(S)
         /\ Len(DropFirst(s, n)) = Len(s) - n
         /\ \A i \in 1 .. Len(s) - n : DropFirst(s, n)[i] = s[n + i]
<1>1. Len(s) - n \in Nat /\ \A i \in 1 .. Len(s) - n : s[n + i] \in S
  OBVIOUS
<1> QED BY <1>1 DEF DropFirst

LEMMA FramePacketType ==
  ASSUME NEW frames \in Seq(Frame), frames /= <<>>
  PROVE  LET count == RedundantCount(frames) IN
         /\ count \in 1 .. Len(frames)
         /\ FramePacket(frames) \in Packet
         /\ FramePacket(frames).first = frames[Len(frames) - count + 1].id
         /\ Len(FramePacket(frames).inputs) = count
         /\ \A i \in 1 .. count :
              FramePacket(frames).inputs[i] = frames[Len(frames) - count + i].input
<1> DEFINE count == RedundantCount(frames)
           inputs == [i \in 1 .. count |-> frames[Len(frames) - count + i].input]
<1>1. count \in 1 .. Len(frames)
  BY RedundancyAssumption DEF RedundantCount
<1>2. \A i \in 1 .. count : frames[Len(frames) - count + i] \in Frame
  BY <1>1
<1>3. inputs \in Seq(Inputs) /\ Len(inputs) = count
  <2>1. inputs \in [1 .. count -> Inputs]
    BY <1>2 DEF Frame
  <2>2. count \in Nat
    BY <1>1
  <2> HIDE DEF inputs, count
  <2> QED BY <2>1, <2>2
<1>4. FramePacket(frames) = [first |-> frames[Len(frames) - count + 1].id, inputs |-> inputs]
  BY DEF FramePacket
<1>5. frames[Len(frames) - count + 1].id \in Nat
  BY <1>1, <1>2 DEF Frame
<1> QED BY <1>1, <1>3, <1>4, <1>5 DEF Packet

LEMMA TypeInit == Init => TypeOK
<1> SUFFICES ASSUME Init PROVE TypeOK
  OBVIOUS
<1>1. /\ frames_snapshot \in Seq(Frame)
      /\ client_snapshots \in Seq(Nat)
      /\ server_snapshots \in Seq(Nat)
      /\ states \in Seq(Nat \cup {NoInput})
      /\ made \in Seq(Inputs)
  BY DEF Init
<1>2. /\ Received \subseteq Nat
      /\ \A id \in Received : snapshots[id] \in Inputs
      /\ snapshots = [id \in Received |-> snapshots[id]]
  BY DEF Init, Received
<1>3. /\ player_paused \in BOOLEAN /\ in_frame \in BOOLEAN
      /\ server_paused \in BOOLEAN /\ enabled \in BOOLEAN
  BY Zenon DEF Init
<1>4. /\ input_buffers_counter \in Nat
      /\ player_input_id \in Nat \cup {NoInput}
      /\ current_input_id \in Nat \cup {NoInput}
      /\ inputs_buffer \in Inputs
      /\ ghost_input_count \in Nat
      /\ packets \subseteq Packet
  BY InputsAssumption DEF Init
<1> QED BY <1>1, <1>2, <1>3, <1>4, Zenon DEF TypeOK

LEMMA TypeSubTick == TypeOK /\ SubTick => TypeOK'
<1>1. ASSUME TypeOK, SubTickFull PROVE TypeOK'
  BY <1>1, Zenon DEF TypeOK, SubTickFull, playerVars, serverVars, Received
<1>2. ASSUME TypeOK, SubTickPaused PROVE TypeOK'
  <2>1. player_input_id' \in Nat \cup {NoInput}
    BY <1>2 DEF TypeOK, SubTickPaused
  <2> QED BY <1>2, <2>1, Zenon DEF TypeOK, SubTickPaused, serverVars, Received
<1>3. ASSUME TypeOK, NEW input \in Inputs, SubTickStream(input) PROVE TypeOK'
  <2> DEFINE frame == [id |-> input_buffers_counter, input |-> input]
  <2>1. frame \in Frame
    BY <1>3 DEF TypeOK, Frame
  <2>2. frames_snapshot' \in Seq(Frame) /\ frames_snapshot' /= <<>>
    BY <1>3, <2>1 DEF TypeOK, SubTickStream
  <2>3. packets' \subseteq Packet
    BY <1>3, <2>2, FramePacketType DEF TypeOK, SubTickStream
  <2>4. /\ client_snapshots' \in Seq(Nat)
        /\ made' \in Seq(Inputs)
        /\ player_input_id' \in Nat \cup {NoInput}
        /\ input_buffers_counter' \in Nat
    BY <1>3 DEF TypeOK, SubTickStream
  <2>5. player_paused' \in BOOLEAN /\ in_frame' \in BOOLEAN
    BY <1>3, Zenon DEF SubTickStream
  <2> QED BY <1>3, <2>2, <2>3, <2>4, <2>5, Zenon
           DEF TypeOK, SubTickStream, serverVars, Received
<1> QED BY <1>1, <1>2, <1>3, Zenon DEF SubTick

LEMMA TypeReceiveState == TypeOK /\ ReceiveState => TypeOK'
<1> SUFFICES ASSUME TypeOK, ReceiveState PROVE TypeOK'
  OBVIOUS
<1>1. states' \in Seq(Nat \cup {NoInput}) /\ Head(states) \in Nat \cup {NoInput}
  BY DEF TypeOK, ReceiveState
<1>2. server_snapshots' \in Seq(Nat)
  BY <1>1 DEF TypeOK, ReceiveState
<1> QED BY <1>1, <1>2, Zenon DEF TypeOK, ReceiveState, playerVars, serverVars, Received

LEMMA TypeRecover == TypeOK /\ Recover => TypeOK'
<1>1. ASSUME TypeOK, RecoverNothing PROVE TypeOK'
  BY <1>1, Zenon DEF TypeOK, RecoverNothing, playerVars, serverVars, Received
<1>2. ASSUME TypeOK, RecoverPaused PROVE TypeOK'
  <2>1. server_snapshots' \in Seq(Nat)
    BY <1>2 DEF RecoverPaused
  <2> QED BY <1>2, <2>1, Zenon DEF TypeOK, RecoverPaused, playerVars, serverVars, Received
<1>3. ASSUME TypeOK, NEW id \in Id, RecoverChecked(id) PROVE TypeOK'
  <2>1. /\ \E i \in 1 .. Len(server_snapshots) : server_snapshots[i] = id
        /\ \E i \in 1 .. Len(client_snapshots) : client_snapshots[i] = id
    BY <1>3 DEF RecoverChecked, Checkable
  <2>2. server_snapshots' \in Seq(Nat)
    <3>1. PICK n \in 0 .. Len(server_snapshots) :
             /\ PopsBelow(server_snapshots, n, id)
             /\ server_snapshots' = DropFirst(server_snapshots, n + 1)
      BY <1>3 DEF RecoverChecked
    <3>2. n + 1 \in 0 .. Len(server_snapshots)
      BY <1>3, <2>1, <3>1 DEF PopsBelow, TypeOK
    <3> QED BY <1>3, <3>1, <3>2, DropFirstType DEF TypeOK
  <2>3. client_snapshots' \in Seq(Nat)
    <3>1. PICK n \in 0 .. Len(client_snapshots) :
             /\ PopsBelow(client_snapshots, n, id)
             /\ client_snapshots' = DropFirst(client_snapshots, n + 1)
      BY <1>3 DEF RecoverChecked
    <3>2. n + 1 \in 0 .. Len(client_snapshots)
      BY <1>3, <2>1, <3>1 DEF PopsBelow, TypeOK
    <3> QED BY <1>3, <3>1, <3>2, DropFirstType DEF TypeOK
  <2>4. notify_input_checked(id)
    BY <1>3, Zenon DEF RecoverChecked
  <2>5. frames_snapshot' \in Seq(Frame)
    BY <1>3, <2>4, DropFirstType DEF TypeOK, notify_input_checked
  <2>6. player_paused' \in BOOLEAN
    BY <1>3, <2>4, Zenon DEF TypeOK, notify_input_checked
  <2>7. in_frame' \in BOOLEAN
    BY <1>3, Zenon DEF RecoverChecked
  <2> QED BY <1>3, <2>2, <2>3, <2>5, <2>6, <2>7, Zenon
           DEF TypeOK, RecoverChecked, serverVars, Received
<1> QED BY <1>1, <1>2, <1>3, Zenon DEF Recover

LEMMA TypeReceiveInputs ==
  ASSUME TypeOK, NEW packet \in packets, ReceiveInputs(packet)
  PROVE  TypeOK'
<1>1. packet \in Packet
  BY DEF TypeOK
<1> DEFINE IdsIn == packet.first .. packet.first + Len(packet.inputs) - 1
           New == {id \in IdsIn : current_input_id = NoInput \/ current_input_id < id}
<1>2. snapshots' = [id \in Received \cup New |->
                     IF id \in Received THEN snapshots[id]
                     ELSE packet.inputs[id - packet.first + 1]]
  BY Zenon DEF ReceiveInputs
<1>3. Received' = Received \cup New
  BY <1>2 DEF Received
<1>4. \A id \in New : /\ id \in Nat
                      /\ id - packet.first + 1 \in 1 .. Len(packet.inputs)
                      /\ packet.inputs[id - packet.first + 1] \in Inputs
  BY <1>1 DEF Packet
<1>5. Received' \subseteq Nat
  BY <1>3, <1>4 DEF TypeOK
<1>6. \A id \in Received' : snapshots'[id] \in Inputs
  BY <1>2, <1>3, <1>4 DEF TypeOK
<1>7. snapshots' = [id \in Received' |-> snapshots'[id]]
  BY <1>2, <1>3
<1> QED BY <1>5, <1>6, <1>7, Zenon DEF TypeOK, ReceiveInputs, clientVars, playerVars

LEMMA KeepAfterType ==
  ASSUME TypeOK, NEW id \in Nat
  PROVE  LET kept == KeepAfter(id) IN
         /\ DOMAIN kept = {j \in Received : j > id}
         /\ \A j \in DOMAIN kept : kept[j] = snapshots[j]
         /\ kept = [j \in DOMAIN kept |-> kept[j]]
  BY DEF KeepAfter

\* What every tick of the server leaves behind, whichever way it fetched.
LEMMA TypeExecute ==
  ASSUME TypeOK, NEW id \in Nat \cup {NoInput}, NEW input \in Inputs, NEW paused \in BOOLEAN,
         NEW send \in BOOLEAN, Execute(id, input, paused, send),
         \/ snapshots' = snapshots
         \/ \E front \in Nat : snapshots' = KeepAfter(front),
         ghost_input_count' \in Nat
  PROVE  TypeOK'
<1>1. states' \in Seq(Nat \cup {NoInput})
  BY DEF TypeOK, Execute
<1>2. server_paused' \in BOOLEAN
  BY Zenon DEF TypeOK, Execute
<1>3. /\ Received' \subseteq Nat
      /\ \A j \in Received' : snapshots'[j] \in Inputs
      /\ snapshots' = [j \in Received' |-> snapshots'[j]]
  <2>1. CASE snapshots' = snapshots
    BY <2>1, Zenon DEF TypeOK, Received
  <2>2. ASSUME NEW front \in Nat, snapshots' = KeepAfter(front)
        PROVE  <1>3!:
    BY <2>2, KeepAfterType DEF TypeOK, Received
  <2> QED BY <2>1, <2>2, Zenon
<1> QED BY <1>1, <1>2, <1>3, Zenon DEF TypeOK, Execute, clientVars, playerVars

LEMMA GhostUpType == TypeOK /\ GhostUp => ghost_input_count' \in Nat
  BY BoundsAssumption DEF TypeOK, GhostUp

LEMMA TypeServerProcess ==
  ASSUME TypeOK, NEW send \in BOOLEAN, ServerProcess(send)
  PROVE  TypeOK'
<1> USE DEF next_input_id
<1>1. CASE FetchNothingYet(send)
  BY <1>1, TypeExecute, Zenon DEF FetchNothingYet, TypeOK
<1>2. ASSUME NEW front \in Received, FetchFirst(front, send) PROVE TypeOK'
  <2>1. /\ front \in Nat /\ front \in Nat \cup {NoInput}
        /\ snapshots[front] \in Inputs
    BY <1>2 DEF TypeOK
  <2> QED BY <1>2, <2>1, TypeExecute, Zenon DEF FetchFirst, TypeOK
<1>3. ASSUME NEW front \in Received, FetchResume(front, send) PROVE TypeOK'
  <2>1. /\ front \in Nat /\ front \in Nat \cup {NoInput}
        /\ snapshots[front] \in Inputs
        /\ (snapshots[front] = Void) \in BOOLEAN
    BY <1>3 DEF TypeOK
  <2> QED BY <1>3, <2>1, TypeExecute, Zenon DEF FetchResume, TypeOK
<1>4. CASE FetchPaused(send)
  BY <1>4, TypeExecute, InputsAssumption, Zenon DEF FetchPaused, TypeOK
<1>5. CASE FetchMissing(send)
  BY <1>5, TypeExecute, GhostUpType, Zenon DEF FetchMissing, TypeOK
<1>6. CASE FetchNext(send)
  <2>1. /\ next_input_id \in Nat /\ next_input_id \in Nat \cup {NoInput}
        /\ snapshots[next_input_id] \in Inputs
    BY <1>6 DEF TypeOK, FetchNext, IsFront
  <2>2. 0 \in Nat
    OBVIOUS
  <2> QED BY <1>6, <2>1, <2>2, TypeExecute, Zenon DEF FetchNext, TypeOK
<1>7. ASSUME NEW id \in Received, FetchRecover(id, send) PROVE TypeOK'
  <2>1. /\ id \in Nat /\ id \in Nat \cup {NoInput}
        /\ snapshots[id] \in Inputs
    BY <1>7 DEF TypeOK
  <2>2. 0 \in Nat
    OBVIOUS
  <2> QED BY <1>7, <2>1, <2>2, TypeExecute, Zenon DEF FetchRecover, TypeOK
<1>8. CASE FetchWait(send)
  BY <1>8, TypeExecute, GhostUpType, Zenon DEF FetchWait, TypeOK
<1> QED BY <1>1, <1>2, <1>3, <1>4, <1>5, <1>6, <1>7, <1>8, Zenon DEF ServerProcess

LEMMA TypeSetEnabled == TypeOK /\ SetEnabled => TypeOK'
<1> SUFFICES ASSUME TypeOK, SetEnabled PROVE TypeOK'
  OBVIOUS
<1>1. /\ Received' \subseteq Nat
      /\ \A j \in Received' : snapshots'[j] \in Inputs
      /\ snapshots' = [j \in Received' |-> snapshots'[j]]
      /\ ghost_input_count' \in Nat
  BY DEF SetEnabled, Received
<1>2. enabled' \in BOOLEAN
  BY Zenon DEF TypeOK, SetEnabled
<1> QED BY <1>1, <1>2, Zenon DEF TypeOK, SetEnabled, clientVars, playerVars

LEMMA TypeLosePacket ==
  ASSUME TypeOK, NEW packet \in packets, LosePacket(packet)
  PROVE  TypeOK'
  BY Zenon DEF TypeOK, LosePacket, clientVars, playerVars, serverVars, Received

LEMMA TypeStep == TypeOK /\ [Next]_vars => TypeOK'
<1>1. CASE UNCHANGED vars
  BY <1>1, Zenon DEF TypeOK, vars, clientVars, playerVars, serverVars, Received
<1>2. CASE Next
  BY <1>2, TypeSubTick, TypeRecover, TypeReceiveState, TypeReceiveInputs,
     TypeLosePacket, TypeServerProcess, TypeSetEnabled, Zenon DEF Next
<1> QED BY <1>1, <1>2

(* Every variable keeps its type, for all inputs, sizes and bounds. *)
THEOREM TypeCorrect == Spec => []TypeOK
  BY TypeInit, TypeStep, PTL DEF Spec

-----------------------------------------------------------------------------
(***************************************************************************)
(* The inductive invariant.  The safety invariants of InputStream are not  *)
(* inductive alone: they need what the packets carry, that no state on its *)
(* way is ahead of the server, and why both sides pause together, which is *)
(* that a state of a void input with only void inputs after it is sent     *)
(* only by a paused server.                                                *)
(***************************************************************************)
Quiet(id) == \A j \in id .. Len(made) - 1 : made[j + 1] = Void

MadeCounted == Len(made) = input_buffers_counter

FramesMade ==
  /\ Len(client_snapshots) = Len(frames_snapshot)
  /\ \A i \in 1 .. Len(frames_snapshot) :
       /\ frames_snapshot[i].id = input_buffers_counter - Len(frames_snapshot) + i - 1
       /\ MadeAs(frames_snapshot[i].id, frames_snapshot[i].input)
       /\ client_snapshots[i] = frames_snapshot[i].id

PacketsMade ==
  \A packet \in packets : \A i \in 1 .. Len(packet.inputs) :
    MadeAs(packet.first + i - 1, packet.inputs[i])

ReleasedPassed ==
  /\ Len(frames_snapshot) <= input_buffers_counter
  /\ input_buffers_counter - Len(frames_snapshot) <= current_input_id + 1

PositionMade == current_input_id < input_buffers_counter

IsState(id) == \/ \E i \in 1 .. Len(server_snapshots) : server_snapshots[i] = id
               \/ \E i \in 1 .. Len(states) : states[i] = id

StatesPassed ==
  /\ \A i \in 1 .. Len(server_snapshots) : server_snapshots[i] <= current_input_id
  /\ \A i \in 1 .. Len(states) : states[i] <= current_input_id

StatesSorted ==
  /\ \A i, j \in 1 .. Len(server_snapshots) : i < j => server_snapshots[i] <= server_snapshots[j]
  /\ \A i, j \in 1 .. Len(states) : i < j => states[i] <= states[j]
  /\ \A i \in 1 .. Len(server_snapshots), j \in 1 .. Len(states) :
       server_snapshots[i] <= states[j]

QuietStatesPause == \A id \in Nat : IsState(id) /\ Quiet(id) => server_paused

PausedIsQuiet ==
  player_paused => server_paused /\ current_input_id \in Nat /\ Quiet(current_input_id)

IInv == /\ TypeOK
        /\ MadeCounted
        /\ FramesMade
        /\ PacketsMade
        /\ ReleasedPassed
        /\ PositionMade
        /\ StatesPassed
        /\ StatesSorted
        /\ QuietStatesPause
        /\ PausedIsQuiet
        /\ ServerInputsAreThePlayers
        /\ StoredAhead

LEMMA InvInit == Init => IInv
<1> SUFFICES ASSUME Init PROVE IInv
  OBVIOUS
<1>1. TypeOK
  BY TypeInit
<1>2. MadeCounted /\ FramesMade /\ PacketsMade /\ ReleasedPassed /\ PositionMade
  BY DEF Init, MadeCounted, FramesMade, PacketsMade, ReleasedPassed, PositionMade, NoInput
<1>3. StatesPassed /\ StatesSorted /\ QuietStatesPause
  BY DEF Init, StatesPassed, StatesSorted, QuietStatesPause, IsState
<1>4. PausedIsQuiet
  BY Zenon DEF Init, PausedIsQuiet
<1>5. ServerInputsAreThePlayers /\ StoredAhead
  BY DEF Init, ServerInputsAreThePlayers, StoredAhead, Received
<1> QED BY <1>1, <1>2, <1>3, <1>4, <1>5 DEF IInv

LEMMA MadeAsGrows ==
  ASSUME made \in Seq(Inputs), NEW input \in Inputs, made' = Append(made, input)
  PROVE  /\ Len(made') = Len(made) + 1
         /\ made'[Len(made) + 1] = input
         /\ \A id \in Nat : id < Len(made) => made'[id + 1] = made[id + 1]
         /\ \A id \in Nat : Quiet(id)' => Quiet(id)
<1>1. /\ Len(made') = Len(made) + 1
      /\ made'[Len(made) + 1] = input
      /\ \A id \in Nat : id < Len(made) => made'[id + 1] = made[id + 1]
  OBVIOUS
<1>2. ASSUME NEW id \in Nat, Quiet(id)' PROVE Quiet(id)
  <2> SUFFICES ASSUME NEW j \in id .. Len(made) - 1 PROVE made[j + 1] = Void
    BY DEF Quiet
  <2>1. j \in id .. Len(made') - 1 /\ j \in Nat /\ j < Len(made)
    BY <1>1
  <2> QED BY <1>1, <1>2, <2>1 DEF Quiet
<1> QED BY <1>1, <1>2

LEMMA InvSubTickStream ==
  ASSUME IInv, NEW input \in Inputs, SubTickStream(input)
  PROVE  IInv'
<1> DEFINE L == Len(frames_snapshot)
<1>1. TypeOK /\ TypeOK'
  BY TypeSubTick, Zenon DEF IInv, SubTick
<1>2. /\ made \in Seq(Inputs) /\ made' = Append(made, input)
      /\ input_buffers_counter \in Nat /\ input_buffers_counter' = input_buffers_counter + 1
      /\ Len(made) = input_buffers_counter
  BY <1>1 DEF IInv, TypeOK, SubTickStream, MadeCounted
<1>3. MadeCounted'
  BY <1>2 DEF MadeCounted
<1>4. /\ L \in Nat
      /\ frames_snapshot' \in Seq(Frame)
      /\ Len(frames_snapshot') = L + 1
      /\ \A i \in 1 .. L : frames_snapshot'[i] = frames_snapshot[i]
      /\ frames_snapshot'[L + 1] = [id |-> input_buffers_counter, input |-> input]
  BY <1>1 DEF TypeOK, SubTickStream
<1>5. /\ Len(client_snapshots') = L + 1
      /\ \A i \in 1 .. L : client_snapshots'[i] = client_snapshots[i]
      /\ client_snapshots'[L + 1] = input_buffers_counter
  <2>1. client_snapshots \in Seq(Nat) /\ Len(client_snapshots) = L
    BY <1>1, Zenon DEF TypeOK, IInv, FramesMade
  <2>2. client_snapshots' = Append(client_snapshots, input_buffers_counter)
    BY Zenon DEF SubTickStream
  <2> QED BY <1>2, <1>4, <2>1, <2>2
<1>6. FramesMade'
  <2> SUFFICES ASSUME NEW i \in 1 .. L + 1
               PROVE  /\ frames_snapshot'[i].id = input_buffers_counter' - (L + 1) + i - 1
                      /\ frames_snapshot'[i].id < Len(made')
                      /\ made'[frames_snapshot'[i].id + 1] = frames_snapshot'[i].input
                      /\ client_snapshots'[i] = frames_snapshot'[i].id
    BY <1>4, <1>5, Zenon DEF FramesMade, MadeAs
  <2>1. CASE i = L + 1
    <3>1. /\ frames_snapshot'[i].id = input_buffers_counter
          /\ frames_snapshot'[i].input = input
          /\ client_snapshots'[i] = input_buffers_counter
      BY <2>1, <1>4, <1>5
    <3> QED BY <2>1, <3>1, <1>2, <1>4, MadeAsGrows
  <2>2. CASE i \in 1 .. L
    <3>1. /\ frames_snapshot[i].id = input_buffers_counter - L + i - 1
          /\ MadeAs(frames_snapshot[i].id, frames_snapshot[i].input)
          /\ client_snapshots[i] = frames_snapshot[i].id
      BY <2>2 DEF IInv, FramesMade
    <3>2. frames_snapshot[i].id \in Nat
      <4>1. frames_snapshot[i] \in Frame
        BY <1>1, <2>2 DEF TypeOK
      <4> QED BY <4>1 DEF Frame
    <3>3. frames_snapshot'[i] = frames_snapshot[i] /\ client_snapshots'[i] = client_snapshots[i]
      BY <1>4, <1>5, <2>2
    <3> QED BY <1>2, <1>4, <2>2, <3>1, <3>2, <3>3, MadeAsGrows DEF MadeAs
  <2> QED BY <1>4, <2>1, <2>2
<1>7. PacketsMade'
  <2> SUFFICES ASSUME NEW packet \in packets', NEW i \in 1 .. Len(packet.inputs)
               PROVE  packet.first + i - 1 < Len(made') /\
                      made'[packet.first + i - 1 + 1] = packet.inputs[i]
    BY DEF PacketsMade, MadeAs
  <2>1. CASE packet \in packets
    <3>1. packet.first \in Nat /\ Len(packet.inputs) \in Nat
      BY <1>1, <2>1 DEF TypeOK, Packet
    <3>2. packet.first + i - 1 \in Nat /\ MadeAs(packet.first + i - 1, packet.inputs[i])
      BY <2>1, <3>1 DEF IInv, PacketsMade
    <3> QED BY <1>2, <3>2, MadeAsGrows DEF MadeAs
  <2>2. CASE packet = FramePacket(frames_snapshot')
    <3> DEFINE count == RedundantCount(frames_snapshot')
    <3>1. frames_snapshot' /= <<>>
      BY <1>4
    <3>2. /\ count \in 1 .. L + 1
          /\ packet.first = frames_snapshot'[L + 1 - count + 1].id
          /\ Len(packet.inputs) = count
          /\ packet.inputs[i] = frames_snapshot'[L + 1 - count + i].input
      <4>1. /\ count \in 1 .. Len(frames_snapshot')
            /\ FramePacket(frames_snapshot').first
                 = frames_snapshot'[Len(frames_snapshot') - count + 1].id
            /\ Len(FramePacket(frames_snapshot').inputs) = count
            /\ \A k \in 1 .. count : FramePacket(frames_snapshot').inputs[k]
                 = frames_snapshot'[Len(frames_snapshot') - count + k].input
        BY <1>4, <3>1, FramePacketType, Zenon
      <4> HIDE DEF count
      <4> QED BY <1>4, <2>2, <4>1
    <3> HIDE DEF count
    <3>3. i \in 1 .. count /\ L + 1 - count + i \in 1 .. L + 1 /\ L + 1 - count + 1 \in 1 .. L + 1
      BY <1>4, <3>2
    <3>4. \A k \in 1 .. L + 1 :
            /\ frames_snapshot'[k].id = input_buffers_counter' - (L + 1) + k - 1
            /\ frames_snapshot'[k].id < Len(made')
            /\ made'[frames_snapshot'[k].id + 1] = frames_snapshot'[k].input
      BY <1>4, <1>6, Zenon DEF FramesMade, MadeAs
    <3>5. /\ frames_snapshot'[L + 1 - count + i].id = input_buffers_counter' - count + i - 1
          /\ packet.first = input_buffers_counter' - count
      <4>1. /\ frames_snapshot'[L + 1 - count + i].id
                 = input_buffers_counter' - (L + 1) + (L + 1 - count + i) - 1
            /\ frames_snapshot'[L + 1 - count + 1].id
                 = input_buffers_counter' - (L + 1) + (L + 1 - count + 1) - 1
        BY <3>3, <3>4, Zenon
      <4>2. /\ input_buffers_counter' - (L + 1) + (L + 1 - count + i) - 1
                 = input_buffers_counter' - count + i - 1
            /\ input_buffers_counter' - (L + 1) + (L + 1 - count + 1) - 1
                 = input_buffers_counter' - count
        <5>1. /\ input_buffers_counter' \in Nat /\ L + 1 \in Nat
              /\ count \in Nat /\ i \in Nat
          BY <1>2, <1>4, <3>2, <3>3
        <5>2. ASSUME NEW c \in Nat, NEW l \in Nat, NEW k \in Nat, NEW m \in Nat
              PROVE  c - l + (l - k + m) - 1 = c - k + m - 1 /\ c - l + (l - k + 1) - 1 = c - k
          OBVIOUS
        <5> QED BY <5>1, <5>2
      <4> QED BY <3>2, <4>1, <4>2, Zenon
    <3>6. packet.first + i - 1 = frames_snapshot'[L + 1 - count + i].id
      BY <1>2, <3>2, <3>3, <3>5
    <3>7. packet.first + i - 1 + 1 = frames_snapshot'[L + 1 - count + i].id + 1
      BY <3>6
    <3> QED BY <3>2, <3>3, <3>4, <3>6, <3>7, Zenon
  <2> QED BY <2>1, <2>2 DEF SubTickStream
<1>8. ReleasedPassed' /\ PositionMade'
  BY <1>1, <1>2, <1>4 DEF IInv, ReleasedPassed, PositionMade, SubTickStream, serverVars, TypeOK, NoInput
<1>9. StatesPassed' /\ StatesSorted'
  BY DEF IInv, StatesPassed, StatesSorted, SubTickStream, serverVars
<1>10. QuietStatesPause'
  BY <1>2, MadeAsGrows DEF IInv, QuietStatesPause, IsState, SubTickStream, serverVars
<1>11. PausedIsQuiet'
  BY Zenon DEF PausedIsQuiet, SubTickStream
<1>12. ServerInputsAreThePlayers' /\ StoredAhead'
  <2>1. StoredAhead'
    BY Zenon DEF IInv, StoredAhead, SubTickStream, serverVars, Received
  <2>2. \A id \in Received' : id < Len(made') /\ made'[id + 1] = snapshots'[id]
    BY <1>1, <1>2, MadeAsGrows DEF IInv, ServerInputsAreThePlayers, SubTickStream, serverVars, Received, TypeOK, MadeAs
  <2>3. current_input_id' /= NoInput =>
          \/ current_input_id' < Len(made') /\ made'[current_input_id' + 1] = inputs_buffer'
          \/ server_paused' /\ inputs_buffer' = Void
    BY <1>1, <1>2, MadeAsGrows DEF IInv, ServerInputsAreThePlayers, SubTickStream, serverVars, TypeOK, MadeAs
  <2> QED BY <2>1, <2>2, <2>3, Zenon DEF ServerInputsAreThePlayers, MadeAs
<1> QED BY <1>1, <1>3, <1>6, <1>7, <1>8, <1>9, <1>10, <1>11, <1>12 DEF IInv

\* A step that changes neither the server nor what was made and sent.
LEMMA InvReceiveState ==
  ASSUME IInv, ReceiveState
  PROVE  IInv'
<1> DEFINE S == Len(server_snapshots)
<1>1. TypeOK /\ TypeOK'
  BY TypeReceiveState, Zenon DEF IInv
<1>2. MadeCounted' /\ FramesMade' /\ PacketsMade' /\ ReleasedPassed' /\ PositionMade'
  BY DEF IInv, ReceiveState, playerVars, serverVars, MadeCounted, FramesMade, PacketsMade,
         ReleasedPassed, PositionMade, MadeAs
<1>3. ServerInputsAreThePlayers' /\ StoredAhead'
  BY Zenon DEF IInv, ReceiveState, playerVars, serverVars, ServerInputsAreThePlayers,
               StoredAhead, Received, MadeAs
<1>4. PausedIsQuiet'
  BY Zenon DEF IInv, ReceiveState, playerVars, serverVars, PausedIsQuiet, Quiet
<1>5. /\ S \in Nat /\ server_snapshots \in Seq(Nat)
      /\ Len(states) \in Nat /\ Len(states) > 0
      /\ Head(states) = states[1]
      /\ Len(states') = Len(states) - 1
      /\ \A i \in 1 .. Len(states) - 1 : states'[i] = states[i + 1]
  BY <1>1 DEF TypeOK, ReceiveState
<1>6. \/ server_snapshots' = server_snapshots
      \/ /\ server_snapshots' = Append(server_snapshots, Head(states))
         /\ Head(states) /= NoInput
         /\ S = 0 \/ Head(states) > server_snapshots[S]
  BY Zenon DEF ReceiveState
<1>7. \/ server_snapshots' = server_snapshots
      \/ /\ Len(server_snapshots') = S + 1
         /\ \A i \in 1 .. S : server_snapshots'[i] = server_snapshots[i]
         /\ server_snapshots'[S + 1] = states[1]
  <2>1. CASE server_snapshots' = server_snapshots
    BY <2>1
  <2>2. CASE server_snapshots' = Append(server_snapshots, Head(states)) /\ Head(states) /= NoInput
    <3>1. states[1] \in Nat
      BY <1>1, <1>5, <2>2 DEF TypeOK
    <3> QED BY <1>5, <2>2, <3>1
  <2> QED BY <1>6, <2>1, <2>2
<1>8. StatesPassed'
  BY <1>5, <1>7 DEF IInv, StatesPassed, ReceiveState, serverVars
<1>9. StatesSorted'
  <2>1. StatesSorted
    BY DEF IInv
  <2>2. \A i, j \in 1 .. Len(states') : i < j => states'[i] <= states'[j]
    BY <1>5, <2>1 DEF StatesSorted
  <2>3. CASE server_snapshots' = server_snapshots
    BY <1>5, <2>1, <2>2, <2>3 DEF StatesSorted
  <2>4. CASE /\ Len(server_snapshots') = S + 1
             /\ \A i \in 1 .. S : server_snapshots'[i] = server_snapshots[i]
             /\ server_snapshots'[S + 1] = states[1]
    <3>1. \A i, j \in 1 .. S + 1 : i < j => server_snapshots'[i] <= server_snapshots'[j]
      <4> SUFFICES ASSUME NEW i \in 1 .. S + 1, NEW j \in 1 .. S + 1, i < j
                   PROVE  server_snapshots'[i] <= server_snapshots'[j]
        OBVIOUS
      <4>1. i \in 1 .. S /\ server_snapshots'[i] = server_snapshots[i]
        BY <1>5, <2>4
      <4>2. CASE j = S + 1
        <5>1. 1 \in 1 .. Len(states)
          BY <1>5
        <5>2. server_snapshots[i] <= states[1]
          BY <2>1, <4>1, <5>1, Zenon DEF StatesSorted
        <5> QED BY <2>4, <4>1, <4>2, <5>2
      <4>3. CASE j \in 1 .. S
        <5>1. server_snapshots[i] <= server_snapshots[j]
          BY <2>1, <4>1, <4>3, Zenon DEF StatesSorted
        <5> QED BY <2>4, <4>1, <4>3, <5>1
      <4>4. j = S + 1 \/ j \in 1 .. S
        BY <1>5
      <4> QED BY <4>2, <4>3, <4>4, Zenon
    <3>2. \A i \in 1 .. S + 1, j \in 1 .. Len(states') : server_snapshots'[i] <= states'[j]
      <4> SUFFICES ASSUME NEW i \in 1 .. S + 1, NEW j \in 1 .. Len(states')
                   PROVE  server_snapshots'[i] <= states'[j]
        OBVIOUS
      <4>1. CASE i = S + 1
        BY <1>5, <2>1, <2>4, <4>1 DEF StatesSorted
      <4>2. CASE i \in 1 .. S
        <5>1. j + 1 \in 1 .. Len(states) /\ states'[j] = states[j + 1]
          BY <1>5
        <5>2. server_snapshots[i] <= states[j + 1]
          BY <2>1, <4>2, <5>1, Zenon DEF StatesSorted
        <5> QED BY <2>4, <4>2, <5>1, <5>2
      <4> QED BY <1>5, <4>1, <4>2
    <3> QED BY <2>2, <2>4, <3>1, <3>2 DEF StatesSorted
  <2> QED BY <1>7, <2>3, <2>4
<1>10. QuietStatesPause'
  <2>1. \A id \in Nat : IsState(id)' => IsState(id)
    BY <1>5, <1>7 DEF IsState
  <2> QED BY <2>1, Zenon DEF IInv, QuietStatesPause, Quiet, ReceiveState, playerVars, serverVars
<1> QED BY <1>1, <1>2, <1>3, <1>4, <1>8, <1>9, <1>10, Zenon DEF IInv

LEMMA InvServerSnapshotsDropped ==
  ASSUME IInv, NEW n \in 0 .. Len(server_snapshots),
         server_snapshots' = DropFirst(server_snapshots, n),
         states' = states, made' = made, UNCHANGED serverVars
  PROVE  StatesPassed' /\ StatesSorted' /\ QuietStatesPause'
<1>1. server_snapshots \in Seq(Nat) /\ states \in Seq(Nat \cup {NoInput})
  BY DEF IInv, TypeOK
<1>2. /\ Len(server_snapshots) \in Nat
      /\ Len(server_snapshots') = Len(server_snapshots) - n
      /\ \A i \in 1 .. Len(server_snapshots) - n : server_snapshots'[i] = server_snapshots[n + i]
  <2>1. Len(server_snapshots) \in Nat
    BY <1>1
  <2> QED BY <1>1, <2>1, DropFirstType, Zenon
<1>3. StatesPassed'
  BY <1>1, <1>2 DEF IInv, StatesPassed, serverVars
<1>4. StatesSorted'
  <2>1. StatesSorted
    BY DEF IInv
  <2> DEFINE M == Len(server_snapshots) - n
  <2>2. \A i \in 1 .. M : n + i \in 1 .. Len(server_snapshots)
    BY <1>2
  <2>3. ASSUME NEW i \in 1 .. M, NEW j \in 1 .. M, i < j
        PROVE  server_snapshots'[i] <= server_snapshots'[j]
    <3>1. n + i < n + j
      BY <1>2, <2>3
    <3>2. server_snapshots[n + i] <= server_snapshots[n + j]
      BY <2>1, <2>2, <3>1, Zenon DEF StatesSorted
    <3> QED BY <1>2, <3>2, Zenon
  <2>4. ASSUME NEW i \in 1 .. M, NEW j \in 1 .. Len(states)
        PROVE  server_snapshots'[i] <= states[j]
    BY <1>2, <2>1, <2>2, Zenon DEF StatesSorted
  <2> QED BY <1>2, <2>1, <2>3, <2>4, Zenon DEF StatesSorted
<1>5. \A id \in Nat : IsState(id)' => IsState(id)
  BY <1>1, <1>2 DEF IsState
<1>6. QuietStatesPause'
  BY <1>5, Zenon DEF IInv, QuietStatesPause, Quiet, serverVars
<1> QED BY <1>3, <1>4, <1>6

\* What RecoverChecked does to the frames: they lose all up to the checked one.
LEMMA CheckedFrames ==
  ASSUME IInv, NEW id \in Id, RecoverChecked(id)
  PROVE  /\ id \in Nat
         /\ id <= current_input_id
         /\ IsState(id)
         /\ \E n \in 1 .. Len(frames_snapshot) :
              /\ frames_snapshot[n].id = id
              /\ frames_snapshot' = DropFirst(frames_snapshot, n)
              /\ client_snapshots' = DropFirst(client_snapshots, n)
              /\ player_paused' => /\ frames_snapshot[n].input = Void
                                   /\ \A i \in 1 .. Len(frames_snapshot') :
                                        frames_snapshot'[i].input = Void
<1> DEFINE L == Len(frames_snapshot)
           base == input_buffers_counter - L
<1>1. TypeOK
  BY DEF IInv
<1>2. /\ L \in Nat /\ base \in Int /\ id \in Nat
      /\ Len(client_snapshots) = L
      /\ \A i \in 1 .. L : /\ frames_snapshot[i].id = base + i - 1
                           /\ client_snapshots[i] = base + i - 1
                           /\ FrameIds[i] = base + i - 1
      /\ Len(FrameIds) = L
  <2>1. L \in Nat /\ base \in Int /\ id \in Nat
    BY <1>1, BoundsAssumption DEF TypeOK, Id
  <2>2. Len(FrameIds) = L /\ \A i \in 1 .. L : FrameIds[i] = frames_snapshot[i].id
    BY <2>1 DEF FrameIds
  <2>3. /\ Len(client_snapshots) = L
        /\ \A i \in 1 .. L : /\ frames_snapshot[i].id = base + i - 1
                             /\ client_snapshots[i] = frames_snapshot[i].id
    BY Zenon DEF IInv, FramesMade
  <2> QED BY <2>1, <2>2, <2>3, Zenon
<1> HIDE DEF base
<1>3. PICK k \in 1 .. L : client_snapshots[k] = id
  BY <1>2, Zenon DEF RecoverChecked, Checkable
<1>4. PICK s \in 1 .. Len(server_snapshots) : server_snapshots[s] = id
  BY Zenon DEF RecoverChecked, Checkable
<1>5. id <= current_input_id /\ IsState(id)
  BY <1>4, Zenon DEF IInv, StatesPassed, IsState
<1>6. id = base + k - 1
  BY <1>2, <1>3
<1>7. PICK m \in 0 .. L : /\ PopsBelow(client_snapshots, m, id)
                          /\ client_snapshots' = DropFirst(client_snapshots, m + 1)
  BY <1>2, Zenon DEF RecoverChecked
<1>8. m + 1 = k
  <2>1. ~(m + 1 < k)
    <3> SUFFICES ASSUME m + 1 < k PROVE FALSE
      OBVIOUS
    <3>1. m + 1 \in 1 .. L /\ m < Len(client_snapshots)
      BY <1>2, <1>3, <1>7
    <3>2. client_snapshots[m + 1] >= id /\ client_snapshots[m + 1] = base + (m + 1) - 1
      BY <1>2, <1>7, <3>1, Zenon DEF PopsBelow
    <3> QED BY <1>2, <1>3, <1>6, <1>7, <3>2
  <2>2. ~(k < m + 1)
    <3> SUFFICES ASSUME k < m + 1 PROVE FALSE
      OBVIOUS
    <3>1. k \in 1 .. m
      BY <1>3, <1>7
    <3>2. client_snapshots[k] < id
      BY <1>7, <3>1, Zenon DEF PopsBelow
    <3> QED BY <1>2, <1>3, <3>2
  <2> QED BY <1>3, <1>7, <2>1, <2>2
<1>9. frames_snapshot[k].id = id
  BY <1>2, <1>6, Zenon
<1>10. L > 0 /\ frames_snapshot /= <<>> /\ frames_snapshot[1].id <= id /\ id <= frames_snapshot[L].id
  <2>1. 1 \in 1 .. L /\ L \in 1 .. L
    BY <1>2, <1>3
  <2>2. frames_snapshot[1].id = base + 1 - 1 /\ frames_snapshot[L].id = base + L - 1
    BY <1>2, <2>1, Zenon
  <2> QED BY <1>2, <1>3, <1>6, <2>1, <2>2
<1>11. PICK n \in 1 .. L : /\ PopsBelow(FrameIds, n, id + 1)
                           /\ frames_snapshot' = DropFirst(frames_snapshot, n)
  <2>1. notify_input_checked(id)
    BY Zenon DEF RecoverChecked
  <2>2. id >= frames_snapshot[1].id
    <3>1. frames_snapshot[1].id \in Int
      <4>1. 1 \in 1 .. L
        BY <1>2, <1>10
      <4>2. frames_snapshot[1].id = base + 1 - 1
        BY <1>2, <4>1, Zenon
      <4> QED BY <1>2, <4>2
    <3> QED BY <1>2, <1>10, <3>1
  <2> QED BY <1>10, <2>1, <2>2, Zenon DEF notify_input_checked
<1>12. n = k
  <2>1. ~(n < k)
    <3> SUFFICES ASSUME n < k PROVE FALSE
      OBVIOUS
    <3>1. n + 1 \in 1 .. L /\ n < Len(FrameIds)
      BY <1>2, <1>3, <1>11
    <3>2. FrameIds[n + 1] >= id + 1 /\ FrameIds[n + 1] = base + (n + 1) - 1
      BY <1>2, <1>11, <3>1, Zenon DEF PopsBelow
    <3> QED BY <1>2, <1>3, <1>6, <1>11, <3>2
  <2>2. ~(k < n)
    <3> SUFFICES ASSUME k < n PROVE FALSE
      OBVIOUS
    <3>1. n \in 1 .. n
      BY <1>11
    <3>2. FrameIds[n] < id + 1 /\ FrameIds[n] = base + n - 1
      BY <1>2, <1>11, <3>1, Zenon DEF PopsBelow
    <3> QED BY <1>2, <1>3, <1>6, <1>11, <3>2
  <2> QED BY <1>3, <1>11, <2>1, <2>2
<1>13. player_paused' => /\ frames_snapshot[k].input = Void
                         /\ \A i \in 1 .. Len(frames_snapshot') : frames_snapshot'[i].input = Void
  <2> SUFFICES ASSUME player_paused'
               PROVE  /\ frames_snapshot[k].input = Void
                      /\ \A i \in 1 .. Len(frames_snapshot') : frames_snapshot'[i].input = Void
    OBVIOUS
  <2>1. id >= frames_snapshot[1].id
    <3>1. 1 \in 1 .. L
      BY <1>2, <1>10
    <3>2. frames_snapshot[1].id = base + 1 - 1
      BY <1>2, <3>1, Zenon
    <3> QED BY <1>2, <1>3, <1>6, <3>2
  <2>2. /\ [id |-> id, input |-> Void] \in FrameSet
        /\ \A i \in 1 .. Len(frames_snapshot') : frames_snapshot'[i].input = Void
    BY <1>3, <1>9, <1>10, <2>1, Zenon DEF RecoverChecked, notify_input_checked
  <2>3. PICK j \in 1 .. L : frames_snapshot[j] = [id |-> id, input |-> Void]
    BY <2>2 DEF FrameSet
  <2>4. frames_snapshot[j].id = id /\ frames_snapshot[j].input = Void
    BY <2>3
  <2>5. id = base + j - 1
    BY <1>2, <2>4
  <2>6. j = k
    BY <1>2, <1>3, <1>6, <2>3, <2>5
  <2> QED BY <2>2, <2>4, <2>6
<1> QED BY <1>2, <1>5, <1>7, <1>8, <1>9, <1>11, <1>12, <1>13, Zenon

LEMMA InvRecoverChecked ==
  ASSUME IInv, NEW id \in Id, RecoverChecked(id)
  PROVE  IInv'
<1> DEFINE L == Len(frames_snapshot)
<1>1. TypeOK /\ TypeOK'
  BY TypeRecover, Zenon DEF IInv, Recover
<1>2. PICK n \in 1 .. L :
        /\ frames_snapshot[n].id = id
        /\ frames_snapshot' = DropFirst(frames_snapshot, n)
        /\ client_snapshots' = DropFirst(client_snapshots, n)
        /\ player_paused' => /\ frames_snapshot[n].input = Void
                             /\ \A i \in 1 .. Len(frames_snapshot') :
                                  frames_snapshot'[i].input = Void
  BY CheckedFrames, Zenon
<1>3. id \in Nat /\ id <= current_input_id /\ IsState(id)
  BY CheckedFrames
<1>4. /\ L \in Nat
      /\ \A i \in 1 .. L :
           /\ frames_snapshot[i].id = input_buffers_counter - L + i - 1
           /\ MadeAs(frames_snapshot[i].id, frames_snapshot[i].input)
           /\ client_snapshots[i] = frames_snapshot[i].id
      /\ Len(client_snapshots) = L
  <2>1. L \in Nat
    BY <1>1 DEF TypeOK
  <2> QED BY <2>1, Zenon DEF IInv, FramesMade
<1>5. /\ Len(frames_snapshot') = L - n
      /\ \A i \in 1 .. L - n : frames_snapshot'[i] = frames_snapshot[n + i]
      /\ Len(client_snapshots') = L - n
      /\ \A i \in 1 .. L - n : client_snapshots'[i] = client_snapshots[n + i]
  <2>1. n \in 0 .. Len(frames_snapshot) /\ n \in 0 .. Len(client_snapshots)
    BY <1>4
  <2>2. frames_snapshot \in Seq(Frame) /\ client_snapshots \in Seq(Nat)
    BY <1>1 DEF TypeOK
  <2>3. /\ Len(DropFirst(frames_snapshot, n)) = Len(frames_snapshot) - n
        /\ \A i \in 1 .. Len(frames_snapshot) - n : DropFirst(frames_snapshot, n)[i] = frames_snapshot[n + i]
    BY <2>1, <2>2, DropFirstType, Zenon
  <2>4. /\ Len(DropFirst(client_snapshots, n)) = Len(client_snapshots) - n
        /\ \A i \in 1 .. Len(client_snapshots) - n : DropFirst(client_snapshots, n)[i] = client_snapshots[n + i]
    BY <2>1, <2>2, DropFirstType, Zenon
  <2>5. Len(client_snapshots) = L
    BY <1>4, Zenon
  <2> QED BY <1>2, <2>3, <2>4, <2>5, Zenon
<1>6. /\ made' = made /\ input_buffers_counter' = input_buffers_counter
      /\ packets' = packets /\ states' = states /\ UNCHANGED serverVars
      /\ current_input_id' = current_input_id /\ server_paused' = server_paused
      /\ snapshots' = snapshots /\ inputs_buffer' = inputs_buffer
  BY Zenon DEF RecoverChecked, serverVars
<1>7. input_buffers_counter \in Nat /\ current_input_id \in Nat
  BY <1>1, <1>3 DEF TypeOK, NoInput
<1>8. id = input_buffers_counter - L + n - 1
  BY <1>2, <1>4, Zenon
<1>9. MadeCounted' /\ PacketsMade' /\ PositionMade'
  BY <1>6, Zenon DEF IInv, MadeCounted, PacketsMade, PositionMade, MadeAs
<1>10. FramesMade'
  <2> SUFFICES ASSUME NEW i \in 1 .. L - n
               PROVE  /\ frames_snapshot'[i].id = input_buffers_counter' - (L - n) + i - 1
                      /\ frames_snapshot'[i].id < Len(made')
                      /\ made'[frames_snapshot'[i].id + 1] = frames_snapshot'[i].input
                      /\ client_snapshots'[i] = frames_snapshot'[i].id
    BY <1>5, Zenon DEF FramesMade, MadeAs
  <2>1. n + i \in 1 .. L
    BY <1>4
  <2>2. /\ frames_snapshot'[i] = frames_snapshot[n + i]
        /\ client_snapshots'[i] = client_snapshots[n + i]
        /\ frames_snapshot[n + i].id = input_buffers_counter - L + (n + i) - 1
        /\ MadeAs(frames_snapshot[n + i].id, frames_snapshot[n + i].input)
        /\ client_snapshots[n + i] = frames_snapshot[n + i].id
    BY <1>4, <1>5, <2>1, Zenon
  <2>3. ASSUME NEW c \in Nat, NEW l \in Nat, NEW a \in Nat, NEW b \in Nat
        PROVE  c - l + (a + b) - 1 = c - (l - a) + b - 1
    OBVIOUS
  <2>4. n \in Nat /\ i \in Nat
    BY <1>4
  <2>5. frames_snapshot'[i].id = input_buffers_counter' - (L - n) + i - 1
    BY <1>4, <1>6, <1>7, <2>2, <2>3, <2>4
  <2> QED BY <1>6, <2>2, <2>5, Zenon DEF MadeAs
<1>11. ReleasedPassed'
  BY <1>3, <1>4, <1>5, <1>6, <1>7, <1>8 DEF IInv, ReleasedPassed
<1>12. StatesPassed' /\ StatesSorted' /\ QuietStatesPause'
  <2>1. PICK m \in 0 .. Len(server_snapshots) :
          /\ PopsBelow(server_snapshots, m, id)
          /\ server_snapshots' = DropFirst(server_snapshots, m + 1)
    BY Zenon DEF RecoverChecked
  <2>2. \E i \in 1 .. Len(server_snapshots) : server_snapshots[i] = id
    BY Zenon DEF RecoverChecked, Checkable
  <2>3. m + 1 \in 0 .. Len(server_snapshots)
    <3>1. Len(server_snapshots) \in Nat
      BY <1>1 DEF TypeOK
    <3>2. PICK i \in 1 .. Len(server_snapshots) : server_snapshots[i] = id
      BY <2>2
    <3>3. ~(i \in 1 .. m)
      <4> SUFFICES ASSUME i \in 1 .. m PROVE FALSE
        OBVIOUS
      <4>1. server_snapshots[i] < id
        BY <2>1, Zenon DEF PopsBelow
      <4> QED BY <1>3, <3>2, <4>1
    <3> QED BY <2>1, <3>1, <3>2, <3>3
  <2> QED BY <1>6, <2>1, <2>3, InvServerSnapshotsDropped, Zenon
<1>13. PausedIsQuiet'
  <2> SUFFICES ASSUME player_paused'
               PROVE  server_paused /\ Quiet(current_input_id)
    BY <1>6, <1>7, Zenon DEF PausedIsQuiet, Quiet
  <2>1. Quiet(id)
    <3> SUFFICES ASSUME NEW j \in id .. Len(made) - 1 PROVE made[j + 1] = Void
      BY DEF Quiet
    <3>1. Len(made) = input_buffers_counter
      BY DEF IInv, MadeCounted
    <3> DEFINE i == j - (input_buffers_counter - L) + 1
    <3>2. i \in n .. L /\ j \in Nat
      BY <1>3, <1>4, <1>7, <1>8, <3>1
    <3>3. frames_snapshot[i].input = Void
      <4>1. CASE i = n
        BY <1>2, <4>1
      <4>2. CASE i > n
        <5>1. i - n \in 1 .. L - n /\ n + (i - n) = i
          BY <1>4, <3>2, <4>2
        <5> HIDE DEF i
        <5>2. frames_snapshot'[i - n].input = Void
          BY <1>2, <1>5, <5>1, Zenon
        <5> QED BY <1>5, <5>1, <5>2, Zenon
      <4> QED BY <1>4, <3>2, <4>1, <4>2
    <3>4. i \in 1 .. L
      BY <1>4, <3>2
    <3>5. frames_snapshot[i].id = j
      <4>1. frames_snapshot[i].id = input_buffers_counter - L + i - 1
        BY <1>4, <3>4, Zenon
      <4> QED BY <1>4, <1>7, <3>2, <4>1
    <3>6. MadeAs(frames_snapshot[i].id, frames_snapshot[i].input)
      BY <1>4, <3>4, Zenon
    <3> QED BY <3>3, <3>5, <3>6, Zenon DEF MadeAs
  <2>2. server_paused
    BY <1>3, <2>1, Zenon DEF IInv, QuietStatesPause
  <2>3. Quiet(current_input_id)
    BY <1>3, <1>7, <2>1 DEF Quiet
  <2> QED BY <2>2, <2>3
<1>14. ServerInputsAreThePlayers' /\ StoredAhead'
  BY <1>6, Zenon DEF IInv, ServerInputsAreThePlayers, StoredAhead, Received, MadeAs
<1> QED BY <1>1, <1>9, <1>10, <1>11, <1>12, <1>13, <1>14, Zenon DEF IInv

LEMMA InvRecoverPaused == IInv /\ RecoverPaused => IInv'
<1> SUFFICES ASSUME IInv, RecoverPaused PROVE IInv'
  OBVIOUS
<1>1. TypeOK /\ TypeOK'
  BY TypeRecover, Zenon DEF IInv, Recover
<1>2. /\ UNCHANGED <<frames_snapshot, client_snapshots, input_buffers_counter, made,
                     player_paused, packets, states>>
      /\ UNCHANGED serverVars
      /\ UNCHANGED <<snapshots, current_input_id, inputs_buffer, server_paused>>
  BY Zenon DEF RecoverPaused, playerVars, serverVars
<1>3. /\ MadeCounted' /\ FramesMade' /\ PacketsMade' /\ ReleasedPassed' /\ PositionMade'
      /\ PausedIsQuiet' /\ ServerInputsAreThePlayers' /\ StoredAhead'
  BY <1>2, Zenon DEF IInv, MadeCounted, FramesMade, PacketsMade, ReleasedPassed, PositionMade,
       PausedIsQuiet, ServerInputsAreThePlayers, StoredAhead, MadeAs, Quiet, Received
<1>4. StatesPassed' /\ StatesSorted' /\ QuietStatesPause'
  <2>1. Len(server_snapshots') = 0
    BY DEF RecoverPaused
  <2>2. \A id \in Nat : IsState(id)' => IsState(id)
    BY <1>2, <2>1 DEF IsState
  <2>3. StatesPassed' /\ StatesSorted'
    BY <1>2, <2>1 DEF IInv, StatesPassed, StatesSorted
  <2> QED BY <1>2, <2>2, <2>3, Zenon DEF IInv, QuietStatesPause, Quiet
<1> QED BY <1>1, <1>3, <1>4, Zenon DEF IInv

\* The invariant speaks of these variables only.
LEMMA InvUnchanged ==
  ASSUME IInv, TypeOK',
         UNCHANGED <<frames_snapshot, client_snapshots, input_buffers_counter, made, player_paused,
                     server_snapshots, states, snapshots, current_input_id, inputs_buffer, server_paused>>,
         packets' \subseteq packets
  PROVE  IInv'
<1>1. PacketsMade'
  BY Zenon DEF IInv, PacketsMade, MadeAs
<1> QED BY <1>1, Zenon DEF IInv, MadeCounted, FramesMade, ReleasedPassed, PositionMade, StatesPassed,
             StatesSorted, QuietStatesPause, IsState, PausedIsQuiet, ServerInputsAreThePlayers,
             StoredAhead, MadeAs, Quiet, Received

LEMMA InvReceiveInputs ==
  ASSUME IInv, NEW packet \in packets, ReceiveInputs(packet)
  PROVE  IInv'
<1> DEFINE N == Len(packet.inputs)
           New == {id \in packet.first .. packet.first + N - 1 :
                     current_input_id = NoInput \/ current_input_id < id}
<1>1. TypeOK /\ TypeOK'
  BY TypeReceiveInputs, Zenon DEF IInv
<1>2. packet.first \in Nat /\ packet.inputs \in Seq(Inputs) /\ N \in Nat
  BY <1>1 DEF TypeOK, Packet
<1>3. /\ UNCHANGED <<frames_snapshot, client_snapshots, input_buffers_counter, made, player_paused,
                     server_snapshots, states, current_input_id, inputs_buffer, server_paused, packets>>
      /\ snapshots' = [id \in Received \cup New |->
                         IF id \in Received THEN snapshots[id]
                         ELSE packet.inputs[id - packet.first + 1]]
  BY Zenon DEF ReceiveInputs, clientVars, playerVars
<1>4. /\ MadeCounted' /\ FramesMade' /\ PacketsMade' /\ ReleasedPassed' /\ PositionMade'
      /\ StatesPassed' /\ StatesSorted' /\ QuietStatesPause' /\ PausedIsQuiet'
  BY <1>3, Zenon DEF IInv, MadeCounted, FramesMade, PacketsMade, ReleasedPassed, PositionMade,
       StatesPassed, StatesSorted, QuietStatesPause, IsState, PausedIsQuiet, MadeAs, Quiet
<1>5. ASSUME NEW id \in Received'
      PROVE  MadeAs(id, snapshots'[id]) /\ current_input_id < id
  <2>1. id \in Received \cup New
    BY <1>3, <1>5, Zenon DEF Received
  <2>2. CASE id \in Received
    BY <1>3, <2>1, <2>2, Zenon DEF IInv, ServerInputsAreThePlayers, StoredAhead
  <2>3. CASE id \in New /\ id \notin Received
    <3> DEFINE i == id - packet.first + 1
    <3>1. i \in 1 .. N /\ packet.first + i - 1 = id
      BY <1>2, <2>3
    <3>2. snapshots'[id] = packet.inputs[i]
      BY <1>3, <2>1, <2>3, Zenon
    <3> HIDE DEF i
    <3>3. MadeAs(packet.first + i - 1, packet.inputs[i])
      BY <3>1, Zenon DEF IInv, PacketsMade
    <3>4. current_input_id < id
      BY <1>2, <2>3 DEF NoInput
    <3> QED BY <3>1, <3>2, <3>3, <3>4
  <2> QED BY <2>1, <2>2, <2>3
<1>6. ServerInputsAreThePlayers' /\ StoredAhead'
  BY <1>3, <1>5, Zenon DEF IInv, ServerInputsAreThePlayers, StoredAhead, MadeAs
<1> QED BY <1>1, <1>4, <1>6, Zenon DEF IInv

\* What every case of the server's tick has to show.
LEMMA InvExecute ==
  ASSUME IInv, TypeOK',
         NEW id \in Nat \cup {NoInput}, NEW input, NEW paused \in BOOLEAN, NEW send \in BOOLEAN,
         Execute(id, input, paused, send),
         current_input_id <= id, id < input_buffers_counter,
         \A i \in Received' : i \in Received /\ snapshots'[i] = snapshots[i] /\ id < i,
         id /= NoInput => MadeAs(id, input) \/ (paused /\ input = Void),
         id \in Nat /\ server_paused /\ Quiet(id) => paused
  PROVE  IInv'
<1>1. TypeOK
  BY DEF IInv
<1>2. /\ UNCHANGED <<frames_snapshot, client_snapshots, input_buffers_counter, made, player_paused,
                     server_snapshots, packets>>
      /\ current_input_id' = id
      /\ inputs_buffer' = input
      /\ server_paused' = (paused \/ (send /\ input = Void))
      /\ states' = IF send THEN Append(states, id) ELSE states
  BY Zenon DEF Execute, clientVars, playerVars
<1>3. MadeCounted' /\ FramesMade' /\ PacketsMade'
  BY <1>2, Zenon DEF IInv, MadeCounted, FramesMade, PacketsMade, MadeAs
<1>4. ReleasedPassed' /\ PositionMade'
  BY <1>1, <1>2 DEF IInv, ReleasedPassed, PositionMade, TypeOK, NoInput
<1>5. /\ Len(states) \in Nat
      /\ \/ states' = states
         \/ /\ send
            /\ Len(states') = Len(states) + 1
            /\ \A i \in 1 .. Len(states) : states'[i] = states[i]
            /\ states'[Len(states) + 1] = id
  <2>1. states \in Seq(Nat \cup {NoInput})
    BY <1>1 DEF TypeOK
  <2>2. /\ Len(states) \in Nat
        /\ Len(Append(states, id)) = Len(states) + 1
        /\ \A i \in 1 .. Len(states) : Append(states, id)[i] = states[i]
        /\ Append(states, id)[Len(states) + 1] = id
    BY <2>1
  <2>3. CASE send
    BY <1>2, <2>2, <2>3, Zenon
  <2>4. CASE ~send
    BY <1>2, <2>2, <2>4, Zenon
  <2> QED BY <2>3, <2>4, Zenon
<1>6. \A i \in 1 .. Len(states) : states[i] \in Int /\ states[i] <= current_input_id
  BY <1>1 DEF TypeOK, NoInput, IInv, StatesPassed
<1>7. \A i \in 1 .. Len(server_snapshots) : server_snapshots[i] \in Int /\ server_snapshots[i] <= current_input_id
  BY <1>1 DEF TypeOK, IInv, StatesPassed
<1>8. current_input_id \in Int /\ id \in Int
  BY <1>1 DEF TypeOK, NoInput
<1>9. StatesPassed'
  BY <1>2, <1>5, <1>6, <1>7, <1>8 DEF StatesPassed
<1>10. StatesSorted'
  <2>1. StatesSorted
    BY DEF IInv
  <2>2. CASE states' = states
    BY <1>2, <2>1, <2>2, Zenon DEF StatesSorted
  <2>3. CASE /\ Len(states') = Len(states) + 1
             /\ \A i \in 1 .. Len(states) : states'[i] = states[i]
             /\ states'[Len(states) + 1] = id
    <3>1. \A i, j \in 1 .. Len(states) + 1 : i < j => states'[i] <= states'[j]
      BY <1>5, <1>6, <1>8, <2>1, <2>3 DEF StatesSorted
    <3>2. \A i \in 1 .. Len(server_snapshots), j \in 1 .. Len(states) + 1 :
            server_snapshots[i] <= states'[j]
      BY <1>5, <1>7, <1>8, <2>1, <2>3 DEF StatesSorted
    <3> QED BY <1>2, <2>1, <2>3, <3>1, <3>2, Zenon DEF StatesSorted
  <2> QED BY <1>5, <2>2, <2>3
<1>11. ASSUME NEW x \in Nat, x <= current_input_id, server_paused, Quiet(x) PROVE paused
  <2>1. id \in Nat
    BY <1>8, <1>11 DEF NoInput
  <2>2. Quiet(id)
    BY <1>8, <1>11, <2>1 DEF Quiet
  <2> QED BY <1>11, <2>1, <2>2, Zenon
<1>12. QuietStatesPause'
  <2> SUFFICES ASSUME NEW x \in Nat, IsState(x)', Quiet(x)
               PROVE  server_paused'
    BY <1>2, Zenon DEF QuietStatesPause, Quiet
  <2>1. CASE IsState(x)
    <3>1. server_paused
      BY <2>1, Zenon DEF IInv, QuietStatesPause
    <3>2. x <= current_input_id
      BY <2>1, <1>6, <1>7 DEF IsState
    <3>3. paused
      BY <1>11, <3>1, <3>2, Zenon
    <3> QED BY <1>2, <3>3, Zenon
  <2>2. CASE ~IsState(x)
    <3>1. x = id /\ send
      BY <1>2, <1>5, <2>2 DEF IsState
    <3>2. CASE MadeAs(id, input)
      <4>1. Len(made) \in Nat
        BY <1>1 DEF TypeOK
      <4>2. id \in id .. Len(made) - 1
        BY <1>8, <3>2, <4>1 DEF MadeAs
      <4>3. input = Void
        BY <3>1, <3>2, <4>2, Zenon DEF MadeAs, Quiet
      <4> QED BY <1>2, <3>1, <4>3, Zenon
    <3>3. CASE paused /\ input = Void
      BY <1>2, <3>3, Zenon
    <3>4. id /= NoInput
      BY <3>1 DEF NoInput
    <3> QED BY <3>2, <3>3, <3>4, Zenon
  <2> QED BY <2>1, <2>2
<1>13. PausedIsQuiet'
  <2> SUFFICES ASSUME player_paused
               PROVE  server_paused' /\ id \in Nat /\ Quiet(id)
    BY <1>2, Zenon DEF PausedIsQuiet, Quiet
  <2>1. server_paused /\ current_input_id \in Nat /\ Quiet(current_input_id)
    BY Zenon DEF IInv, PausedIsQuiet
  <2>2. current_input_id <= current_input_id
    BY <1>8
  <2>3. paused
    BY <1>11, <2>1, <2>2, Zenon
  <2>4. id \in Nat /\ Quiet(id)
    BY <1>8, <2>1 DEF Quiet
  <2> QED BY <1>2, <2>3, <2>4, Zenon
<1>14. StoredAhead'
  BY <1>2, Zenon DEF StoredAhead
<1>15. ServerInputsAreThePlayers'
  <2>1. \A i \in Received' : MadeAs(i, snapshots'[i])
    BY Zenon DEF IInv, ServerInputsAreThePlayers
  <2>2. id /= NoInput => MadeAs(id, input) \/ (server_paused' /\ input = Void)
    BY <1>2, Zenon
  <2> QED BY <1>2, <2>1, <2>2, Zenon DEF ServerInputsAreThePlayers, MadeAs
<1> QED BY <1>3, <1>4, <1>9, <1>10, <1>12, <1>13, <1>14, <1>15, Zenon DEF IInv

\* What a tick that takes the received input id leaves of the others.
LEMMA KeepAfterKeeps ==
  ASSUME NEW id, snapshots' = KeepAfter(id)
  PROVE  \A i \in Received' : i \in Received /\ snapshots'[i] = snapshots[i] /\ id < i
BY DEF KeepAfter, Received

LEMMA InvServerProcess ==
  ASSUME IInv, NEW send \in BOOLEAN, ServerProcess(send)
  PROVE  IInv'
<1>1. TypeOK /\ TypeOK'
  BY TypeServerProcess, Zenon DEF IInv
<1>2. /\ current_input_id \in Nat \cup {NoInput}
      /\ current_input_id \in Int
      /\ current_input_id <= current_input_id
      /\ server_paused \in BOOLEAN
      /\ input_buffers_counter \in Nat
      /\ current_input_id < input_buffers_counter
  BY <1>1 DEF TypeOK, NoInput, IInv, PositionMade
<1>3. ASSUME NEW id \in Received
      PROVE  /\ id \in Nat /\ id \in Nat \cup {NoInput} /\ id /= NoInput
             /\ current_input_id <= id
             /\ id < input_buffers_counter
             /\ MadeAs(id, snapshots[id])
             /\ Quiet(id) => snapshots[id] = Void
  <2>1. id \in Nat /\ current_input_id < id /\ MadeAs(id, snapshots[id])
    BY <1>1 DEF TypeOK, IInv, StoredAhead, ServerInputsAreThePlayers
  <2>2. Len(made) \in Nat /\ Len(made) = input_buffers_counter
    BY <1>1 DEF TypeOK, IInv, MadeCounted
  <2>3. id < input_buffers_counter /\ id \in id .. Len(made) - 1
    BY <2>1, <2>2 DEF MadeAs
  <2>4. Quiet(id) => snapshots[id] = Void
    BY <2>1, <2>3, Zenon DEF MadeAs, Quiet
  <2>5. current_input_id <= id /\ id /= NoInput
    BY <1>2, <2>1 DEF NoInput
  <2> QED BY <2>1, <2>3, <2>4, <2>5
<1>4. snapshots' = snapshots =>
        \A i \in Received' : i \in Received /\ snapshots'[i] = snapshots[i] /\ current_input_id < i
  BY Zenon DEF IInv, StoredAhead, Received
<1>5. current_input_id /= NoInput =>
        MadeAs(current_input_id, inputs_buffer) \/ (server_paused /\ inputs_buffer = Void)
  BY Zenon DEF IInv, ServerInputsAreThePlayers
<1>5a. ASSUME NEW id \in Received, NEW paused \in BOOLEAN, snapshots' = KeepAfter(id),
             Execute(id, snapshots[id], paused, send),
             server_paused /\ snapshots[id] = Void => paused
      PROVE  IInv'
  <2>1. \A i \in Received' : i \in Received /\ snapshots'[i] = snapshots[i] /\ id < i
    BY <1>5a, KeepAfterKeeps, Zenon
  <2>2. id /= NoInput => MadeAs(id, snapshots[id]) \/ (paused /\ snapshots[id] = Void)
    BY <1>3, Zenon
  <2>3. id \in Nat /\ server_paused /\ Quiet(id) => paused
    BY <1>5a, <1>3, Zenon
  <2> QED BY <1>5a, <1>1, <1>3, <2>1, <2>2, <2>3, InvExecute, Zenon
<1>6. CASE FetchNothingYet(send)
  <2>1. snapshots' = snapshots /\ Execute(current_input_id, inputs_buffer, server_paused, send)
    BY <1>6, Zenon DEF FetchNothingYet
  <2> QED BY <1>1, <1>2, <1>4, <1>5, <2>1, InvExecute, Zenon
<1>7. CASE \E front \in Received : FetchFirst(front, send)
  <2>1. PICK front \in Received : FetchFirst(front, send)
    BY <1>7
  <2>2. snapshots' = KeepAfter(front) /\ Execute(front, snapshots[front], server_paused, send)
    BY <2>1, Zenon DEF FetchFirst
  <2> QED BY <1>5a, <1>2, <2>2, Zenon
<1>8. CASE \E front \in Received : FetchResume(front, send)
  <2>1. PICK front \in Received : FetchResume(front, send)
    BY <1>8
  <2>2. snapshots' = KeepAfter(front) /\ Execute(front, snapshots[front], snapshots[front] = Void, send)
    BY <2>1, Zenon DEF FetchResume
  <2>3. (snapshots[front] = Void) \in BOOLEAN
    BY Zenon
  <2> QED BY <1>5a, <2>2, <2>3, Zenon
<1>9. CASE FetchPaused(send)
  <2>1. /\ server_paused /\ snapshots' = snapshots
        /\ Execute(current_input_id, Void, server_paused, send)
    BY <1>9, Zenon DEF FetchPaused
  <2> QED BY <1>1, <1>2, <1>4, <2>1, InvExecute, Zenon
<1>10. CASE FetchMissing(send) \/ FetchWait(send)
  <2>1. snapshots' = snapshots /\ Execute(current_input_id, inputs_buffer, server_paused, send)
    BY <1>10, Zenon DEF FetchMissing, FetchWait
  <2> QED BY <1>1, <1>2, <1>4, <1>5, <2>1, InvExecute, Zenon
<1>11. CASE FetchNext(send)
  <2>1. /\ ~server_paused /\ next_input_id \in Received
        /\ snapshots' = KeepAfter(next_input_id)
        /\ Execute(next_input_id, snapshots[next_input_id], server_paused, send)
    BY <1>11, Zenon DEF FetchNext, IsFront
  <2> QED BY <1>5a, <1>2, <2>1, Zenon
<1>12. CASE \E id \in Received : FetchRecover(id, send)
  <2>1. PICK id \in Received : FetchRecover(id, send)
    BY <1>12
  <2>2. snapshots' = KeepAfter(id) /\ Execute(id, snapshots[id], server_paused, send)
    BY <2>1, Zenon DEF FetchRecover
  <2> QED BY <1>5a, <1>2, <2>2, Zenon
<1> QED BY <1>6, <1>7, <1>8, <1>9, <1>10, <1>11, <1>12, Zenon DEF ServerProcess

LEMMA InvSetEnabled == IInv /\ SetEnabled => IInv'
<1> SUFFICES ASSUME IInv, SetEnabled PROVE IInv'
  OBVIOUS
<1>1. TypeOK'
  BY TypeSetEnabled, Zenon DEF IInv
<1>2. UNCHANGED <<frames_snapshot, client_snapshots, input_buffers_counter, made, player_paused,
                  server_snapshots, states, current_input_id, inputs_buffer, server_paused, packets>>
  BY Zenon DEF SetEnabled, clientVars, playerVars
<1>3. Received' = {}
  BY DEF SetEnabled, Received
<1>4. /\ MadeCounted' /\ FramesMade' /\ PacketsMade' /\ ReleasedPassed' /\ PositionMade'
      /\ StatesPassed' /\ StatesSorted' /\ QuietStatesPause' /\ PausedIsQuiet'
  BY <1>2, Zenon DEF IInv, MadeCounted, FramesMade, PacketsMade, ReleasedPassed, PositionMade,
       StatesPassed, StatesSorted, QuietStatesPause, IsState, PausedIsQuiet, MadeAs, Quiet
<1>5. ServerInputsAreThePlayers' /\ StoredAhead'
  BY <1>2, <1>3, Zenon DEF IInv, ServerInputsAreThePlayers, StoredAhead, MadeAs
<1> QED BY <1>1, <1>4, <1>5, Zenon DEF IInv

LEMMA InvStep == IInv /\ [Next]_vars => IInv'
<1> SUFFICES ASSUME IInv, [Next]_vars PROVE IInv'
  OBVIOUS
<1>1. TypeOK'
  BY TypeStep, Zenon DEF IInv
<1> DEFINE Same == UNCHANGED <<frames_snapshot, client_snapshots, input_buffers_counter, made,
                               player_paused, server_snapshots, states, snapshots,
                               current_input_id, inputs_buffer, server_paused>>
<1>2. ASSUME Same, packets' \subseteq packets PROVE IInv'
  BY <1>1, <1>2, InvUnchanged, Zenon
<1>3. CASE SubTickFull \/ SubTickPaused \/ RecoverNothing
  <2>1. Same /\ packets' = packets
    BY <1>3, Zenon DEF SubTickFull, SubTickPaused, RecoverNothing, playerVars, serverVars
  <2>2. packets' \subseteq packets
    BY <2>1
  <2> QED BY <1>2, <2>1, <2>2
<1>4. CASE \E input \in Inputs : SubTickStream(input)
  BY <1>4, InvSubTickStream
<1>5. CASE RecoverPaused
  BY <1>5, InvRecoverPaused
<1>6. CASE \E id \in Id : RecoverChecked(id)
  BY <1>6, InvRecoverChecked
<1>7. CASE ReceiveState
  BY <1>7, InvReceiveState
<1>8. CASE \E packet \in packets : ReceiveInputs(packet)
  BY <1>8, InvReceiveInputs
<1>9. CASE \E packet \in packets : LosePacket(packet)
  <2>1. Same /\ packets' \subseteq packets
    <3>1. Same
      BY <1>9, Zenon DEF LosePacket, clientVars, playerVars, serverVars
    <3>2. packets' \subseteq packets
      BY <1>9 DEF LosePacket
    <3> QED BY <3>1, <3>2
  <2> QED BY <1>2, <2>1
<1>10. CASE \E send \in BOOLEAN : ServerProcess(send)
  BY <1>10, InvServerProcess
<1>11. CASE SetEnabled
  BY <1>11, InvSetEnabled
<1>12. CASE UNCHANGED vars
  <2>1. Same /\ packets' = packets
    BY <1>12, Zenon DEF vars, clientVars, playerVars, serverVars
  <2>2. packets' \subseteq packets
    BY <2>1
  <2> QED BY <1>2, <2>1, <2>2
<1> QED BY <1>3, <1>4, <1>5, <1>6, <1>7, <1>8, <1>9, <1>10, <1>11, <1>12, Zenon
        DEF Next, SubTick, Recover

-----------------------------------------------------------------------------
LEMMA InvFrames == IInv => SnapshotsFollowFrames /\ ForgottenArePassed /\ PauseAgreed
<1> SUFFICES ASSUME IInv PROVE SnapshotsFollowFrames /\ ForgottenArePassed /\ PauseAgreed
  OBVIOUS
<1> DEFINE L == Len(frames_snapshot)
<1>1. /\ L \in Nat /\ input_buffers_counter \in Nat
      /\ client_snapshots \in Seq(Nat) /\ frames_snapshot \in Seq(Frame)
      /\ current_input_id \in Int
  BY DEF IInv, TypeOK, NoInput
<1>2. Len(FrameIds) = L /\ \A i \in 1 .. L : FrameIds[i] = frames_snapshot[i].id
  BY <1>1 DEF FrameIds
<1>3. /\ Len(client_snapshots) = L
      /\ \A i \in 1 .. L : /\ frames_snapshot[i].id = input_buffers_counter - L + i - 1
                           /\ client_snapshots[i] = frames_snapshot[i].id
  BY Zenon DEF IInv, FramesMade
<1>4. client_snapshots = FrameIds
  <2>1. client_snapshots = [i \in 1 .. L |-> client_snapshots[i]]
    BY <1>1, <1>3
  <2>2. FrameIds = [i \in 1 .. L |-> frames_snapshot[i].id]
    BY DEF FrameIds
  <2> QED BY <1>3, <2>1, <2>2
<1>5. SnapshotsFollowFrames
  BY <1>2, <1>3, <1>4, Zenon DEF SnapshotsFollowFrames
<1>6. ForgottenArePassed
  <2> SUFFICES ASSUME NEW id \in 0 .. input_buffers_counter - 1, ~(id <= current_input_id)
               PROVE  \E i \in 1 .. Len(FrameIds) : FrameIds[i] = id
    BY DEF ForgottenArePassed
  <2> DEFINE k == id - (input_buffers_counter - L) + 1
  <2>1. k \in 1 .. L /\ input_buffers_counter - L + k - 1 = id
    BY <1>1 DEF IInv, ReleasedPassed
  <2> HIDE DEF k
  <2> QED BY <1>2, <1>3, <2>1
<1>7. PauseAgreed
  BY Zenon DEF IInv, PausedIsQuiet, PauseAgreed
<1> QED BY <1>5, <1>6, <1>7

LEMMA InvStates == IInv => StatesInOrder
<1> SUFFICES ASSUME IInv PROVE StatesInOrder
  OBVIOUS
<1> DEFINE S == Len(server_snapshots)
           T == Len(states)
           sent == server_snapshots \o states
<1>1. /\ S \in Nat /\ T \in Nat
      /\ server_snapshots \in Seq(Nat \cup {NoInput}) /\ states \in Seq(Nat \cup {NoInput})
  <2>1. server_snapshots \in Seq(Nat) /\ states \in Seq(Nat \cup {NoInput})
    BY DEF IInv, TypeOK
  <2>2. \A i \in 1 .. S : server_snapshots[i] \in Nat \cup {NoInput}
    BY <2>1
  <2>3. server_snapshots = [i \in 1 .. S |-> server_snapshots[i]] /\ S \in Nat /\ T \in Nat
    BY <2>1
  <2>4. [i \in 1 .. S |-> server_snapshots[i]] \in Seq(Nat \cup {NoInput})
    BY <2>2, <2>3
  <2> QED BY <2>1, <2>3, <2>4
<1>2. /\ Len(sent) = S + T
      /\ \A i \in 1 .. S + T : sent[i] = IF i <= S THEN server_snapshots[i] ELSE states[i - S]
  BY <1>1
<1> HIDE DEF sent
<1>3. StatesSorted
  BY DEF IInv
<1>4. ASSUME NEW i \in 1 .. S + T, NEW j \in 1 .. S + T, i < j
      PROVE  sent[i] <= sent[j]
  <2>1. CASE j <= S
    <3>1. i \in 1 .. S /\ j \in 1 .. S /\ i <= S
      BY <1>1, <1>4, <2>1
    <3> QED BY <1>2, <1>3, <1>4, <2>1, <3>1, Zenon DEF StatesSorted
  <2>2. CASE i <= S /\ ~(j <= S)
    <3>1. i \in 1 .. S /\ j - S \in 1 .. T
      BY <1>1, <2>2
    <3> QED BY <1>2, <1>3, <2>2, <3>1, Zenon DEF StatesSorted
  <2>3. CASE ~(i <= S)
    <3>1. i - S \in 1 .. T /\ j - S \in 1 .. T /\ i - S < j - S /\ ~(j <= S)
      BY <1>1, <1>4, <2>3
    <3> QED BY <1>2, <1>3, <2>3, <3>1, Zenon DEF StatesSorted
  <2>4. j <= S \/ (i <= S /\ ~(j <= S)) \/ ~(i <= S)
    BY Zenon
  <2> QED BY <2>1, <2>2, <2>3, <2>4
<1> QED BY <1>2, <1>4 DEF StatesInOrder, sent

LEMMA IInvHolds == Spec => []IInv
BY InvInit, InvStep, PTL DEF Spec

(* Whatever is lost, repeated or reordered, the server executes under an id *)
(* only what the player made under it (receive_inputs, fetch_next_input).   *)
THEOREM GenuineInputs == Spec => []ServerInputsAreThePlayers
<1>1. IInv => ServerInputsAreThePlayers
  BY DEF IInv
<1> QED BY <1>1, IInvHolds, PTL

(* The CRASH_CONDs of receive_inputs and fetch_next_input, of the recovery  *)
(* and of notify_input_checked never fire, and store_controllers_snapshot   *)
(* never refuses a state as not expected.                                   *)
THEOREM AssertionsNeverFail == Spec => []AssertionsHold
<1>1. IInv => AssertionsHold
  BY InvFrames, InvStates, Zenon DEF IInv, AssertionsHold
<1> QED BY <1>1, IInvHolds, PTL

(* notify_input_checked never forgets an input the server may still need.   *)
THEOREM NothingForgottenEarly == Spec => []ForgottenArePassed
<1>1. IInv => ForgottenArePassed
  BY InvFrames, Zenon
<1> QED BY <1>1, IInvHolds, PTL

(* A player that has stopped streaming has a server that knows it: no       *)
(* missing input is taken for a lost one (streaming_paused on both sides).  *)
THEOREM PausesAgree == Spec => []PauseAgreed
<1>1. IInv => PauseAgreed
  BY InvFrames, Zenon
<1> QED BY <1>1, IInvHolds, PTL

(* The search for missing inputs drops nothing but inputs similar to the    *)
(* one being executed (fetch_next_input).                                   *)
THEOREM DropsAreSimilar == Spec => OnlySimilarInputsAreDropped
<1> DEFINE Dropped == \A id \in Received \ DOMAIN snapshots' :
                        id < current_input_id' => snapshots[id] = inputs_buffer
<1>1. IInv /\ [Next]_vars => [Dropped]_vars
  <2> SUFFICES ASSUME IInv, [Next]_vars, NEW id \in Received \ DOMAIN snapshots',
                      id < current_input_id'
               PROVE  snapshots[id] = inputs_buffer \/ UNCHANGED vars
    BY Zenon
  <2>1. TypeOK /\ StoredAhead /\ id \in Nat /\ current_input_id < id
    BY DEF IInv, TypeOK, StoredAhead
  <2>2. ~(snapshots' = snapshots)
    BY Zenon DEF Received
  <2>3. ~(current_input_id' = current_input_id)
    BY <2>1 DEF TypeOK, NoInput
  <2>4. PICK send \in BOOLEAN : ServerProcess(send)
    <3>1. ~(SubTick \/ Recover \/ ReceiveState \/ SetEnabled \/ UNCHANGED vars)
      BY <2>2, <2>3, Zenon DEF SubTick, SubTickFull, SubTickPaused, SubTickStream, Recover,
         RecoverNothing, RecoverPaused, RecoverChecked, ReceiveState, SetEnabled, vars, serverVars
    <3>2. ~(\E packet \in packets : ReceiveInputs(packet) \/ LosePacket(packet))
      BY <2>2, <2>3, Zenon DEF ReceiveInputs, LosePacket, serverVars
    <3> QED BY <3>1, <3>2, Zenon DEF Next
  <2>5. ~(FetchNothingYet(send) \/ FetchPaused(send) \/ FetchMissing(send) \/ FetchWait(send))
    BY <2>2, Zenon DEF FetchNothingYet, FetchPaused, FetchMissing, FetchWait
  <2>6. ASSUME NEW front \in Received, IsFront(front), current_input_id' = front
        PROVE  FALSE
    <3>1. front \in Nat /\ front <= id
      BY <2>1, <2>6 DEF IsFront, TypeOK
    <3> QED BY <2>1, <2>6, <3>1
  <2>7. ~(\/ \E front \in Received : FetchFirst(front, send) \/ FetchResume(front, send)
          \/ FetchNext(send))
    BY <2>6, Zenon DEF FetchFirst, FetchResume, FetchNext, IsFront, Execute
  <2>8. PICK found \in Received : FetchRecover(found, send)
    BY <2>4, <2>5, <2>7, Zenon DEF ServerProcess
  <2>9. found = current_input_id' /\ IsRecovered(found) /\ found \in Searched
    BY <2>8, Zenon DEF FetchRecover, Execute, IsRecovered
  <2>10. id \in Searched
    <3>1. /\ found \in Nat /\ id < found
          /\ found <= next_input_id + ghost_input_count
          /\ Cardinality({j \in Received : j <= found}) <= ghost_input_count
      BY <2>1, <2>9 DEF TypeOK, Searched
    <3>2. id <= next_input_id + ghost_input_count
      BY <2>1, <3>1 DEF TypeOK, NoInput, next_input_id
    <3>3. Cardinality({j \in Received : j <= id}) <= ghost_input_count
      <4> DEFINE Upto(k) == {j \in Received : j <= k}
      <4>1. Upto(id) \subseteq Upto(found)
        BY <2>1, <3>1 DEF TypeOK
      <4>2. IsFiniteSet(Upto(found))
        <5>1. Upto(found) \subseteq 0 .. found
          BY <2>1, <3>1 DEF TypeOK
        <5>2. IsFiniteSet(0 .. found)
          BY <3>1, FS_Interval
        <5> QED BY <5>1, <5>2, FS_Subset, Zenon
      <4>3. /\ Cardinality(Upto(id)) \in Nat /\ Cardinality(Upto(found)) \in Nat
            /\ Cardinality(Upto(id)) <= Cardinality(Upto(found))
        BY <4>1, <4>2, FS_Subset, FS_CardinalityType
      <4> QED BY <2>1, <3>1, <4>3 DEF TypeOK
    <3> QED BY <3>2, <3>3 DEF Searched
  <2> QED BY <2>9, <2>10, Zenon DEF IsRecovered
<1> QED BY <1>1, InvInit, InvStep, PTL DEF Spec, OnlySimilarInputsAreDropped

-----------------------------------------------------------------------------
LEMMA LogInitHolds == Init => Log!LogInit
<1> SUFFICES ASSUME Init PROVE Log!LogInit
  OBVIOUS
<1>1. made = <<>> /\ current_input_id = -1
  BY DEF Init, NoInput
<1>2. input_buffers_counter - Len(frames_snapshot) = 0
  <2>1. input_buffers_counter = 0 /\ frames_snapshot = <<>>
    BY Zenon DEF Init
  <2>2. Len(frames_snapshot) = 0
    BY <2>1
  <2>3. 0 - 0 = 0
    OBVIOUS
  <2> QED BY <2>1, <2>2, <2>3, Zenon
<1> QED BY <1>1, <1>2 DEF Log!LogInit

\* A tick of the server only moves its position forward.
LEMMA ServerMovesForward ==
  ASSUME IInv, NEW send \in BOOLEAN, ServerProcess(send)
  PROVE  /\ UNCHANGED <<made, input_buffers_counter, frames_snapshot>>
         /\ current_input_id' = current_input_id \/ current_input_id < current_input_id'
<1>1. UNCHANGED <<made, input_buffers_counter, frames_snapshot>>
  BY Zenon DEF ServerProcess, FetchNothingYet, FetchFirst, FetchResume, FetchPaused, FetchMissing,
     FetchNext, FetchRecover, FetchWait, Execute, clientVars, playerVars
<1>2. current_input_id' = current_input_id \/ current_input_id' \in Received
  BY Zenon DEF ServerProcess, FetchNothingYet, FetchFirst, FetchResume, FetchPaused, FetchMissing,
     FetchNext, FetchRecover, FetchWait, Execute, IsFront
<1> QED BY <1>1, <1>2, Zenon DEF IInv, StoredAhead

LEMMA LogStepHolds == IInv /\ IInv' /\ [Next]_vars => [Log!LogNext]_(Log!logVars)
<1> SUFFICES ASSUME IInv, IInv', [Next]_vars PROVE [Log!LogNext]_(Log!logVars)
  OBVIOUS
<1> DEFINE L == Len(frames_snapshot)
           Same == UNCHANGED <<made, input_buffers_counter, frames_snapshot>>
<1>1. /\ L \in Nat /\ Len(frames_snapshot') \in Nat /\ Len(made) \in Nat /\ Len(made') \in Nat
      /\ input_buffers_counter \in Nat /\ current_input_id \in Int /\ current_input_id' \in Int
      /\ made \in Seq(Inputs) /\ frames_snapshot \in Seq(Frame)
      /\ Len(made) = input_buffers_counter /\ Len(made') = input_buffers_counter'
      /\ input_buffers_counter' - Len(frames_snapshot') <= current_input_id' + 1
      /\ current_input_id' < input_buffers_counter'
      /\ PlayerInputStorageSize \in Nat
  BY StorageAssumption DEF IInv, TypeOK, NoInput, MadeCounted, ReleasedPassed, PositionMade
<1>2. ASSUME Same, current_input_id' = current_input_id \/ current_input_id < current_input_id'
      PROVE  [Log!LogNext]_(Log!logVars)
  <2>1. CASE current_input_id' = current_input_id
    BY <1>2, <2>1 DEF Log!logVars
  <2>2. CASE current_input_id < current_input_id'
    <3>1. current_input_id' \in (current_input_id + 1) .. (Len(made) - 1)
      BY <1>1, <1>2, <2>2
    <3> QED BY <1>2, <3>1 DEF Log!LogNext, Log!Advance
  <2> QED BY <1>2, <2>1, <2>2
<1>3. CASE \E input \in Inputs : SubTickStream(input)
  <2>1. PICK input \in Inputs : SubTickStream(input)
    BY <1>3
  <2>2. /\ L < PlayerInputStorageSize
        /\ input_buffers_counter' = input_buffers_counter + 1
        /\ Len(frames_snapshot') = L + 1
        /\ made' = Append(made, input)
        /\ current_input_id' = current_input_id
    <3>1. [id |-> input_buffers_counter, input |-> input] \in Frame
      BY <1>1 DEF Frame
    <3> QED BY <1>1, <2>1, <3>1 DEF SubTickStream, can_accept_new_inputs, serverVars
  <2> QED BY <1>1, <2>2 DEF Log!LogNext, Log!Produce
<1>4. CASE \E id \in Id : RecoverChecked(id)
  <2>1. PICK id \in Id : RecoverChecked(id)
    BY <1>4
  <2>2. PICK n \in 1 .. L : frames_snapshot' = DropFirst(frames_snapshot, n)
    BY <2>1, CheckedFrames, Zenon
  <2>3. Len(frames_snapshot') = L - n
    <3>1. n \in 0 .. L
      BY <1>1
    <3> QED BY <1>1, <2>2, <3>1, DropFirstType, Zenon
  <2>4. UNCHANGED <<made, input_buffers_counter, current_input_id>>
    BY <2>1, Zenon DEF RecoverChecked, serverVars
  <2> QED BY <1>1, <2>3, <2>4 DEF Log!LogNext, Log!Release
<1>5. CASE \E send \in BOOLEAN : ServerProcess(send)
  BY <1>2, <1>5, ServerMovesForward, Zenon
<1>6. CASE \/ SubTickFull \/ SubTickPaused \/ RecoverNothing \/ RecoverPaused \/ ReceiveState
           \/ SetEnabled \/ UNCHANGED vars
           \/ \E packet \in packets : ReceiveInputs(packet) \/ LosePacket(packet)
  <2>1. Same /\ current_input_id' = current_input_id
    BY <1>6, Zenon DEF SubTickFull, SubTickPaused, RecoverNothing, RecoverPaused, ReceiveState,
       SetEnabled, ReceiveInputs, LosePacket, vars, clientVars, playerVars, serverVars
  <2> QED BY <1>2, <2>1, Zenon
<1> QED BY <1>3, <1>4, <1>5, <1>6, Zenon DEF Next, SubTick, Recover

(* The stream implements the log of InputLog: the player never has more     *)
(* inputs outstanding than its storage holds, forgets only what the server  *)
(* has walked past, and the server only walks forward among what was made.  *)
THEOREM StreamImplementsLog == Spec => ImplementsLog
BY LogInitHolds, LogStepHolds, InvInit, InvStep, PTL DEF Spec, ImplementsLog, Log!LogSpec
=============================================================================
