------------------------------- MODULE Encoding -------------------------------
(***************************************************************************)
(* An input on its way from the game of the player to the game on the      *)
(* server: the game encodes its values with an InputNetworkEncoder into     *)
(* inputs_buffer, the controller stores the bytes, leaves out the inputs    *)
(* that are like the one before, packs the rest, and the server finds them  *)
(* again in the packet by counting their size.                              *)
(*                                                                         *)
(* InputStream has the ids and the queues of this; here are the bytes.      *)
(***************************************************************************)
EXTENDS DataBuffer

CONSTANTS
  Nil,                      \* an argument that is missing or of another type
  Encoders,                 \* the encoders of the game, and what each is before its last input
  Arguments(_),             \* the values the game passes for an input, Nil aside
  MaxFrames                 \* bound: frames in the packet

ASSUME EncodersAssumption ==
  /\ <<>> \in Encoders
  /\ \A e \in Encoders \ {<<>>} : Front(e) \in Encoders
  /\ MaxFrames \in Nat \ {0}

VARIABLES
  input_info,               \* the encoder: a sequence of inputs
  inputs_buffer,            \* the node's DataBuffer, used again in each frame
  frames_snapshot,          \* the player's frames: [bits, size]
  packet,                   \* the bits of the packet
  received,                 \* the frames the server found in it, Nil before
  \* History: the values each frame was made of, after compression, and the frame each
  \* frame is sent as.
  made, sent_as

vars == <<input_info, inputs_buffer, frames_snapshot, packet, received, made, sent_as>>

METADATA_SIZE == 1
Infos == UNION {Range(e) : e \in Encoders}
Bit == {0, 1}

-----------------------------------------------------------------------------
(* The encoder.  is_bool: the default value is a boolean. *)

IsDefault(info, args, i) == i > Len(args) \/ args[i] \in {Nil, info.default}

EncodeInput(d, info, args, i) ==
  IF info.bool THEN AddBits(d, (IF IsDefault(info, args, i) THEN info.default ELSE args[i])[1], 1)
  ELSE IF IsDefault(info, args, i) THEN AddBits(d, 1, 1)
  ELSE Add(AddBits(d, 0, 1), info.type, info.level, args[i])

Encode(args, d) ==
  FoldLeftDomain(LAMBDA acc, i : EncodeInput(acc, input_info[i], args, i), d, input_info)

\* The values the player's game gets back while it encodes.
Compressions(args) ==
  [i \in DOMAIN input_info |->
     LET info == input_info[i]
     IN  IF IsDefault(info, args, i) THEN info.default ELSE Returned(info.type, info.level, args[i])]

\* The mark of an input whose default is no boolean, if there is one to read.
Mark(d, info) == IF info.bool THEN [d |-> d, v |-> <<0>>] ELSE Read(d, "bool", 0)

\* One input: its value, and the buffer after it.
DecodeMarked(mark, info) ==
  IF mark.v = <<1>> THEN [d |-> mark.d, v |-> info.default]
  ELSE Read(mark.d, info.type, info.level)

\* All of them.
Appended(acc, r) == [d |-> r.d, v |-> Append(acc.v, r.v)]
Decode(d) ==
  FoldLeft(LAMBDA acc, info : Appended(acc, DecodeMarked(Mark(acc.d, info), info)),
           [d |-> d, v |-> <<>>], input_info).v

\* are_different: when only one of the two has the default, a value is read from both.
\* Values are compared with a tolerance below the steps of every compression.
Compared(a, b) == [A |-> a.d, B |-> b.d, different |-> a.v # b.v]
CompareMarked(markA, markB, info) ==
  IF markA.v = <<1>> /\ markB.v = <<1>> THEN Compared(markA, markB)
  ELSE Compared(Read(markA.d, info.type, info.level), Read(markB.d, info.type, info.level))
AreDifferent(dA, dB) ==
  \/ dA.size # dB.size
  \/ FoldLeft(LAMBDA acc, info :
                IF acc.different THEN acc
                ELSE CompareMarked(Mark(acc.A, info), Mark(acc.B, info), info),
              [A |-> dA, B |-> dB, different |-> FALSE], input_info).different

\* Mutant of CountMarked: the mark of a value that is no default is not counted.
CountUnmarked(mark, info) ==
  IF mark.v = <<1>> THEN [d |-> mark.d, n |-> 1]
  ELSE ReadSize(mark.d, info.type, info.level)

\* count_size, for one input and for all.
CountMarked(mark, info) ==
  IF mark.v = <<1>> THEN [d |-> mark.d, n |-> 1]
  ELSE LET r == ReadSize(mark.d, info.type, info.level)
       IN  [r EXCEPT !.n = @ + IF info.bool THEN 0 ELSE 1]

Counted(acc, r) == [d |-> r.d, n |-> acc.n + r.n]
CountSize(d) ==
  FoldLeft(LAMBDA acc, info : Counted(acc, CountMarked(Mark(acc.d, info), info)),
           [d |-> d, n |-> 0], input_info).n

-----------------------------------------------------------------------------
(* The packet. *)

Fresh == inputs_buffer.fresh

\* A stored frame as its readers take it: past the metadata.
Frame(f) ==
  Seek(BeginRead(ShrinkTo(BufferOf(f.bits, Fresh), METADATA_SIZE, f.size - METADATA_SIZE)), METADATA_SIZE)

ByteOf(n) == [k \in 1 .. 8 |-> BitOf(n, k - 1)]

\* The first frames of the groups that are sent once, for frames that were never
\* compared before (send_frame_input_buffer_to_server).
SentAs ==
  LET step(acc, i) ==
        IF acc # <<>> /\ ~AreDifferent(Frame(frames_snapshot[Last(acc)]), Frame(frames_snapshot[i]))
        THEN Append(acc, Last(acc)) ELSE Append(acc, i)
  IN  FoldLeftDomain(step, <<>>, frames_snapshot)

\* A byte that counts the duplicates, then the frame.
Packed(groups) ==
  LET duplicates(i) == Cardinality({j \in DOMAIN groups : groups[j] = i}) - 1
      step(acc, i) == IF groups[i] = i
                      THEN acc \o ByteOf(duplicates(i)) \o frames_snapshot[i].bits ELSE acc
  IN  FoldLeftDomain(step, <<>>, groups)

\* The size of the input behind the byte at o: it is counted, as no size travels.
SizeAfter(meta) == METADATA_SIZE + (IF meta.v = <<1>> THEN CountSize(meta.d) ELSE 0)
SizeAt(bits, o) ==
  LET pir == ShrinkTo(BeginRead(BufferOf(bits, Fresh)), o + 8, Len(bits) - o - 8)
  IN  SizeAfter(Read(Seek(pir, o + 8), "bool", 0))

\* The frames at o, the input and its duplicates, when the bytes do not end before.
Taken(acc, bits, size) ==
  LET end == acc.o + 8 + 8 * BytesFor(size)
      duplication == Number(SubSeq(bits, acc.o + 1, acc.o + 8))
  IN  IF end > Len(bits) THEN [acc EXCEPT !.o = Len(bits)]
      ELSE [o |-> end,
            frames |-> acc.frames \o [k \in 1 .. duplication + 1 |->
                         [bits |-> SubSeq(bits, acc.o + 9, end), size |-> size]]]

\* receive_inputs: one frame after the other, until the bytes end or do not fit.
Unpacked(bits) ==
  FoldLeftDomain(LAMBDA acc, i : IF acc.o >= Len(bits) THEN acc
                                 ELSE Taken(acc, bits, SizeAt(bits, acc.o)),
                 [o |-> 0, frames |-> <<>>], BytesAt(bits, 0)).frames

-----------------------------------------------------------------------------
(* The steps. *)

Init ==
  /\ input_info = <<>>
  /\ \E b \in Bit : inputs_buffer = NewBuffer(b)
  /\ frames_snapshot = <<>> /\ packet = <<>> /\ received = Nil
  /\ made = <<>> /\ sent_as = <<>>

\* register_input, while the game sets the encoder up.
RegisterInput(info) ==
  /\ frames_snapshot = <<>>
  /\ input_info' = Append(input_info, info)
  /\ input_info' \in Encoders
  /\ UNCHANGED <<inputs_buffer, frames_snapshot, packet, received, made, sent_as>>

\* Mutant of Dried: the room for the next value is not dried.
DriedLater(d) == AddBits(Seek(d, 0), IF d.size > 0 THEN 1 ELSE 0, 1)

\* The mark of an input that is not empty, and the end of the collecting.
Dried(d) == Dry(AddBits(Seek(d, 0), IF d.size > 0 THEN 1 ELSE 0, 1))

\* The buffer after the player collected an input; a game without inputs adds none.
Collected(args) ==
  LET begun == Seek(BeginWrite(inputs_buffer, METADATA_SIZE), METADATA_SIZE)
  IN  Dried(IF input_info = <<>> THEN begun ELSE Encode(args, begun))

\* PlayerController::process and store_input_buffer.
Collect(args) ==
  \E d \in {Collected(args)} :
      /\ packet = <<>> /\ Len(frames_snapshot) < MaxFrames
      /\ inputs_buffer' = Seek(BeginRead(d), METADATA_SIZE)
      /\ frames_snapshot' = Append(frames_snapshot, [bits |-> d.bits, size |-> d.size + METADATA_SIZE])
      /\ made' = Append(made, Compressions(args))
      /\ UNCHANGED <<input_info, packet, received, sent_as>>

Send ==
  /\ packet = <<>> /\ frames_snapshot # <<>>
  /\ \E groups \in {SentAs} : sent_as' = groups /\ packet' = Packed(groups)
  /\ UNCHANGED <<input_info, inputs_buffer, frames_snapshot, received, made>>

Receive ==
  /\ packet # <<>> /\ received = Nil
  /\ received' = Unpacked(packet)
  /\ UNCHANGED <<input_info, inputs_buffer, frames_snapshot, packet, made, sent_as>>

\* The arguments of one call: a value or Nil for each input, and missing ones at the end.
ArgumentLists ==
  UNION {{args \in [1 .. n -> UNION {Arguments(input_info[i]) : i \in 1 .. n} \cup {Nil}] :
            \A i \in 1 .. n : args[i] \in Arguments(input_info[i]) \cup {Nil}} :
         n \in 0 .. Len(input_info)}

Next ==
  \/ \E info \in Infos : RegisterInput(info)
  \/ \E args \in ArgumentLists : Collect(args)
  \/ Send
  \/ Receive

Spec == Init /\ [][Next]_vars

-----------------------------------------------------------------------------
(* Properties. *)

\* The types of the state; a stored frame fills its bytes.
TypeOK ==
  /\ input_info \in Encoders
  /\ inputs_buffer.bits \in Seq(Bit) /\ inputs_buffer.off \in Nat /\ inputs_buffer.size \in Nat
  /\ \A f \in Range(frames_snapshot) : f.bits \in Seq(Bit) /\ Len(f.bits) = 8 * BytesFor(f.size)
  /\ Len(made) = Len(frames_snapshot) /\ sent_as \in Seq(DOMAIN made)

\* The server finds as many inputs as the player put into the packet, and reads from
\* each the values that the player's own game got back when it made the input, or made
\* the one it was sent as: although no size travels (receive_inputs counts it), whatever
\* the buffer held before, and whatever lies behind the last bit.
InputsArriveAsMade ==
  received # Nil =>
    /\ Len(received) = Len(frames_snapshot)
    /\ \A i \in DOMAIN received : Decode(Frame(received[i])) = made[sent_as[i]]

\* What is sent as a duplicate is the same input: networked_controller.cpp says "These are
\* the same, let's save some space."
DuplicatesAreTheSame == \A i \in DOMAIN sent_as : made[i] = made[sent_as[i]]
=============================================================================
