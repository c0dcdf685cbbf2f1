------------------------------ MODULE DataBuffer ------------------------------
(***************************************************************************)
(* BitArray and DataBuffer: values written into and read from a sequence   *)
(* of bits.  A buffer is a record                                          *)
(*   bits      the bytes, the lowest bit of a byte first                   *)
(*   meta, size, off, reading   metadata_size, bit_size, bit_offset,       *)
(*                              is_reading                                 *)
(*   fresh     what the memory a growing array gets happens to contain     *)
(*                                                                         *)
(* A value is a sequence of integers, one per component.  A real is counted *)
(* in units of 1/Unit, a number of the unit interval and an angle in units  *)
(* of 1/Grain of the interval (of the turn that starts at -pi); what is     *)
(* read of the last two is the code that stands for them.  A Variant is the *)
(* bytes encode_variant makes of it, the first of which tells their number. *)
(* Reals are those of a build with single precision.  TLC's integers reach  *)
(* the reals of the compression levels 2 and 3 only.                        *)
(***************************************************************************)
EXTENDS Integers, SequencesExt, FiniteSetsExt

CONSTANTS
  Unit,                     \* a real is counted in 1/Unit: a power of 2, at least 2^10
  Grain                     \* and a part of an interval in 1/Grain

ASSUME UnitAssumption == Unit \in Nat \ {0} /\ Grain \in Nat \ {0}

-----------------------------------------------------------------------------
(* BitArray. *)

BytesFor(n) == (n + 7) \div 8

\* resize_in_bits: whole bytes; the new ones are not initialized.
Resize(bits, n, fresh) ==
  [i \in 1 .. 8 * BytesFor(n) |-> IF i <= Len(bits) THEN bits[i] ELSE fresh]

\* Bit k of an integer in two's complement.
BitOf(v, k) ==
  IF k > 29 THEN (IF v < 0 THEN 1 ELSE 0) ELSE (v \div 2^k) % 2

\* The number that bits stand for; the lowest comes first.
Number(bits) == MapThenSumSet(LAMBDA k : 2^(k - 1), {k \in DOMAIN bits : bits[k] = 1})

SignedNumber(bits) ==
  IF Last(bits) = 0 THEN Number(bits)
  ELSE -1 - Number([k \in DOMAIN bits |-> 1 - bits[k]])

\* store_bits: what v has beyond its n bits is or-ed into the rest of the last byte.
StoreBits(bits, o, v, n) ==
  IF n <= 0 \/ o + n > Len(bits) THEN bits
  ELSE [i \in DOMAIN bits |->
         IF i <= o \/ i > 8 * BytesFor(o + n) THEN bits[i]
         ELSE IF i <= o + n THEN BitOf(v, i - 1 - o)
         ELSE IF BitOf(v, i - 1 - o) = 1 THEN 1 ELSE bits[i]]

\* read_bits: no bit is set when they are not all there.
ReadBits(bits, o, n) ==
  IF n <= 0 \/ o + n > Len(bits) THEN [i \in 1 .. n |-> 0] ELSE SubSeq(bits, o + 1, o + n)

-----------------------------------------------------------------------------
(* The cursor of a DataBuffer. *)

NewBuffer(fresh) ==
  [bits |-> <<>>, meta |-> 0, size |-> 0, off |-> 0, reading |-> FALSE, fresh |-> fresh]

\* DataBuffer(const BitArray &)
BufferOf(bits, fresh) ==
  [bits |-> bits, meta |-> 0, size |-> Len(bits), off |-> 0, reading |-> TRUE, fresh |-> fresh]

BeginWrite(d, meta) == [d EXCEPT !.meta = meta, !.size = 0, !.off = 0, !.reading = FALSE]
BeginRead(d) == [d EXCEPT !.off = 0, !.reading = TRUE]
Dry(d) == [d EXCEPT !.bits = Resize(@, d.meta + d.size, d.fresh)]
Seek(d, n) == IF n \in 0 .. d.meta + d.size THEN [d EXCEPT !.off = n] ELSE d
Skip(d, n) == IF d.off + n <= d.meta + d.size THEN [d EXCEPT !.off = @ + n] ELSE d
ShrinkTo(d, meta, size) ==
  IF size < 0 \/ Len(d.bits) < meta + size THEN d ELSE [d EXCEPT !.meta = meta, !.size = size]

MakeRoom(d, n) ==
  LET need == d.off + n
  IN  [d EXCEPT !.bits = IF need > Len(@) THEN Resize(@, need, d.fresh) ELSE @,
                !.size = IF need - d.meta > @ /\ need > d.meta THEN need - d.meta ELSE @]

ToNextByte(d) == 8 * BytesFor(d.off) - d.off
PadWrite(d) == [MakeRoom(d, ToNextByte(d)) EXCEPT !.off = @ + ToNextByte(d)]
CanPad(d) == d.off + ToNextByte(d) <= Len(d.bits)
PadRead(d) == [d EXCEPT !.off = @ + ToNextByte(d)]

-----------------------------------------------------------------------------
(* The fields a type is written as, and their widths. *)

IntBits(l) == <<64, 32, 16, 8>>[l + 1]
UnitBits(l) == <<10, 8, 6, 4>>[l + 1]
AngleBits(l) == <<11, 10, 9, 8>>[l + 1]
MantissaBits(l) == <<24, 24, 11, 4>>[l + 1]
ExponentBits(l) == <<8, 8, 5, 4>>[l + 1]

RealWidths(l) == <<1, MantissaBits(l) - 1, ExponentBits(l)>>
UnitWidths(l) == <<UnitBits(l), 1>>

\* The components of a vector are written one after the other.
Components(t) ==
  CASE t \in {"vector2", "normalized_vector2"} -> 2
    [] t \in {"vector3", "normalized_vector3"} -> 3
    [] OTHER -> 1
Repeated(widths, n) == FlattenSeq([i \in 1 .. n |-> widths])

Widths(t, l) ==
  CASE t = "bool" -> <<1>>
    [] t \in {"int", "uint"} -> <<IntBits(l)>>
    [] t \in {"real", "vector2", "vector3"} -> Repeated(RealWidths(l), Components(t))
    [] t = "positive_unit_real" -> <<UnitBits(l)>>
    [] t \in {"unit_real", "normalized_vector3"} -> Repeated(UnitWidths(l), Components(t))
    [] t = "normalized_vector2" -> <<1, AngleBits(l)>>

\* get_bit_taken
BitTaken(t, l) ==
  CASE t = "bool" -> 1
    [] t \in {"int", "uint"} -> IntBits(l)
    [] t \in {"real", "vector2", "vector3"} -> (MantissaBits(l) + ExponentBits(l)) * Components(t)
    [] t = "positive_unit_real" -> UnitBits(l)
    [] t \in {"unit_real", "normalized_vector3"} -> (UnitBits(l) + 1) * Components(t)
    [] t = "normalized_vector2" -> AngleBits(l) + 1

Clamped(n, low, high) == IF n < low THEN low ELSE IF n > high THEN high ELSE n

\* What add_int and add_uint store; 64 and 32 bits hold every integer TLC has.
Integral(t, l, n) ==
  IF IntBits(l) > 16 THEN n
  ELSE IF t = "int" THEN Clamped(n, -(2^(IntBits(l) - 1)), 2^(IntBits(l) - 1) - 1)
  ELSE Clamped(n, 0, 2^IntBits(l) - 1)

\* Half away from zero, for n >= 0: Math::round.
Rounded(n, d) == (2 * n + d) \div (2 * d)

\* ilogb, for n > 0.
Log2(n) == CHOOSE k \in 0 .. 29 : 2^k <= n /\ n < 2^(k + 1)

\* compress_unit_float of n / Grain
Compressed(n, bits) ==
  LET max == 2^bits - 1 IN IF n > Grain THEN max ELSE Rounded(n * max, Grain)

AbsOf(n) == IF n < 0 THEN -n ELSE n
SignOf(n) == IF n < 0 THEN 1 ELSE 0

ExponentBias(l) ==
  IF l = 3 THEN 2^ExponentBits(l) - 3 ELSE 2^(ExponentBits(l) - 1) - 1

\* The largest real of the level: (2 - 2^-(mantissa_bits - 1)) * 2^bias.
MaxReal(l) == (2^MantissaBits(l) - 1) * (Unit \div 2^(MantissaBits(l) - 1)) * 2^ExponentBias(l)

\* The exponent of frexp, or 1 for what the code calls a subnormal value.
FrexpExponent(a) == IF a < 2 * Unit THEN 1 ELSE Log2(a \div Unit) + 1

\* The mantissa as a multiple of 2^-(M - p), and the exponent that follows from it.
RoundedMantissa(a, M, p) ==
  IF M >= p THEN Rounded(a * 2^(M - p), Unit) ELSE Rounded(a, Unit * 2^(p - M))
ExponentOf(k, M, p) == IF k = 0 THEN 0 ELSE Log2(k) - M + p + 1

\* What add_real stores, and the value it returns.
PartsOf(sign, k, M, p) ==
  [sign |-> sign,
   mantissa |-> IF ExponentOf(k, M, p) <= 0 THEN k ELSE k - 2^Log2(k),
   exponent |-> ExponentOf(k, M, p),
   value |-> (IF sign = 1 THEN -1 ELSE 1) * k * (Unit \div 2^(M - 1)) * 2^(p - 1)]
RealParts(x, l) ==
  LET a == Clamped(AbsOf(x), 0, MaxReal(l))
      p == FrexpExponent(a)
      M == MantissaBits(l)
  IN  PartsOf(SignOf(x), RoundedMantissa(a, M, p), M, p)

RealFields(parts, l) == <<parts.sign, parts.mantissa, parts.exponent + ExponentBias(l)>>
UnitFields(n, l) == <<Compressed(AbsOf(n), UnitBits(l)), SignOf(n)>>

\* What each add_ stores, one integer per field.
Fields(t, l, v) ==
  CASE t = "bool" -> v
    [] t \in {"int", "uint"} -> <<Integral(t, l, v[1])>>
    [] t \in {"real", "vector2", "vector3"} ->
         FlattenSeq([i \in DOMAIN v |-> RealFields(RealParts(v[i], l), l)])
    [] t = "positive_unit_real" -> <<Compressed(v[1], UnitBits(l))>>
    [] t \in {"unit_real", "normalized_vector3"} -> FlattenSeq([i \in DOMAIN v |-> UnitFields(v[i], l)])
    [] t = "normalized_vector2" -> <<v[1], Compressed(v[2], AngleBits(l))>>

Signed(sign, n) == IF sign = 1 THEN -n ELSE n

\* What each add_ returns: the value after its compression.
Returned(t, l, v) ==
  LET unit(n) == Signed(SignOf(n), Compressed(AbsOf(n), UnitBits(l)))
  IN  CASE t \in {"bool", "variant"} -> v
        [] t \in {"int", "uint"} -> <<Integral(t, l, v[1])>>
        [] t \in {"real", "vector2", "vector3"} -> [i \in DOMAIN v |-> RealParts(v[i], l).value]
        [] t = "positive_unit_real" -> <<Compressed(v[1], UnitBits(l))>>
        [] t \in {"unit_real", "normalized_vector3"} -> [i \in DOMAIN v |-> unit(v[i])]
        [] t = "normalized_vector2" -> <<v[1], v[1] * Compressed(v[2], AngleBits(l))>>

\* read_real
RealOf(sign, mantissa, e, M) ==
  Signed(sign, (Unit \div 2^(M - 1)) *
                 (IF e <= 0 THEN mantissa ELSE (mantissa + 2^(M - 1)) * 2^(e - 1)))

\* What each read_ makes of its fields.
Value(t, l, n) ==
  CASE t \in {"bool", "uint", "positive_unit_real"} -> <<Number(n[1])>>
    [] t = "int" -> <<SignedNumber(n[1])>>
    [] t \in {"real", "vector2", "vector3"} ->
         [i \in 1 .. Components(t) |->
            RealOf(Number(n[3 * i - 2]), Number(n[3 * i - 1]),
                   Number(n[3 * i]) - ExponentBias(l), MantissaBits(l))]
    [] t \in {"unit_real", "normalized_vector3"} ->
         [i \in 1 .. Components(t) |-> Signed(Number(n[2 * i]), Number(n[2 * i - 1]))]
    [] t = "normalized_vector2" -> <<Number(n[1]), Number(n[1]) * Number(n[2])>>

-----------------------------------------------------------------------------
(* Writing and reading. *)

\* Nothing is added to a buffer that is being read.
AddBits(d, field, n) ==
  IF d.reading THEN d
  ELSE LET m == MakeRoom(d, n)
       IN  [m EXCEPT !.bits = StoreBits(@, m.off, field, n), !.off = @ + n]

\* add_variant: it starts with a byte, and does not ask whether the buffer is read.
AddVariant(d, bytes) ==
  LET m == MakeRoom(PadWrite(d), 8 * Len(bytes))
  IN  [m EXCEPT !.bits = [i \in DOMAIN @ |->
                            IF i > m.off /\ i <= m.off + 8 * Len(bytes)
                            THEN BitOf(bytes[((i - 1 - m.off) \div 8) + 1], (i - 1 - m.off) % 8)
                            ELSE @[i]],
                !.off = @ + 8 * Len(bytes)]

AddFields(d, fields, widths) ==
  FoldLeftDomain(LAMBDA acc, i : AddBits(acc, fields[i], widths[i]), d, fields)

Add(d, t, l, v) ==
  IF t = "variant" THEN AddVariant(d, v) ELSE AddFields(d, Fields(t, l, v), Widths(t, l))

\* The bytes from o on.
BytesAt(bits, o) ==
  [i \in 1 .. (Len(bits) - o) \div 8 |-> Number(SubSeq(bits, o + 8 * (i - 1) + 1, o + 8 * i))]

\* decode_variant reads no more than the bytes there are.
VariantLength(d) ==
  LET bytes == BytesAt(d.bits, PadRead(d).off)
  IN  IF bytes # <<>> /\ bytes[1] \in 1 .. Len(bytes) THEN bytes[1] ELSE 0

\* read_variant: no value when there is no room to pad or the bytes are no Variant.
ReadVariant(d) ==
  IF ~CanPad(d) THEN [d |-> d, v |-> <<>>]
  ELSE [d |-> [PadRead(d) EXCEPT !.off = @ + 8 * VariantLength(d)],
        v |-> SubSeq(BytesAt(d.bits, PadRead(d).off), 1, VariantLength(d))]

\* The bits of each field; a read of a buffer that is being written returns a default
\* and moves nothing.
FieldsAt(d, widths) ==
  [i \in DOMAIN widths |->
     IF d.reading
     THEN ReadBits(d.bits, d.off + MapThenSumSet(LAMBDA j : widths[j], 1 .. i - 1), widths[i])
     ELSE <<0>>]

Read(d, t, l) ==
  IF t = "variant" THEN ReadVariant(d)
  ELSE [d |-> IF d.reading THEN [d EXCEPT !.off = @ + BitTaken(t, l)] ELSE d,
        v |-> Value(t, l, FieldsAt(d, Widths(t, l)))]

\* The read_..._size functions; the padding before a Variant is not counted.
ReadSize(d, t, l) ==
  IF t = "variant"
  THEN [d |-> ReadVariant(d).d, n |-> IF CanPad(d) THEN 8 * VariantLength(d) ELSE 0]
  ELSE [d |-> Skip(d, BitTaken(t, l)), n |-> BitTaken(t, l)]
=============================================================================
