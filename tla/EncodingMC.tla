----------------------------- MODULE EncodingMC -----------------------------
EXTENDS Encoding

Info(t, l, default) == [type |-> t, level |-> l, default |-> default, bool |-> t = "bool"]

bool == Info("bool", 0, <<0>>)
aim == Info("uint", 3, <<1>>)
turn == Info("int", 2, <<0>>)
speed == Info("real", 3, <<0>>)
variant == Info("variant", 0, <<1>>)

\* One input of each type, and for the reals the two levels TLC's integers allow.
SomeInfos ==
  {bool, aim, turn, speed, variant,
   Info("real", 2, <<1024>>), Info("positive_unit_real", 2, <<0>>), Info("unit_real", 3, <<0>>),
   Info("vector2", 3, <<0, 0>>), Info("normalized_vector2", 3, <<0, 30>>),
   Info("vector3", 3, <<0, 0, 0>>), Info("normalized_vector3", 3, <<0, 0, 0>>)}

\* Values inside a type's range, at its ends, and beyond them where the code clamps;
\* a small, a rounded and a large real; the number of bytes of a Variant comes first.
SomeArguments(info) ==
  CASE info.type = "bool" -> {<<1>>}
    [] info.type = "uint" -> {<<0>>, <<128>>, <<300>>}
    [] info.type = "int" -> {<<-5>>, <<-40000>>}
    [] info.type = "real" /\ info.level = 3 -> {<<-300>>, <<3700>>}
    [] info.type = "real" /\ info.level = 2 -> {<<3>>, <<-70000000>>}
    [] info.type = "positive_unit_real" -> {<<20>>, <<60>>}
    [] info.type = "unit_real" -> {<<-31>>}
    [] info.type = "vector2" -> {<<1000, -2000>>}
    [] info.type = "normalized_vector2" -> {<<1, 0>>, <<1, 47>>}
    [] info.type = "vector3" -> {<<100, -600, 1600>>}
    [] info.type = "normalized_vector3" -> {<<60, -2, 0>>}
    [] info.type = "variant" -> {<<2, 255>>, <<3, 7, 129>>}

\* A Variant is the last input.
SomeEncoders ==
  {<<>>} \cup {<<i>> : i \in SomeInfos}
         \cup {<<i, j>> : i \in SomeInfos \ {variant}, j \in SomeInfos}

\* Two inputs of the same size, either of which may have its default.
TwoAims == {<<>>, <<aim>>, <<aim, aim>>}
=============================================================================
