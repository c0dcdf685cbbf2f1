------------------------- MODULE ChangeEvents_proofs -------------------------
(***************************************************************************)
(* Proofs about ChangeEvents: the variables and their listeners name each  *)
(* other, and the listeners are called and told what was noted for them,   *)
(* for all variables, listeners, events and trackings.                     *)
(***************************************************************************)
EXTENDS ChangeEvents, WellFoundedInduction, TLAPS

-----------------------------------------------------------------------------
(* The inductive invariant. *)

\* What a listener watches, as a list and as a set.
WatchList ==
  {w \in Seq(Watched) : \A j, k \in DOMAIN w : w[j].var = w[k].var => j = k}
WatchedBy(i) == ToSet(event_listener[i].watching_vars)

\* A variable that is registered has a value.
RegisteredHaveValues == \A v \in registered : value[v] \in Values

\* A flush calls the listeners in order, and nothing was heard before a batch.
FlushIsOrdered ==
  /\ cursor >= 1
  /\ called \cup passed \subseteq 1 .. cursor - 1
  /\ phase /= "flushing" => called \cup passed = {}
  /\ phase = "none" => heard = {}

\* A listener whose object was found freed watches nothing.
NobodyWatches ==
  \A i \in Indexes : event_listener[i].listener = Nobody => WatchedBy(i) = {}

\* The old values the listeners keep are those noted and not told.
OldValuesAreNoted ==
  /\ \A i \in Indexes : \A e \in WatchedBy(i) : e.old_value /= Unset =>
       [listener |-> i, var |-> e.var, old_value |-> e.old_value] \in noted
  /\ \A y \in noted : [var |-> y.var, old_value |-> y.old_value] \in WatchedBy(y.listener)

\* A listener waits for its turn in the flush, once it has heard of something.
HeardWait ==
  /\ \A i \in Indexes : ~ event_listener[i].emitted =>
       i \in heard /\ (phase = "flushing" => i >= cursor)
  /\ \A i \in heard :
       \/ i \in called \cup passed
       \/ event_listener[i].listener = Nobody
       \/ ~ event_listener[i].emitted

IInv ==
  /\ TypeOK
  /\ WatchersAgree
  /\ RegisteredHaveValues
  /\ FlushIsOrdered
  /\ NobodyWatches
  /\ OldValuesAreNoted
  /\ HeardWait

-----------------------------------------------------------------------------
(* Induction over the naturals, and what the operators on the lists of     *)
(* watched variables return.                                               *)

\* A set with 0, and with n + 1 when it has n, has every natural number.
LEMMA NatSetInduction ==
  ASSUME NEW S, 0 \in S, \A n \in Nat : n \in S => n + 1 \in S
  PROVE  Nat \subseteq S
<1> DEFINE T == Nat \ S
           R == OpToRel(<, Nat)
<1>1. IsWellFoundedOn(R, Nat)
  BY NatLessThanWellFounded
<1>2. SUFFICES ASSUME T # {} PROVE FALSE
  OBVIOUS
<1>3. T \subseteq Nat
  OBVIOUS
<1>4. \A x, y \in Nat : y < x => <<y, x>> \in R
  BY DEF OpToRel
<1> HIDE DEF T, R
<1>5. PICK x \in T : \A y \in T : ~ (<<y, x>> \in R)
  BY <1>1, <1>2, <1>3, WFMin
<1>6. x # 0 /\ x \in Nat
  BY <1>3 DEF T
<1>7. x - 1 \in Nat /\ x - 1 < x /\ (x - 1) + 1 = x
  BY <1>6
<1>8. x - 1 \notin T
  BY <1>4, <1>5, <1>6, <1>7
<1>9. x - 1 \in S
  BY <1>7, <1>8 DEF T
<1>10. x \in S
  BY <1>7, <1>9
<1> QED BY <1>10 DEF T

\* A set of positions that is not empty has a first one.
LEMMA FirstOfPositions ==
  ASSUME NEW N \in Nat, NEW I \in SUBSET (1 .. N), I /= {}
  PROVE  Min(I) \in I /\ \A k \in I : Min(I) <= k
<1> DEFINE R == OpToRel(<, Nat)
<1>1. IsWellFoundedOn(R, Nat)
  BY NatLessThanWellFounded
<1>2. I \subseteq Nat
  OBVIOUS
<1>3. \A x, y \in Nat : y < x => <<y, x>> \in R
  BY DEF OpToRel
<1> HIDE DEF R
<1>4. PICK x \in I : \A y \in I : ~ (<<y, x>> \in R)
  BY <1>1, <1>2, WFMin
<1>5. ASSUME NEW y \in I PROVE x <= y
  <2>1. x \in Nat /\ y \in Nat
    BY <1>2
  <2>2. ~ y < x
    BY <1>3, <1>4, <2>1
  <2> QED BY <2>1, <2>2
<1> QED BY <1>5 DEF Min

\* The position of a variable is where it is watched, or 0.
LEMMA PositionIsWhereWatched ==
  ASSUME NEW w \in Seq(Watched), NEW v
  PROVE  /\ Position(w, v) \in 0 .. Len(w)
         /\ Position(w, v) = 0 <=> \A k \in 1 .. Len(w) : w[k].var /= v
         /\ Position(w, v) /= 0 => w[Position(w, v)].var = v
<1> DEFINE I == {k \in 1 .. Len(w) : w[k].var = v}
<1>1. Len(w) \in Nat
  OBVIOUS
<1>2. CASE I = {}
  BY <1>2 DEF Position, SelectInSeq
<1>3. CASE I /= {}
  <2>1. Min(I) \in I
    BY <1>1, <1>3, FirstOfPositions
  <2>2. Position(w, v) = Min(I)
    BY <1>3 DEF Position, SelectInSeq
  <2> QED BY <2>1, <2>2
<1> QED BY <1>2, <1>3

\* A variable is watched when an element of the list is of it.
LEMMA WatchingIsMembership ==
  ASSUME NEW w \in Seq(Watched), NEW v
  PROVE  IsWatching(w, v) <=> \E e \in ToSet(w) : e.var = v
<1>1. DOMAIN w = 1 .. Len(w)
  OBVIOUS
<1> QED BY <1>1, PositionIsWhereWatched DEF IsWatching, ToSet

\* The elements of a list are of type Watched, one of each variable.
LEMMA ElementsAreSingle ==
  ASSUME NEW w \in WatchList
  PROVE  /\ ToSet(w) \subseteq Watched
         /\ \A d, e \in ToSet(w) : d.var = e.var => d = e
<1>1. w \in Seq(Watched) /\ DOMAIN w = 1 .. Len(w)
  BY DEF WatchList
<1>2. \A k \in DOMAIN w : w[k] \in Watched
  BY <1>1
<1> QED BY <1>2 DEF WatchList, ToSet

\* The empty list watches nothing.
LEMMA EmptyList == <<>> \in WatchList /\ ToSet(<<>>) = {}
<1>1. <<>> \in Seq(Watched) /\ DOMAIN <<>> = {}
  OBVIOUS
<1> QED BY <1>1 DEF WatchList, ToSet

\* RemoveAt closes the gap.
LEMMA RemoveAtElements ==
  ASSUME NEW S, NEW w \in Seq(S), NEW p \in 1 .. Len(w)
  PROVE  /\ RemoveAt(w, p) \in Seq(S)
         /\ Len(RemoveAt(w, p)) = Len(w) - 1
         /\ \A k \in 1 .. Len(w) - 1 :
              RemoveAt(w, p)[k] = IF k < p THEN w[k] ELSE w[k + 1]
<1> DEFINE n == Len(w)
           a == SubSeq(w, 1, p - 1)
           b == SubSeq(w, p + 1, n)
<1>1. n \in Nat /\ p \in Nat /\ 1 <= p /\ p <= n
  OBVIOUS
<1>2. /\ a \in Seq(S) /\ Len(a) = p - 1
      /\ \A k \in 1 .. p - 1 : a[k] = w[k]
  OBVIOUS
<1>3. b \in Seq(S) /\ Len(b) = n - p
  OBVIOUS
<1>4. ASSUME NEW k \in 1 .. n - p PROVE b[k] = w[p + k]
  <2>1. (p + 1) + k - 1 = p + k
    BY <1>1
  <2> QED BY <2>1
<1>5. RemoveAt(w, p) = a \o b
  BY DEF RemoveAt
<1> HIDE DEF n, a, b
<1>6. /\ a \o b \in Seq(S) /\ Len(a \o b) = Len(a) + Len(b)
      /\ \A k \in 1 .. Len(a) + Len(b) :
           (a \o b)[k] = IF k <= Len(a) THEN a[k] ELSE b[k - Len(a)]
  BY <1>2, <1>3
<1>7. ASSUME NEW k \in 1 .. n - 1
      PROVE  (a \o b)[k] = IF k < p THEN w[k] ELSE w[k + 1]
  <2>1. k \in 1 .. Len(a) + Len(b)
    BY <1>1, <1>2, <1>3
  <2>2. (a \o b)[k] = IF k <= p - 1 THEN a[k] ELSE b[k - (p - 1)]
    BY <1>2, <1>6, <2>1
  <2>3. CASE k < p
    <3>1. k <= p - 1 /\ k \in 1 .. p - 1
      BY <1>1, <2>3
    <3> QED BY <1>2, <2>2, <2>3, <3>1
  <2>4. CASE ~ k < p
    <3>1. ~ k <= p - 1 /\ k - (p - 1) \in 1 .. n - p /\ p + (k - (p - 1)) = k + 1
      BY <1>1, <2>4
    <3>2. b[k - (p - 1)] = w[k + 1]
      BY <1>4, <3>1
    <3> QED BY <2>2, <2>4, <3>1, <3>2
  <2> QED BY <2>3, <2>4
<1>8. Len(a \o b) = n - 1
  BY <1>1, <1>2, <1>3, <1>6
<1> QED BY <1>5, <1>6, <1>7, <1>8 DEF n

\* erase takes out the variable, and nothing else.
LEMMA ErasedTakesOut ==
  ASSUME NEW w \in WatchList, NEW v
  PROVE  /\ Erased(w, v) \in WatchList
         /\ ToSet(Erased(w, v)) = {e \in ToSet(w) : e.var /= v}
<1>1. w \in Seq(Watched) /\ DOMAIN w = 1 .. Len(w) /\ Len(w) \in Nat
  BY DEF WatchList
<1>2. \A j, k \in 1 .. Len(w) : w[j].var = w[k].var => j = k
  BY <1>1 DEF WatchList
<1> DEFINE p == Position(w, v)
<1>3. CASE \A k \in 1 .. Len(w) : w[k].var /= v
  <2>1. Erased(w, v) = w
    BY <1>3 DEF Erased, RemoveFirstMatch
  <2> QED BY <1>1, <1>3, <2>1 DEF ToSet
<1>4. CASE ~ \A k \in 1 .. Len(w) : w[k].var /= v
  <2> DEFINE r == SubSeq(w, 1, p - 1) \o SubSeq(w, p + 1, Len(w))
  <2>1. p \in 1 .. Len(w) /\ w[p].var = v
    BY <1>1, <1>4, PositionIsWhereWatched
  <2>2. Erased(w, v) = r
    BY <1>1, <1>4 DEF Erased, RemoveFirstMatch, RemoveAt, Position
  <2> HIDE DEF p
  <2>3. /\ r \in Seq(Watched)
        /\ Len(r) = Len(w) - 1
        /\ \A k \in 1 .. Len(w) - 1 : r[k] = IF k < p THEN w[k] ELSE w[k + 1]
    BY <1>1, <2>1, RemoveAtElements DEF RemoveAt
  <2> HIDE DEF r
  <2>4. DOMAIN r = 1 .. Len(w) - 1
    BY <2>3
  <2>5. ToSet(r) = {e \in ToSet(w) : e.var /= v}
    <3>1. \A k \in 1 .. Len(w) - 1 : r[k] \in ToSet(w) /\ r[k].var /= v
      BY <1>1, <1>2, <2>1, <2>3 DEF ToSet
    <3>2. \A k \in 1 .. Len(w) : w[k].var /= v =>
            \E j \in 1 .. Len(w) - 1 : r[j] = w[k]
      <4> TAKE k \in 1 .. Len(w)
      <4> HAVE w[k].var /= v
      <4>1. CASE k < p
        BY <1>1, <2>1, <2>3, <4>1
      <4>2. CASE k > p
        <5>1. k - 1 \in 1 .. Len(w) - 1 /\ r[k - 1] = w[k]
          BY <1>1, <2>1, <2>3, <4>2
        <5> QED BY <5>1
      <4> QED BY <1>1, <2>1, <4>1, <4>2
    <3>3. ToSet(r) \subseteq {e \in ToSet(w) : e.var /= v}
      BY <2>4, <3>1 DEF ToSet
    <3>4. \A e \in ToSet(w) : e.var /= v => e \in ToSet(r)
      BY <1>1, <2>4, <3>2 DEF ToSet
    <3> QED BY <3>3, <3>4
  <2>6. \A j, k \in DOMAIN r : r[j].var = r[k].var => j = k
    <3> SUFFICES ASSUME NEW j \in 1 .. Len(w) - 1, NEW k \in 1 .. Len(w) - 1,
                        r[j].var = r[k].var
                 PROVE  j = k
      BY <2>4
    <3>1. /\ r[j] = IF j < p THEN w[j] ELSE w[j + 1]
          /\ r[k] = IF k < p THEN w[k] ELSE w[k + 1]
      BY <2>3
    <3> QED BY <1>1, <1>2, <2>1, <3>1
  <2> QED BY <2>2, <2>3, <2>5, <2>6 DEF WatchList
<1> QED BY <1>3, <1>4

\* remove_unordered takes out the element at k, and nothing else.
LEMMA RemovedUnorderedTakesOut ==
  ASSUME NEW w \in WatchList, NEW k \in 1 .. Len(w)
  PROVE  /\ RemovedUnordered(w, k) \in WatchList
         /\ Len(RemovedUnordered(w, k)) = Len(w) - 1
         /\ ToSet(RemovedUnordered(w, k)) = ToSet(w) \ {w[k]}
<1>1. w \in Seq(Watched) /\ DOMAIN w = 1 .. Len(w) /\ Len(w) \in Nat
  BY DEF WatchList
<1>2. \A i, j \in 1 .. Len(w) : w[i].var = w[j].var => i = j
  BY <1>1 DEF WatchList
<1> DEFINE s == [w EXCEPT ![k] = w[Len(w)]]
           r == SubSeq(s, 1, Len(w) - 1)
<1>3. s \in Seq(Watched) /\ Len(s) = Len(w)
  BY <1>1
<1>4. \A j \in 1 .. Len(w) : s[j] = IF j = k THEN w[Len(w)] ELSE w[j]
  BY <1>1
<1> HIDE DEF s
<1>5. /\ r \in Seq(Watched)
      /\ Len(r) = Len(w) - 1
      /\ \A j \in 1 .. Len(w) - 1 : r[j] = s[j]
  BY <1>1, <1>3
<1>6. RemovedUnordered(w, k) = r
  BY DEF RemovedUnordered, s
<1> HIDE DEF r
<1>7. \A j \in 1 .. Len(w) - 1 : r[j] = IF j = k THEN w[Len(w)] ELSE w[j]
  BY <1>1, <1>4, <1>5
<1>8. DOMAIN r = 1 .. Len(w) - 1
  BY <1>5
<1>9. \A i, j \in DOMAIN r : r[i].var = r[j].var => i = j
  <2> SUFFICES ASSUME NEW i \in 1 .. Len(w) - 1, NEW j \in 1 .. Len(w) - 1,
                      r[i].var = r[j].var
               PROVE  i = j
    BY <1>8
  <2> QED BY <1>1, <1>2, <1>7
<1>10. ToSet(r) = ToSet(w) \ {w[k]}
  <2>1. \A j \in 1 .. Len(w) - 1 : r[j] \in ToSet(w) /\ r[j] /= w[k]
    BY <1>1, <1>2, <1>7 DEF ToSet
  <2>2. \A i \in 1 .. Len(w) : w[i] /= w[k] => \E j \in 1 .. Len(w) - 1 : r[j] = w[i]
    <3> TAKE i \in 1 .. Len(w)
    <3> HAVE w[i] /= w[k]
    <3>1. CASE i = Len(w)
      <4>1. k \in 1 .. Len(w) - 1 /\ r[k] = w[i]
        BY <1>1, <1>7, <3>1
      <4> QED BY <4>1
    <3>2. CASE i /= Len(w)
      <4>1. i \in 1 .. Len(w) - 1 /\ i /= k
        <5>1. Len(w) \in Nat
          BY <1>1
        <5>2. \A n \in Nat : \A j \in 1 .. n : j /= n => j \in 1 .. n - 1
          OBVIOUS
        <5> QED BY <3>2, <5>1, <5>2
      <4>2. r[i] = w[i]
        BY <1>7, <4>1
      <4> QED BY <4>1, <4>2
    <3> QED BY <3>1, <3>2
  <2>3. ToSet(r) \subseteq ToSet(w) \ {w[k]}
    BY <1>8, <2>1 DEF ToSet
  <2>4. \A e \in ToSet(w) : e /= w[k] => e \in ToSet(r)
    BY <1>1, <1>8, <2>2 DEF ToSet
  <2> QED BY <2>3, <2>4
<1> QED BY <1>5, <1>6, <1>9, <1>10 DEF WatchList

\* One variable of the node is taken out, while there is one.
LEMMA WithoutFirstTakesOne ==
  ASSUME NEW w \in WatchList, NEW n
  PROVE  /\ WithoutFirst(w, n) \in WatchList
         /\ ToSet(WithoutFirst(w, n)) \subseteq ToSet(w)
         /\ \A e \in ToSet(w) : NodeOf[e.var] /= n => e \in ToSet(WithoutFirst(w, n))
         /\ \/ Len(WithoutFirst(w, n)) = Len(w) - 1
            \/ /\ WithoutFirst(w, n) = w
               /\ \A e \in ToSet(w) : NodeOf[e.var] /= n
<1> DEFINE I == {k \in 1 .. Len(w) : NodeOf[w[k].var] = n}
           k == SelectInSeq(w, LAMBDA e : NodeOf[e.var] = n)
<1>1. Len(w) \in Nat /\ DOMAIN w = 1 .. Len(w)
  BY DEF WatchList
<1>2. CASE I = {}
  <2>1. k = 0
    BY <1>2 DEF SelectInSeq
  <2>2. WithoutFirst(w, n) = w
    BY <2>1 DEF WithoutFirst
  <2>3. \A e \in ToSet(w) : NodeOf[e.var] /= n
    BY <1>1, <1>2 DEF ToSet
  <2> QED BY <2>2, <2>3
<1>3. CASE I /= {}
  <2>1. Min(I) \in I
    BY <1>1, <1>3, FirstOfPositions
  <2>2. k = Min(I)
    BY <1>3 DEF SelectInSeq
  <2>3. k \in 1 .. Len(w) /\ k /= 0 /\ NodeOf[w[k].var] = n
    BY <2>1, <2>2
  <2>4. WithoutFirst(w, n) = RemovedUnordered(w, k)
    BY <2>3 DEF WithoutFirst
  <2> HIDE DEF k
  <2>5. /\ RemovedUnordered(w, k) \in WatchList
        /\ Len(RemovedUnordered(w, k)) = Len(w) - 1
        /\ ToSet(RemovedUnordered(w, k)) = ToSet(w) \ {w[k]}
    BY <2>3, RemovedUnorderedTakesOut
  <2> QED BY <2>3, <2>4, <2>5
<1> QED BY <1>2, <1>3

\* A function can be applied again and again.
LEMMA IterationExists ==
  ASSUME NEW N \in Nat, NEW X, NEW x \in X, NEW F \in [X -> X]
  PROVE  \E g \in [0 .. N -> X] : g[0] = x /\ \A k \in 1 .. N : g[k] = F[g[k - 1]]
<1> DEFINE P(n, g) == g[0] = x /\ \A k \in 1 .. n : g[k] = F[g[k - 1]]
           S == {n \in Nat : \E g \in [0 .. n -> X] : P(n, g)}
<1>1. 0 \in S
  <2>1. [k \in 0 .. 0 |-> x] \in [0 .. 0 -> X] /\ P(0, [k \in 0 .. 0 |-> x])
    OBVIOUS
  <2> QED BY <2>1
<1>2. ASSUME NEW n \in Nat, n \in S PROVE n + 1 \in S
  <2>1. PICK g \in [0 .. n -> X] : P(n, g)
    BY <1>2
  <2> DEFINE h == [k \in 0 .. n + 1 |-> IF k = n + 1 THEN F[g[n]] ELSE g[k]]
  <2>2. h \in [0 .. n + 1 -> X]
    <3>1. \A k \in 0 .. n + 1 : k = n + 1 \/ k \in 0 .. n
      OBVIOUS
    <3>2. n \in 0 .. n
      OBVIOUS
    <3> QED BY <3>1, <3>2
  <2>3. \A k \in 0 .. n : h[k] = g[k]
    OBVIOUS
  <2>4. h[n + 1] = F[g[n]]
    OBVIOUS
  <2> HIDE DEF h
  <2>5. \A k \in 1 .. n + 1 : h[k] = F[h[k - 1]]
    <3> SUFFICES ASSUME NEW k \in 1 .. n + 1 PROVE h[k] = F[h[k - 1]]
      OBVIOUS
    <3>1. CASE k = n + 1
      <4>1. k - 1 = n /\ n \in 0 .. n
        BY <3>1
      <4> QED BY <2>3, <2>4, <3>1, <4>1
    <3>2. CASE k /= n + 1
      <4>1. k \in 1 .. n /\ k \in 0 .. n /\ k - 1 \in 0 .. n
        BY <3>2
      <4>2. h[k] = g[k] /\ h[k - 1] = g[k - 1]
        BY <2>3, <4>1
      <4> QED BY <2>1, <4>1, <4>2
    <3> QED BY <3>1, <3>2
  <2>6. h[0] = x
    <3>1. 0 \in 0 .. n
      OBVIOUS
    <3> QED BY <2>1, <2>3, <3>1
  <2>7. P(n + 1, h) /\ n + 1 \in Nat
    BY <2>5, <2>6
  <2> QED BY <2>2, <2>7
<1> HIDE DEF S
<1>3. Nat \subseteq S
  BY <1>1, <1>2, NatSetInduction
<1> QED BY <1>3 DEF S

\* drop_node_data takes out the variables of the node, and nothing else.
LEMMA WithoutNodeTakesOut ==
  ASSUME NEW w \in WatchList, NEW n
  PROVE  /\ WithoutNode(w, n) \in WatchList
         /\ ToSet(WithoutNode(w, n)) = {e \in ToSet(w) : NodeOf[e.var] /= n}
<1> DEFINE N == Len(w)
           Body(g) == [k \in 0 .. N |-> IF k = 0 THEN w ELSE WithoutFirst(g[k - 1], n)]
           After == CHOOSE g : g = Body(g)
           F == [u \in WatchList |-> WithoutFirst(u, n)]
<1>1. N \in Nat
  BY DEF WatchList
<1>2. WithoutNode(w, n) = After[N]
  BY DEF WithoutNode
<1> HIDE DEF N
<1>3. F \in [WatchList -> WatchList]
  BY WithoutFirstTakesOne
<1> HIDE DEF F
<1>4. PICK g \in [0 .. N -> WatchList] : g[0] = w /\ \A k \in 1 .. N : g[k] = F[g[k - 1]]
  BY <1>1, <1>3, IterationExists
<1>5. g = Body(g)
  <2>1. ASSUME NEW k \in 0 .. N
        PROVE  g[k] = IF k = 0 THEN w ELSE WithoutFirst(g[k - 1], n)
    <3>1. CASE k = 0
      BY <1>4, <3>1
    <3>2. CASE k /= 0
      <4>1. k \in 1 .. N /\ k - 1 \in 0 .. N
        BY <1>1, <3>2
      <4>2. g[k - 1] \in WatchList /\ g[k] = F[g[k - 1]]
        BY <4>1, <1>4
      <4>3. F[g[k - 1]] = WithoutFirst(g[k - 1], n)
        BY <4>2 DEF F
      <4> QED BY <4>2, <4>3, <3>2
    <3> QED BY <3>1, <3>2
  <2> QED BY <2>1
<1> HIDE DEF Body
<1>6. After = Body(After)
  BY <1>5
<1> HIDE DEF After
<1>7. After[0] = w /\ \A k \in 1 .. N : After[k] = WithoutFirst(After[k - 1], n)
  <2>1. 0 \in 0 .. N
    BY <1>1
  <2>2. \A k \in 1 .. N : k \in 0 .. N /\ k /= 0
    BY <1>1
  <2>3. \A k \in 0 .. N : After[k] = IF k = 0 THEN w ELSE WithoutFirst(After[k - 1], n)
    BY <1>6 DEF Body
  <2> QED BY <2>1, <2>2, <2>3
<1> DEFINE Kept == {e \in ToSet(w) : NodeOf[e.var] /= n}
           Q(u, k) == /\ u \in WatchList
                      /\ ToSet(u) \subseteq ToSet(w)
                      /\ Kept \subseteq ToSet(u)
                      /\ Len(u) <= N - k \/ \A e \in ToSet(u) : NodeOf[e.var] /= n
           S == {k \in Nat : k \in 0 .. N => Q(After[k], k)}
<1> HIDE DEF Kept
<1>8. 0 \in S
  <2>1. Kept \subseteq ToSet(w) /\ Len(w) <= N - 0
    BY <1>1 DEF Kept, N
  <2> QED BY <1>7, <2>1
<1>9. ASSUME NEW k \in Nat, k \in S PROVE k + 1 \in S
  <2> SUFFICES ASSUME k + 1 \in 0 .. N PROVE Q(After[k + 1], k + 1)
    OBVIOUS
  <2>1. k \in 0 .. N /\ k + 1 \in 1 .. N /\ (k + 1) - 1 = k
    BY <1>1
  <2>2. Q(After[k], k)
    BY <1>9, <2>1
  <2>3. After[k + 1] = WithoutFirst(After[k], n)
    BY <1>7, <2>1
  <2> DEFINE u == After[k]
  <2>4. /\ WithoutFirst(u, n) \in WatchList
        /\ ToSet(WithoutFirst(u, n)) \subseteq ToSet(u)
        /\ \A e \in ToSet(u) : NodeOf[e.var] /= n => e \in ToSet(WithoutFirst(u, n))
        /\ \/ Len(WithoutFirst(u, n)) = Len(u) - 1
           \/ /\ WithoutFirst(u, n) = u
              /\ \A e \in ToSet(u) : NodeOf[e.var] /= n
    BY <2>2, WithoutFirstTakesOne
  <2>5. Len(u) \in Nat
    BY <2>2 DEF WatchList
  <2> HIDE DEF u
  <2>6. Kept \subseteq ToSet(WithoutFirst(u, n))
    BY <2>2, <2>4 DEF Kept, u
  <2>7. \/ Len(WithoutFirst(u, n)) <= N - (k + 1)
        \/ \A e \in ToSet(WithoutFirst(u, n)) : NodeOf[e.var] /= n
    <3>1. CASE \A e \in ToSet(u) : NodeOf[e.var] /= n
      BY <2>4, <3>1
    <3>2. CASE Len(u) <= N - k /\ Len(WithoutFirst(u, n)) = Len(u) - 1
      BY <1>1, <2>5, <3>2
    <3> QED BY <2>2, <2>4, <3>1, <3>2 DEF u
  <2> QED BY <2>2, <2>3, <2>4, <2>6, <2>7 DEF u
<1> HIDE DEF S
<1>10. Nat \subseteq S
  BY <1>8, <1>9, NatSetInduction
<1>11. Q(After[N], N)
  <2>1. N \in S /\ N \in 0 .. N
    BY <1>1, <1>10
  <2> QED BY <2>1 DEF S
<1>12. \A e \in ToSet(After[N]) : NodeOf[e.var] /= n
  <2> SUFFICES ASSUME Len(After[N]) <= N - N PROVE \A e \in ToSet(After[N]) : NodeOf[e.var] /= n
    BY <1>11
  <2>1. Len(After[N]) \in Nat /\ DOMAIN After[N] = 1 .. Len(After[N])
    BY <1>11 DEF WatchList
  <2>2. Len(After[N]) = 0
    BY <1>1, <2>1
  <2>3. ToSet(After[N]) = {}
    BY <2>1, <2>2 DEF ToSet
  <2> QED BY <2>3
<1> QED BY <1>2, <1>11, <1>12 DEF Kept

\* A variable more is watched, at the end.
LEMMA WatchingAdds ==
  ASSUME NEW w \in WatchList, NEW v \in Variables
  PROVE  /\ Watching(w, v) \in WatchList
         /\ IsWatching(w, v) => Watching(w, v) = w
         /\ ~ IsWatching(w, v) =>
              /\ Watching(w, v) /= w
              /\ ToSet(Watching(w, v)) = ToSet(w) \cup {[var |-> v, old_value |-> Unset]}
<1> DEFINE e == [var |-> v, old_value |-> Unset]
           r == Append(w, e)
<1>1. w \in Seq(Watched) /\ DOMAIN w = 1 .. Len(w) /\ Len(w) \in Nat
  BY DEF WatchList
<1>2. \A j, k \in 1 .. Len(w) : w[j].var = w[k].var => j = k
  BY <1>1 DEF WatchList
<1>3. CASE IsWatching(w, v)
  BY <1>3 DEF Watching
<1>4. CASE ~ IsWatching(w, v)
  <2>1. Watching(w, v) = r
    BY <1>4 DEF Watching
  <2>2. e \in Watched /\ e.var = v
    BY DEF Watched
  <2>3. \A k \in 1 .. Len(w) : w[k].var /= v
    BY <1>1, <1>4, PositionIsWhereWatched DEF IsWatching
  <2> HIDE DEF e
  <2>4. /\ r \in Seq(Watched)
        /\ Len(r) = Len(w) + 1
        /\ DOMAIN r = 1 .. Len(w) + 1
        /\ \A k \in 1 .. Len(w) : r[k] = w[k]
        /\ r[Len(w) + 1] = e
    BY <1>1, <2>2
  <2> HIDE DEF r
  <2>5. r /= w
    BY <1>1, <2>4
  <2>6. \A k \in 1 .. Len(w) + 1 : k \in 1 .. Len(w) \/ k = Len(w) + 1
    BY <1>1
  <2>7. \A j, k \in DOMAIN r : r[j].var = r[k].var => j = k
    <3> SUFFICES ASSUME NEW j \in 1 .. Len(w) + 1, NEW k \in 1 .. Len(w) + 1,
                        r[j].var = r[k].var
                 PROVE  j = k
      BY <2>4
    <3> QED BY <1>2, <2>2, <2>3, <2>4, <2>6
  <2>8. ToSet(r) = ToSet(w) \cup {e}
    <3>1. \A d \in ToSet(r) : d \in ToSet(w) \cup {e}
      BY <1>1, <2>4, <2>6 DEF ToSet
    <3>2. Len(w) + 1 \in DOMAIN r /\ DOMAIN w \subseteq DOMAIN r
      BY <1>1, <2>4
    <3>3. e \in ToSet(r) /\ ToSet(w) \subseteq ToSet(r)
      BY <1>1, <2>4, <3>2 DEF ToSet
    <3> QED BY <3>1, <3>3
  <2> QED BY <1>4, <2>1, <2>4, <2>5, <2>7, <2>8 DEF e, WatchList
<1> QED BY <1>3, <1>4

\* The old value of a variable that is watched is noted, and nothing else.
LEMMA OldNotedReplaces ==
  ASSUME NEW w \in WatchList, NEW v \in Variables, IsWatching(w, v), NEW old \in Values
  PROVE  /\ OldNoted(w, v, old) \in WatchList
         /\ ToSet(OldNoted(w, v, old)) =
              {e \in ToSet(w) : e.var /= v} \cup {[var |-> v, old_value |-> old]}
<1> DEFINE p == Position(w, v)
           e == [var |-> v, old_value |-> old]
           r == OldNoted(w, v, old)
<1>1. w \in Seq(Watched) /\ DOMAIN w = 1 .. Len(w) /\ Len(w) \in Nat
  BY DEF WatchList
<1>2. \A j, k \in 1 .. Len(w) : w[j].var = w[k].var => j = k
  BY <1>1 DEF WatchList
<1>3. p \in 1 .. Len(w) /\ w[p].var = v
  BY <1>1, PositionIsWhereWatched DEF IsWatching
<1>4. w[p] \in Watched
  BY <1>1, <1>3
<1>5. [w[p] EXCEPT !.old_value = old] = e /\ e \in Watched
  BY <1>3, <1>4 DEF Watched
<1>6. r = [w EXCEPT ![p] = e]
  BY <1>5 DEF OldNoted
<1>7. e.var = v
  OBVIOUS
<1> HIDE DEF p, e, r
<1>8. /\ r \in Seq(Watched)
      /\ DOMAIN r = 1 .. Len(w)
      /\ \A k \in 1 .. Len(w) : r[k] = IF k = p THEN e ELSE w[k]
  BY <1>1, <1>3, <1>5, <1>6
<1>9. \A j, k \in DOMAIN r : r[j].var = r[k].var => j = k
  BY <1>2, <1>3, <1>7, <1>8
<1>10. ToSet(r) = {d \in ToSet(w) : d.var /= v} \cup {e}
  <2>1. \A k \in 1 .. Len(w) : k /= p => w[k].var /= v
    BY <1>2, <1>3
  <2>2. ToSet(r) \subseteq {d \in ToSet(w) : d.var /= v} \cup {e}
    BY <1>1, <1>8, <2>1 DEF ToSet
  <2>3. \A k \in 1 .. Len(w) : w[k].var /= v => r[k] = w[k]
    BY <1>3, <1>8
  <2>4. \A d \in ToSet(w) : d.var /= v => d \in ToSet(r)
    BY <1>1, <1>8, <2>3 DEF ToSet
  <2>5. e \in ToSet(r)
    BY <1>3, <1>8 DEF ToSet
  <2> QED BY <2>2, <2>4, <2>5
<1> QED BY <1>8, <1>9, <1>10 DEF WatchList, e, r

\* The first old values are told, the others and the variables stay.
LEMMA ToldForgets ==
  ASSUME NEW w \in WatchList, NEW n
  PROVE  /\ Told(w, n) \in WatchList
         /\ \A e \in ToSet(Told(w, n)) : e.old_value /= Unset =>
              \E k \in 1 .. Len(w) : ~ k <= n /\ w[k] = e
         /\ \A k \in 1 .. Len(w) : ~ k <= n => w[k] \in ToSet(Told(w, n))
         /\ \A e \in ToSet(w) : \E d \in ToSet(Told(w, n)) : d.var = e.var
         /\ \A d \in ToSet(Told(w, n)) : \E e \in ToSet(w) : d.var = e.var
<1> DEFINE r == Told(w, n)
<1>1. w \in Seq(Watched) /\ DOMAIN w = 1 .. Len(w) /\ Len(w) \in Nat
  BY DEF WatchList
<1>2. \A j, k \in 1 .. Len(w) : w[j].var = w[k].var => j = k
  BY <1>1 DEF WatchList
<1>3. ASSUME NEW k \in 1 .. Len(w)
      PROVE  /\ w[k] \in Watched
             /\ r[k] = IF k <= n THEN [w[k] EXCEPT !.old_value = Unset] ELSE w[k]
             /\ r[k] \in Watched /\ r[k].var = w[k].var
             /\ k <= n => r[k].old_value = Unset
  <2>1. w[k] \in Watched
    BY <1>1
  <2>2. r[k] = IF k <= n THEN [w[k] EXCEPT !.old_value = Unset] ELSE w[k]
    BY <1>1 DEF Told
  <2> QED BY <2>1, <2>2 DEF Watched
<1>4. r = [k \in 1 .. Len(w) |-> r[k]]
  BY <1>1 DEF Told
<1> HIDE DEF r
<1>5. r \in Seq(Watched) /\ DOMAIN r = 1 .. Len(w)
  BY <1>1, <1>3, <1>4
<1>6. r \in WatchList
  BY <1>2, <1>3, <1>5 DEF WatchList
<1>7. \A e \in ToSet(r) : e.old_value /= Unset =>
        \E k \in 1 .. Len(w) : ~ k <= n /\ w[k] = e
  BY <1>3, <1>5 DEF ToSet
<1>8. \A e \in ToSet(w) : \E d \in ToSet(r) : d.var = e.var
  BY <1>1, <1>3, <1>5 DEF ToSet
<1>9. \A d \in ToSet(r) : \E e \in ToSet(w) : d.var = e.var
  BY <1>1, <1>3, <1>5 DEF ToSet
<1>10. \A k \in 1 .. Len(w) : ~ k <= n => w[k] \in ToSet(r)
  BY <1>3, <1>5 DEF ToSet
<1> QED BY <1>6, <1>7, <1>8, <1>9, <1>10 DEF r

\* The index of a method is that of its listener, or 0.
LEMMA IndexIsOfListener ==
  ASSUME event_listener \in Seq(ChangeListener), NEW l
  PROVE  /\ IndexOf(l) \in 0 .. Len(event_listener)
         /\ IndexOf(l) = 0 => \A i \in Indexes : event_listener[i].listener /= l
         /\ IndexOf(l) /= 0 =>
              IndexOf(l) \in Indexes /\ event_listener[IndexOf(l)].listener = l
<1> DEFINE I == {i \in 1 .. Len(event_listener) : event_listener[i].listener = l}
<1>1. Len(event_listener) \in Nat
  OBVIOUS
<1>2. CASE I = {}
  BY <1>1, <1>2 DEF IndexOf, SelectInSeq, Indexes
<1>3. CASE I /= {}
  <2>1. Min(I) \in I
    BY <1>1, <1>3, FirstOfPositions
  <2>2. IndexOf(l) = Min(I)
    BY <1>3 DEF IndexOf, SelectInSeq
  <2> QED BY <2>1, <2>2 DEF Indexes
<1> QED BY <1>2, <1>3

-----------------------------------------------------------------------------
(* The steps of the game. *)

\* What the type invariant says of a listener.
LEMMA ListenersAreTyped ==
  ASSUME TypeOK
  PROVE  /\ Len(event_listener) \in Nat /\ DOMAIN event_listener = Indexes
         /\ \A i \in Indexes :
              /\ event_listener[i] \in ChangeListener
              /\ event_listener[i].watching_vars \in WatchList
<1>1. event_listener \in Seq(ChangeListener)
  BY DEF TypeOK
<1>2. Len(event_listener) \in Nat /\ DOMAIN event_listener = Indexes
  BY <1>1 DEF Indexes
<1>3. ASSUME NEW i \in Indexes
      PROVE  /\ event_listener[i] \in ChangeListener
             /\ event_listener[i].watching_vars \in WatchList
  <2>1. event_listener[i] \in ChangeListener
    BY <1>1, <1>3 DEF Indexes
  <2>2. event_listener[i].watching_vars \in Seq(Watched)
    BY <2>1 DEF ChangeListener
  <2> QED BY <2>1, <2>2 DEF WatchList, TypeOK
<1> QED BY <1>2, <1>3

\* A listener is in the variables it watches, which are registered.
LEMMA WatchersAreListeners ==
  ASSUME TypeOK, WatchersAgree, NEW i \in Indexes
  PROVE  /\ \A v \in Variables : i \in change_listeners[v] <=>
                \E e \in WatchedBy(i) : e.var = v
         /\ \A e \in WatchedBy(i) : e \in Watched /\ e.var \in registered
         /\ \A d, e \in WatchedBy(i) : d.var = e.var => d = e
<1>1. event_listener[i].watching_vars \in WatchList
  BY ListenersAreTyped
<1>2. event_listener[i].watching_vars \in Seq(Watched)
  BY <1>1 DEF WatchList
<1>3. \A v \in Variables : i \in change_listeners[v] <=>
        IsWatching(event_listener[i].watching_vars, v)
  BY DEF WatchersAgree
<1>4. \A v \in Variables : i \in change_listeners[v] <=> \E e \in WatchedBy(i) : e.var = v
  BY <1>2, <1>3, WatchingIsMembership DEF WatchedBy
<1>5. \A e \in WatchedBy(i) : e \in Watched /\ e.var \in Variables
  BY <1>1, ElementsAreSingle DEF WatchedBy, Watched
<1>6. \A e \in WatchedBy(i) : e.var \in registered
  BY <1>4, <1>5 DEF WatchersAgree
<1>7. \A d, e \in WatchedBy(i) : d.var = e.var => d = e
  BY <1>1, ElementsAreSingle DEF WatchedBy
<1> QED BY <1>4, <1>5, <1>6, <1>7

\* How the listeners and the variables agree after a step.
LEMMA AgreementAfter ==
  ASSUME change_listeners' \in [Variables -> SUBSET Indexes'],
         event_listener' \in Seq(ChangeListener),
         \A i \in Indexes' : event_listener'[i].watching_vars \in WatchList,
         \A i \in Indexes' : \A v \in Variables :
           i \in change_listeners'[v] <=> \E e \in WatchedBy(i)' : e.var = v,
         \A v \in Variables : change_listeners'[v] /= {} => v \in registered',
         \A i, j \in Indexes' :
           event_listener'[i].listener = event_listener'[j].listener
             => i = j \/ event_listener'[i].listener = Nobody
  PROVE  /\ WatchersAgree'
         /\ \A i \in Indexes' : LET watching == event_listener'[i].watching_vars IN
              \A j, k \in DOMAIN watching : watching[j].var = watching[k].var => j = k
<1>1. ASSUME NEW v \in Variables, NEW i \in Indexes'
      PROVE  IsWatching(event_listener'[i].watching_vars, v) <=> i \in change_listeners'[v]
  <2>1. event_listener'[i].watching_vars \in Seq(Watched)
    BY DEF WatchList
  <2>2. IsWatching(event_listener'[i].watching_vars, v) <=>
          \E e \in ToSet(event_listener'[i].watching_vars) : e.var = v
    BY <2>1, WatchingIsMembership
  <2> QED BY <2>2 DEF WatchedBy
<1>2. \A v \in Variables : change_listeners'[v] \subseteq Indexes'
  OBVIOUS
<1>3. \A v \in Variables :
        {i \in Indexes' : IsWatching(event_listener'[i].watching_vars, v)} = change_listeners'[v]
  BY <1>1, <1>2
<1>4. WatchersAgree'
  BY <1>3 DEF WatchersAgree
<1> QED BY <1>4 DEF WatchList

\* What stops being watched, and what was noted of it, is forgotten together.
LEMMA WatchesAreForgotten ==
  ASSUME IInv, NEW G,
         registered' \subseteq registered, enabled' \subseteq registered',
         value' \in [Variables -> Values \cup {Unset}],
         \A v \in registered' : value'[v] = value[v],
         event_listener' \in Seq(ChangeListener),
         Indexes' = Indexes,
         \A i \in Indexes :
           /\ event_listener'[i].listener = event_listener[i].listener
           /\ event_listener'[i].emitted = event_listener[i].emitted
           /\ event_listener'[i].watching_vars \in WatchList
           /\ WatchedBy(i)' = {e \in WatchedBy(i) : <<i, e.var>> \notin G},
         change_listeners' \in [Variables -> SUBSET Indexes],
         \A v \in Variables :
           change_listeners'[v] = {i \in change_listeners[v] : <<i, v>> \notin G},
         \A v \in registered : v \notin registered' => \A i \in Indexes : <<i, v>> \in G,
         noted' = {x \in noted : <<x.listener, x.var>> \notin G},
         callback' \in 0 .. MaxCalls,
         UNCHANGED <<alive, phaseVars, heard, callVars>>
  PROVE  IInv'
<1> USE DEF phaseVars, callVars
<1>1. TypeOK /\ WatchersAgree
  BY DEF IInv
<1>2. noted' \subseteq noted
  OBVIOUS
<1>3. WatchersAgree' /\
      \A i \in Indexes' : LET watching == event_listener'[i].watching_vars IN
        \A j, k \in DOMAIN watching : watching[j].var = watching[k].var => j = k
  <2>1. ASSUME NEW i \in Indexes, NEW v \in Variables
        PROVE  i \in change_listeners'[v] <=> \E e \in WatchedBy(i)' : e.var = v
    <3>1. i \in change_listeners[v] <=> \E e \in WatchedBy(i) : e.var = v
      BY <1>1, WatchersAreListeners
    <3>2. WatchedBy(i)' = {e \in WatchedBy(i) : <<i, e.var>> \notin G}
      OBVIOUS
    <3> QED BY <3>1, <3>2
  <2>2. ASSUME NEW v \in Variables, change_listeners'[v] /= {} PROVE v \in registered'
    <3>1. PICK i \in change_listeners[v] : <<i, v>> \notin G
      BY <2>2
    <3>2. change_listeners[v] \subseteq Indexes /\ v \in registered
      BY <1>1, <3>1 DEF TypeOK, WatchersAgree
    <3> QED BY <3>1, <3>2
  <2>3. \A i, j \in Indexes :
          event_listener'[i].listener = event_listener'[j].listener
            => i = j \/ event_listener'[i].listener = Nobody
    BY <1>1 DEF WatchersAgree
  <2> QED BY <2>1, <2>2, <2>3, AgreementAfter
<1>4. TypeOK'
  <2>1. Note' = Note
    BY DEF Note
  <2>2. noted' \cup last_call' \subseteq Note
    BY <1>1, <1>2 DEF TypeOK
  <2>3. registered' \subseteq Variables /\ event_flag' \in Batches \cup {{}} /\ cursor' \in Nat
          /\ phase' \in {"none", "adding", "flushing"} /\ alive' \subseteq Listeners
          /\ heard' \cup called' \cup passed' \subseteq Indexes
    BY <1>1 DEF TypeOK
  <2> QED BY <1>3, <2>1, <2>2, <2>3 DEF TypeOK
<1>5. RegisteredHaveValues' /\ FlushIsOrdered' /\ HeardWait'
  <2>1. RegisteredHaveValues'
    BY DEF IInv, RegisteredHaveValues
  <2>2. FlushIsOrdered'
    BY DEF IInv, FlushIsOrdered
  <2>3. HeardWait'
    BY <1>1 DEF IInv, HeardWait, TypeOK
  <2> QED BY <2>1, <2>2, <2>3
<1>6. NobodyWatches'
  <2>1. \A i \in Indexes : WatchedBy(i)' \subseteq WatchedBy(i)
    OBVIOUS
  <2> QED BY <2>1 DEF IInv, NobodyWatches
<1>7. OldValuesAreNoted'
  <2>1. OldValuesAreNoted
    BY DEF IInv
  <2>2. ASSUME NEW i \in Indexes, NEW e \in WatchedBy(i)', e.old_value /= Unset
        PROVE  [listener |-> i, var |-> e.var, old_value |-> e.old_value] \in noted'
    <3>1. e \in WatchedBy(i) /\ <<i, e.var>> \notin G
      BY <2>2
    <3>2. [listener |-> i, var |-> e.var, old_value |-> e.old_value] \in noted
      BY <2>1, <2>2, <3>1 DEF OldValuesAreNoted
    <3> QED BY <3>1, <3>2
  <2>3. ASSUME NEW y \in noted'
        PROVE  [var |-> y.var, old_value |-> y.old_value] \in WatchedBy(y.listener)'
    <3>1. y \in noted /\ <<y.listener, y.var>> \notin G
      BY <2>3
    <3>2. y.listener \in Indexes
      BY <1>1, <3>1 DEF TypeOK, Note
    <3>3. [var |-> y.var, old_value |-> y.old_value] \in WatchedBy(y.listener)
      BY <2>1, <3>1 DEF OldValuesAreNoted
    <3> QED BY <3>1, <3>2, <3>3
  <2> QED BY <2>2, <2>3 DEF OldValuesAreNoted
<1> QED BY <1>3, <1>4, <1>5, <1>6, <1>7 DEF IInv

\* A listener keeps its type when its list changes.
LEMMA ListenerWithList ==
  ASSUME NEW r \in ChangeListener, NEW w \in WatchList
  PROVE  LET s == [r EXCEPT !.watching_vars = w] IN
         /\ s \in ChangeListener
         /\ s.watching_vars = w
         /\ s.listener = r.listener /\ s.flag = r.flag /\ s.emitted = r.emitted
BY DEF ChangeListener, WatchList

\* The lists of all listeners may change at once.
LEMMA ListenersWithLists ==
  ASSUME TypeOK, NEW W \in [Indexes -> WatchList],
         event_listener' = [i \in DOMAIN event_listener |->
           [event_listener[i] EXCEPT !.watching_vars = W[i]]]
  PROVE  /\ event_listener' \in Seq(ChangeListener)
         /\ Indexes' = Indexes
         /\ \A i \in Indexes :
              /\ event_listener'[i].listener = event_listener[i].listener
              /\ event_listener'[i].emitted = event_listener[i].emitted
              /\ event_listener'[i].watching_vars = W[i]
              /\ WatchedBy(i)' = ToSet(W[i])
<1>1. /\ Len(event_listener) \in Nat /\ DOMAIN event_listener = Indexes
      /\ \A i \in Indexes : event_listener[i] \in ChangeListener
  BY ListenersAreTyped
<1>2. \A i \in Indexes : event_listener'[i] = [event_listener[i] EXCEPT !.watching_vars = W[i]]
  BY <1>1
<1>3. ASSUME NEW i \in Indexes
      PROVE  /\ event_listener'[i] \in ChangeListener
             /\ event_listener'[i].listener = event_listener[i].listener
             /\ event_listener'[i].emitted = event_listener[i].emitted
             /\ event_listener'[i].watching_vars = W[i]
  <2>1. event_listener[i] \in ChangeListener /\ W[i] \in WatchList
    BY <1>1
  <2> DEFINE s == [event_listener[i] EXCEPT !.watching_vars = W[i]]
  <2>2. /\ s \in ChangeListener
        /\ s.watching_vars = W[i]
        /\ s.listener = event_listener[i].listener
        /\ s.emitted = event_listener[i].emitted
    BY <2>1, ListenerWithList
  <2>3. event_listener'[i] = s
    BY <1>2
  <2> HIDE DEF s
  <2> QED BY <2>2, <2>3
<1>4. DOMAIN event_listener' = 1 .. Len(event_listener)
  BY <1>1 DEF Indexes
<1>5. event_listener' = [i \in 1 .. Len(event_listener) |-> event_listener'[i]]
  BY <1>1 DEF Indexes
<1>6. event_listener' \in Seq(ChangeListener) /\ Len(event_listener') = Len(event_listener)
  BY <1>1, <1>3, <1>5 DEF Indexes
<1> QED BY <1>3, <1>6 DEF Indexes, WatchedBy

\* A variable is tracked no more by a listener.
LEMMA UntrackStep ==
  ASSUME IInv, NEW v \in Variables, NEW l \in Listeners, UntrackVariableChanges(v, l)
  PROVE  IInv'
<1> DEFINE i == IndexOf(l)
           W == [j \in Indexes |->
                  IF j = i THEN Erased(event_listener[j].watching_vars, v)
                  ELSE event_listener[j].watching_vars]
           G == {<<i, v>>}
<1>1. TypeOK /\ WatchersAgree
  BY DEF IInv
<1>2. i \in Indexes
  BY <1>1, IndexIsOfListener DEF TypeOK, UntrackVariableChanges
<1>3. /\ event_listener' = [event_listener EXCEPT ![i].watching_vars = Erased(@, v)]
      /\ change_listeners' = [change_listeners EXCEPT ![v] = @ \ {i}]
      /\ noted' = {x \in noted : ~ (x.listener = i /\ x.var = v)}
      /\ UNCHANGED <<gameVars, value, phaseVars, heard, callVars>>
      /\ GameRuns
  BY DEF UntrackVariableChanges, ForgetWatch
<1> HIDE DEF i
<1>4. ASSUME NEW j \in Indexes
      PROVE  /\ event_listener[j] \in ChangeListener
             /\ event_listener[j].watching_vars \in WatchList
             /\ Erased(event_listener[j].watching_vars, v) \in WatchList
  BY <1>1, ListenersAreTyped, ErasedTakesOut
<1>5. W \in [Indexes -> WatchList]
  BY <1>4
<1>6. event_listener' = [j \in DOMAIN event_listener |->
                          [event_listener[j] EXCEPT !.watching_vars = W[j]]]
  <2>1. DOMAIN event_listener = Indexes
    BY <1>1, ListenersAreTyped
  <2>2. \A j \in Indexes : [event_listener[j] EXCEPT !.watching_vars = event_listener[j].watching_vars]
                             = event_listener[j]
    BY <1>4 DEF ChangeListener
  <2> QED BY <1>2, <1>3, <2>1, <2>2
<1>7. ASSUME NEW j \in Indexes
      PROVE  ToSet(W[j]) = {e \in WatchedBy(j) : <<j, e.var>> \notin G}
  BY <1>4, ErasedTakesOut DEF WatchedBy
<1> HIDE DEF W
<1>8. callback' \in 0 .. MaxCalls
  BY <1>1, <1>3, ListenersAssumption DEF GameRuns, TypeOK
<1>9. change_listeners' \in [Variables -> SUBSET Indexes]
  BY <1>1, <1>3 DEF TypeOK
<1>10. ASSUME NEW u \in Variables
       PROVE  change_listeners'[u] = {j \in change_listeners[u] : <<j, u>> \notin G}
  BY <1>1, <1>3 DEF TypeOK
<1>11. noted' = {x \in noted : <<x.listener, x.var>> \notin G}
  BY <1>3
<1>12. /\ event_listener' \in Seq(ChangeListener)
       /\ Indexes' = Indexes
       /\ \A j \in Indexes :
            /\ event_listener'[j].listener = event_listener[j].listener
            /\ event_listener'[j].emitted = event_listener[j].emitted
            /\ event_listener'[j].watching_vars = W[j]
            /\ WatchedBy(j)' = ToSet(W[j])
  BY <1>1, <1>5, <1>6, ListenersWithLists
<1>13. \A j \in Indexes :
         /\ event_listener'[j].listener = event_listener[j].listener
         /\ event_listener'[j].emitted = event_listener[j].emitted
         /\ event_listener'[j].watching_vars \in WatchList
         /\ WatchedBy(j)' = {e \in WatchedBy(j) : <<j, e.var>> \notin G}
  BY <1>5, <1>7, <1>12
<1>14. /\ registered' = registered /\ enabled' = enabled /\ value' = value
       /\ UNCHANGED <<alive, phaseVars, heard, callVars>>
  BY <1>3 DEF gameVars
<1>15. /\ registered' \subseteq registered /\ enabled' \subseteq registered'
       /\ value' \in [Variables -> Values \cup {Unset}]
       /\ \A u \in registered' : value'[u] = value[u]
       /\ \A u \in registered : u \notin registered' => \A j \in Indexes : <<j, u>> \in G
  BY <1>1, <1>14 DEF TypeOK
<1> HIDE DEF G
<1> QED BY <1>8, <1>9, <1>10, <1>11, <1>12, <1>13, <1>14, <1>15, WatchesAreForgotten

\* A variable is unregistered.
LEMMA UnregisterStep ==
  ASSUME IInv, NEW v \in Variables, UnregisterVariable(v)
  PROVE  IInv'
<1> DEFINE W == [j \in Indexes |->
                  IF j \in change_listeners[v] THEN Erased(event_listener[j].watching_vars, v)
                  ELSE event_listener[j].watching_vars]
           G == Indexes \X {v}
<1>1. TypeOK /\ WatchersAgree
  BY DEF IInv
<1>2. /\ event_listener' = ListenersWithout(v)
      /\ change_listeners' = [change_listeners EXCEPT ![v] = {}]
      /\ noted' = {x \in noted : ~ x.var = v}
      /\ UNCHANGED <<alive, registered, value, phaseVars, heard, callVars>>
      /\ enabled' = enabled \ {v}
      /\ GameRuns
  BY DEF UnregisterVariable, ForgetWatch
<1>3. ASSUME NEW j \in Indexes
      PROVE  /\ event_listener[j] \in ChangeListener
             /\ event_listener[j].watching_vars \in WatchList
             /\ Erased(event_listener[j].watching_vars, v) \in WatchList
             /\ ToSet(Erased(event_listener[j].watching_vars, v)) =
                  {e \in WatchedBy(j) : e.var /= v}
  BY <1>1, ListenersAreTyped, ErasedTakesOut DEF WatchedBy
<1>4. W \in [Indexes -> WatchList]
  BY <1>3
<1>5. event_listener' = [j \in DOMAIN event_listener |->
                          [event_listener[j] EXCEPT !.watching_vars = W[j]]]
  <2>1. DOMAIN event_listener = Indexes
    BY <1>1, ListenersAreTyped
  <2>2. \A j \in Indexes : [event_listener[j] EXCEPT !.watching_vars = event_listener[j].watching_vars]
                             = event_listener[j]
    BY <1>3 DEF ChangeListener
  <2> QED BY <1>2, <2>1, <2>2 DEF ListenersWithout
<1>6. ASSUME NEW j \in Indexes
      PROVE  ToSet(W[j]) = {e \in WatchedBy(j) : <<j, e.var>> \notin G}
  <2>1. {e \in WatchedBy(j) : <<j, e.var>> \notin G} = {e \in WatchedBy(j) : e.var /= v}
    OBVIOUS
  <2>2. CASE j \in change_listeners[v]
    BY <1>3, <2>1, <2>2
  <2>3. CASE j \notin change_listeners[v]
    <3>1. \A e \in WatchedBy(j) : e.var /= v
      BY <1>1, <2>3, WatchersAreListeners
    <3>2. ToSet(W[j]) = WatchedBy(j)
      BY <2>3 DEF WatchedBy
    <3> QED BY <2>1, <3>1, <3>2
  <2> QED BY <2>2, <2>3
<1> HIDE DEF W
<1>7. callback' \in 0 .. MaxCalls
  BY <1>1, <1>2, ListenersAssumption DEF GameRuns, TypeOK
<1>8. change_listeners' \in [Variables -> SUBSET Indexes]
  BY <1>1, <1>2 DEF TypeOK
<1>9. ASSUME NEW u \in Variables
      PROVE  change_listeners'[u] = {j \in change_listeners[u] : <<j, u>> \notin G}
  <2>1. change_listeners[u] \subseteq Indexes
    BY <1>1 DEF TypeOK
  <2>2. change_listeners'[u] = IF u = v THEN {} ELSE change_listeners[u]
    BY <1>1, <1>2 DEF TypeOK
  <2> QED BY <2>1, <2>2
<1>10. noted' = {x \in noted : <<x.listener, x.var>> \notin G}
  <2>1. \A x \in noted : x.listener \in Indexes
    BY <1>1 DEF TypeOK, Note
  <2> QED BY <1>2, <2>1
<1>11. /\ event_listener' \in Seq(ChangeListener)
       /\ Indexes' = Indexes
       /\ \A j \in Indexes :
            /\ event_listener'[j].listener = event_listener[j].listener
            /\ event_listener'[j].emitted = event_listener[j].emitted
            /\ event_listener'[j].watching_vars = W[j]
            /\ WatchedBy(j)' = ToSet(W[j])
  BY <1>1, <1>4, <1>5, ListenersWithLists
<1>12. \A j \in Indexes :
         /\ event_listener'[j].listener = event_listener[j].listener
         /\ event_listener'[j].emitted = event_listener[j].emitted
         /\ event_listener'[j].watching_vars \in WatchList
         /\ WatchedBy(j)' = {e \in WatchedBy(j) : <<j, e.var>> \notin G}
  BY <1>4, <1>6, <1>11
<1>13. /\ registered' = registered /\ enabled' \subseteq enabled /\ value' = value
       /\ UNCHANGED <<alive, phaseVars, heard, callVars>>
  BY <1>2
<1>14. /\ registered' \subseteq registered /\ enabled' \subseteq registered'
       /\ value' \in [Variables -> Values \cup {Unset}]
       /\ \A u \in registered' : value'[u] = value[u]
       /\ \A u \in registered : u \notin registered' => \A j \in Indexes : <<j, u>> \in G
  BY <1>1, <1>13 DEF TypeOK
<1> HIDE DEF G
<1> QED BY <1>7, <1>8, <1>9, <1>10, <1>11, <1>12, <1>13, <1>14, WatchesAreForgotten

\* A node is unregistered or leaves the tree.
LEMMA DropStep ==
  ASSUME IInv, NEW n, DropNode(n)
  PROVE  IInv'
<1> DEFINE gone == {v \in registered : NodeOf[v] = n}
           W == [j \in Indexes |-> WithoutNode(event_listener[j].watching_vars, n)]
           G == Indexes \X gone
<1>1. TypeOK /\ WatchersAgree
  BY DEF IInv
<1>2. /\ registered' = registered \ gone
      /\ enabled' = enabled \ gone
      /\ event_listener' = [j \in DOMAIN event_listener |->
           [event_listener[j] EXCEPT !.watching_vars = WithoutNode(@, n)]]
      /\ change_listeners' = [v \in Variables |-> IF v \in gone THEN {} ELSE change_listeners[v]]
      /\ value' = [v \in Variables |-> IF v \in gone THEN Unset ELSE value[v]]
      /\ noted' = {x \in noted : ~ x.var \in gone}
      /\ UNCHANGED <<alive, phaseVars, heard, callVars>>
      /\ GameRuns
  BY DEF DropNode, ForgetWatch
<1>3. \A v : v \in gone <=> v \in registered /\ NodeOf[v] = n
  OBVIOUS
<1> HIDE DEF gone
<1>4. ASSUME NEW j \in Indexes
      PROVE  /\ event_listener[j] \in ChangeListener
             /\ event_listener[j].watching_vars \in WatchList
             /\ W[j] \in WatchList
             /\ ToSet(W[j]) = {e \in WatchedBy(j) : NodeOf[e.var] /= n}
  BY <1>1, ListenersAreTyped, WithoutNodeTakesOut DEF WatchedBy
<1>5. W \in [Indexes -> WatchList]
  BY <1>4
<1>6. event_listener' = [j \in DOMAIN event_listener |->
                          [event_listener[j] EXCEPT !.watching_vars = W[j]]]
  <2>1. DOMAIN event_listener = Indexes
    BY <1>1, ListenersAreTyped
  <2> QED BY <1>2, <2>1
<1>7. ASSUME NEW j \in Indexes
      PROVE  ToSet(W[j]) = {e \in WatchedBy(j) : <<j, e.var>> \notin G}
  <2>1. \A e \in WatchedBy(j) : e.var \in registered
    BY <1>1, WatchersAreListeners
  <2>2. \A e \in WatchedBy(j) : <<j, e.var>> \in G <=> NodeOf[e.var] = n
    BY <1>3, <2>1
  <2> HIDE DEF W, G
  <2> QED BY <1>4, <2>2
<1> HIDE DEF W
<1>8. callback' \in 0 .. MaxCalls
  BY <1>1, <1>2, ListenersAssumption DEF GameRuns, TypeOK
<1>9. change_listeners' \in [Variables -> SUBSET Indexes]
  BY <1>1, <1>2 DEF TypeOK
<1>10. ASSUME NEW u \in Variables
       PROVE  change_listeners'[u] = {j \in change_listeners[u] : <<j, u>> \notin G}
  <2>1. change_listeners[u] \subseteq Indexes
    BY <1>1 DEF TypeOK
  <2>2. change_listeners'[u] = IF u \in gone THEN {} ELSE change_listeners[u]
    BY <1>2
  <2> QED BY <2>1, <2>2
<1>11. noted' = {x \in noted : <<x.listener, x.var>> \notin G}
  <2>1. \A x \in noted : x.listener \in Indexes
    BY <1>1 DEF TypeOK, Note
  <2> QED BY <1>2, <2>1
<1>12. /\ event_listener' \in Seq(ChangeListener)
       /\ Indexes' = Indexes
       /\ \A j \in Indexes :
            /\ event_listener'[j].listener = event_listener[j].listener
            /\ event_listener'[j].emitted = event_listener[j].emitted
            /\ event_listener'[j].watching_vars = W[j]
            /\ WatchedBy(j)' = ToSet(W[j])
  BY <1>1, <1>5, <1>6, ListenersWithLists
<1>13. \A j \in Indexes :
         /\ event_listener'[j].listener = event_listener[j].listener
         /\ event_listener'[j].emitted = event_listener[j].emitted
         /\ event_listener'[j].watching_vars \in WatchList
         /\ WatchedBy(j)' = {e \in WatchedBy(j) : <<j, e.var>> \notin G}
  BY <1>5, <1>7, <1>12
<1>14. UNCHANGED <<alive, phaseVars, heard, callVars>>
  BY <1>2
<1>15. /\ registered' \subseteq registered /\ enabled' \subseteq registered'
       /\ value' \in [Variables -> Values \cup {Unset}]
       /\ \A u \in registered' : value'[u] = value[u]
  BY <1>1, <1>2 DEF TypeOK
<1>16. \A u \in registered : u \notin registered' => \A j \in Indexes : <<j, u>> \in G
  BY <1>2
<1> HIDE DEF G
<1> QED BY <1>8, <1>9, <1>10, <1>11, <1>12, <1>13, <1>14, <1>15, <1>16, WatchesAreForgotten

\* A variable is registered.
LEMMA RegisterStep ==
  ASSUME IInv, NEW v \in Variables, NEW x \in Values, RegisterVariable(v, x)
  PROVE  IInv'
<1>1. /\ registered' = registered \cup {v}
      /\ enabled' = enabled \cup {v}
      /\ value' = IF v \in registered THEN value ELSE [value EXCEPT ![v] = x]
      /\ UNCHANGED <<alive, change_listeners, event_listener, phaseVars, historyVars>>
      /\ GameRuns
  BY DEF RegisterVariable
<1>2. TypeOK /\ WatchersAgree /\ RegisteredHaveValues
  BY DEF IInv
<1>3. Note' = Note /\ Indexes' = Indexes
  BY <1>1 DEF Note, Indexes
<1>4. callback' \in 0 .. MaxCalls
  BY <1>1, <1>2, ListenersAssumption DEF GameRuns, TypeOK
<1>5. value' \in [Variables -> Values \cup {Unset}] /\ \A u \in registered' : value'[u] \in Values
  BY <1>1, <1>2 DEF TypeOK, RegisteredHaveValues
<1>6. TypeOK'
  BY <1>1, <1>2, <1>3, <1>4, <1>5 DEF TypeOK, historyVars, phaseVars, callVars
<1>7. WatchersAgree'
  BY <1>1, <1>2, <1>3 DEF WatchersAgree
<1>8. RegisteredHaveValues'
  BY <1>5 DEF RegisteredHaveValues
<1>9. \A i : WatchedBy(i)' = WatchedBy(i)
  BY <1>1 DEF WatchedBy
<1>10. FlushIsOrdered' /\ HeardWait'
  BY <1>1, <1>3 DEF IInv, FlushIsOrdered, HeardWait, historyVars, phaseVars, callVars
<1>11. NobodyWatches' /\ OldValuesAreNoted'
  BY <1>1, <1>3, <1>9 DEF IInv, NobodyWatches, OldValuesAreNoted, historyVars
<1> QED BY <1>6, <1>7, <1>8, <1>10, <1>11 DEF IInv

\* The object of a listener is freed.
LEMMA FreeStep ==
  ASSUME IInv, NEW l \in Listeners, FreeObject(l)
  PROVE  IInv'
<1>1. /\ alive' = alive \ {l}
      /\ UNCHANGED <<registered, enabled, value, change_listeners, event_listener, phaseVars, historyVars>>
      /\ GameRuns
  BY DEF FreeObject
<1>2. TypeOK /\ WatchersAgree
  BY DEF IInv
<1>3. Note' = Note /\ Indexes' = Indexes
  BY <1>1 DEF Note, Indexes
<1>4. callback' \in 0 .. MaxCalls
  BY <1>1, <1>2, ListenersAssumption DEF GameRuns, TypeOK
<1>5. TypeOK'
  BY <1>1, <1>2, <1>3, <1>4 DEF TypeOK, historyVars, phaseVars, callVars
<1>6. WatchersAgree'
  BY <1>1, <1>2, <1>3 DEF WatchersAgree
<1>7. \A i : WatchedBy(i)' = WatchedBy(i)
  BY <1>1 DEF WatchedBy
<1>8. RegisteredHaveValues' /\ FlushIsOrdered' /\ HeardWait'
  BY <1>1, <1>3 DEF IInv, RegisteredHaveValues, FlushIsOrdered, HeardWait, historyVars, phaseVars, callVars
<1>9. NobodyWatches' /\ OldValuesAreNoted'
  BY <1>1, <1>3, <1>7 DEF IInv, NobodyWatches, OldValuesAreNoted, historyVars
<1> QED BY <1>5, <1>6, <1>8, <1>9 DEF IInv

\* The synchronizer is cleared.
LEMMA ClearStep ==
  ASSUME IInv, Clear
  PROVE  IInv'
<1>1. /\ registered' = {} /\ enabled' = {} /\ event_listener' = <<>>
      /\ change_listeners' = [v \in Variables |-> {}]
      /\ value' = [v \in Variables |-> Unset]
      /\ noted' = {} /\ heard' = {} /\ called' = {} /\ passed' = {} /\ last_call' = {}
      /\ UNCHANGED <<alive, phaseVars>>
      /\ GameRuns
  BY DEF Clear
<1>2. TypeOK /\ FlushIsOrdered
  BY DEF IInv
<1>3. Indexes' = {}
  BY <1>1 DEF Indexes
<1>4. callback' \in 0 .. MaxCalls
  BY <1>1, <1>2, ListenersAssumption DEF GameRuns, TypeOK
<1>5. TypeOK'
  BY <1>1, <1>2, <1>3, <1>4 DEF TypeOK, phaseVars
<1>6. WatchersAgree' /\ RegisteredHaveValues' /\ NobodyWatches' /\ OldValuesAreNoted'
  BY <1>1, <1>3 DEF WatchersAgree, RegisteredHaveValues, NobodyWatches, OldValuesAreNoted
<1>7. FlushIsOrdered' /\ HeardWait'
  BY <1>1, <1>2, <1>3 DEF FlushIsOrdered, HeardWait, phaseVars
<1> QED BY <1>5, <1>6, <1>7 DEF IInv

\* A listener is added, or is there already.
LEMMA ListenersWithOne ==
  ASSUME TypeOK, NEW l \in Listeners, NEW f \in SUBSET Events
  PROVE  LET with == ListenersWith(l, f)
             i == IF IndexOf(l) = 0 THEN Len(with) ELSE IndexOf(l)
         IN /\ with \in Seq(ChangeListener) /\ DOMAIN with = 1 .. Len(with)
            /\ i \in DOMAIN with /\ DOMAIN with = Indexes \cup {i}
            /\ \A j \in Indexes : with[j] = event_listener[j]
            /\ with[i].listener = l
            /\ i \in Indexes <=> IndexOf(l) /= 0
            /\ i \notin Indexes => with[i].watching_vars = <<>> /\ with[i].emitted
<1> DEFINE with == ListenersWith(l, f)
           new == [listener |-> l, flag |-> f, emitted |-> TRUE, watching_vars |-> <<>>]
           n == Len(event_listener)
<1>1. event_listener \in Seq(ChangeListener) /\ n \in Nat /\ Indexes = 1 .. n
  BY DEF TypeOK, Indexes
<1>2. CASE IndexOf(l) /= 0
  <2>1. with = event_listener
    BY <1>2 DEF ListenersWith
  <2>2. IndexOf(l) \in Indexes /\ event_listener[IndexOf(l)].listener = l
    BY <1>1, <1>2, IndexIsOfListener
  <2>3. DOMAIN event_listener = 1 .. n /\ Indexes \cup {IndexOf(l)} = Indexes
    BY <1>1, <2>2
  <2> HIDE DEF with
  <2> QED BY <1>1, <1>2, <2>1, <2>2, <2>3 DEF with
<1>3. CASE IndexOf(l) = 0
  <2>1. with = Append(event_listener, new)
    BY <1>3 DEF ListenersWith
  <2>2. <<>> \in Seq(Watched)
    OBVIOUS
  <2>3. new \in ChangeListener
    BY <2>2 DEF ChangeListener
  <2>4. new.listener = l /\ new.watching_vars = <<>> /\ new.emitted
    OBVIOUS
  <2> HIDE DEF new
  <2>5. /\ with \in Seq(ChangeListener)
        /\ Len(with) = n + 1
        /\ DOMAIN with = 1 .. n + 1
        /\ \A j \in 1 .. n : with[j] = event_listener[j]
        /\ with[n + 1] = new
    BY <1>1, <2>1, <2>3
  <2> HIDE DEF with, n
  <2>6. 1 .. n + 1 = (1 .. n) \cup {n + 1} /\ n + 1 \notin 1 .. n
    BY <1>1
  <2> QED BY <1>1, <1>3, <2>4, <2>5, <2>6 DEF with
<1> QED BY <1>2, <1>3

\* The listener at i watches one more variable.
LEMMA TrackStepAt ==
  ASSUME IInv, NEW v \in Variables, NEW l \in Listeners, NEW f \in SUBSET Events,
         TrackVariableChanges(v, l, f), NEW i,
         i = IF IndexOf(l) = 0 THEN Len(ListenersWith(l, f)) ELSE IndexOf(l)
  PROVE  IInv'
<1> DEFINE with == ListenersWith(l, f)
           w == with[i].watching_vars
           old == IF i \in Indexes THEN WatchedBy(i) ELSE {}
           e == [var |-> v, old_value |-> Unset]
<1>1. TypeOK /\ WatchersAgree
  BY DEF IInv
<1>2. /\ v \in registered
      /\ event_listener' = [with EXCEPT ![i].watching_vars = Watching(w, v)]
      /\ change_listeners' = IF Watching(w, v) = w THEN change_listeners
                             ELSE [change_listeners EXCEPT ![v] = @ \cup {i}]
      /\ UNCHANGED <<gameVars, value, phaseVars, historyVars>>
      /\ GameRuns
  BY DEF TrackVariableChanges
<1>3. /\ with \in Seq(ChangeListener) /\ DOMAIN with = 1 .. Len(with)
      /\ i \in DOMAIN with /\ DOMAIN with = Indexes \cup {i}
      /\ \A j \in Indexes : with[j] = event_listener[j]
      /\ with[i].listener = l
      /\ i \in Indexes <=> IndexOf(l) /= 0
      /\ i \notin Indexes => w = <<>> /\ with[i].emitted
  BY <1>1, ListenersWithOne
<1>4. \A j \in Indexes : event_listener[j].listener = l => j = i
  <2>1. IndexOf(l) /= 0 => i \in Indexes /\ event_listener[i].listener = l
    BY <1>3
  <2>2. IndexOf(l) = 0 => \A j \in Indexes : event_listener[j].listener /= l
    BY <1>1, IndexIsOfListener DEF TypeOK
  <2>3. l /= Nobody
    BY ListenersAssumption
  <2> QED BY <1>1, <2>1, <2>2, <2>3 DEF WatchersAgree
<1> HIDE DEF with
<1>5. w \in WatchList /\ ToSet(w) = old
  <2>1. CASE i \in Indexes
    BY <1>1, <1>3, <2>1, ListenersAreTyped DEF WatchedBy
  <2>2. CASE i \notin Indexes
    BY <1>3, <2>2, EmptyList
  <2> QED BY <2>1, <2>2
<1>6. /\ Watching(w, v) \in WatchList
      /\ IsWatching(w, v) => Watching(w, v) = w
      /\ ~ IsWatching(w, v) =>
           Watching(w, v) /= w /\ ToSet(Watching(w, v)) = ToSet(w) \cup {e}
  BY <1>5, WatchingAdds
<1> DEFINE s == [with[i] EXCEPT !.watching_vars = Watching(w, v)]
<1>7. with[i] \in ChangeListener
  BY <1>3
<1>8. /\ s \in ChangeListener
      /\ s.watching_vars = Watching(w, v)
      /\ s.listener = l /\ s.emitted = with[i].emitted
  BY <1>3, <1>6, <1>7, ListenerWithList
<1>9. event_listener' = [with EXCEPT ![i] = s]
  BY <1>2, <1>3
<1> HIDE DEF s
<1>10. /\ event_listener' \in Seq(ChangeListener)
       /\ Len(event_listener') = Len(with)
       /\ event_listener'[i] = s
       /\ \A j \in DOMAIN with : j /= i => event_listener'[j] = with[j]
  BY <1>3, <1>8, <1>9
<1>11. Indexes' = Indexes \cup {i}
  BY <1>3, <1>10 DEF Indexes
<1>12. ASSUME NEW j \in Indexes
       PROVE  /\ event_listener'[j].listener = event_listener[j].listener
              /\ event_listener'[j].emitted = event_listener[j].emitted
              /\ j /= i => event_listener'[j] = event_listener[j]
  BY <1>3, <1>8, <1>10
<1>13. ASSUME NEW j \in Indexes, j /= i
       PROVE  WatchedBy(j)' = WatchedBy(j)
  BY <1>12, <1>13 DEF WatchedBy
<1>14. WatchedBy(i)' = IF IsWatching(w, v) THEN old ELSE old \cup {e}
  BY <1>5, <1>6, <1>8, <1>10 DEF WatchedBy
<1>15. \A j \in Indexes' : event_listener'[j].watching_vars \in WatchList
  <2>1. \A j \in Indexes : event_listener[j].watching_vars \in WatchList
    BY <1>1, ListenersAreTyped
  <2> QED BY <1>6, <1>8, <1>10, <1>11, <1>12, <2>1
<1>16. change_listeners' \in [Variables -> SUBSET Indexes']
  BY <1>1, <1>2, <1>11 DEF TypeOK
<1>17. IsWatching(w, v) <=> \E d \in old : d.var = v
  <2>1. w \in Seq(Watched)
    BY <1>5 DEF WatchList
  <2> QED BY <1>5, <2>1, WatchingIsMembership
<1>18. ASSUME NEW j \in Indexes', NEW u \in Variables
       PROVE  j \in change_listeners'[u] <=> \E d \in WatchedBy(j)' : d.var = u
  <2>1. j \in change_listeners'[u] <=>
          j \in change_listeners[u] \/ (~ IsWatching(w, v) /\ u = v /\ j = i)
    BY <1>1, <1>2, <1>6 DEF TypeOK
  <2>2. CASE j /= i
    <3>1. j \in Indexes
      BY <1>11, <2>2
    <3> QED BY <1>1, <1>13, <2>1, <2>2, <3>1, WatchersAreListeners
  <2>3. CASE j = i
    <3>1. i \in change_listeners[u] <=> \E d \in old : d.var = u
      <4>1. CASE i \in Indexes
        BY <1>1, <4>1, WatchersAreListeners
      <4>2. CASE i \notin Indexes
        BY <1>1, <4>2 DEF TypeOK
      <4> QED BY <4>1, <4>2
    <3>2. e.var = v
      OBVIOUS
    <3> HIDE DEF old, e
    <3> QED BY <1>14, <1>17, <2>1, <2>3, <3>1, <3>2
  <2> QED BY <2>2, <2>3
<1>19. \A u \in Variables : change_listeners'[u] /= {} => u \in registered'
  <2>1. registered' = registered
    BY <1>2 DEF gameVars
  <2>2. \A u \in Variables : u = v \/ change_listeners'[u] = change_listeners[u]
    BY <1>1, <1>2 DEF TypeOK
  <2> QED BY <1>1, <1>2, <2>1, <2>2 DEF WatchersAgree
<1>20. \A j, k \in Indexes' :
         event_listener'[j].listener = event_listener'[k].listener
           => j = k \/ event_listener'[j].listener = Nobody
  <2>1. \A j \in Indexes' : j = i \/ (j \in Indexes /\ event_listener'[j].listener = event_listener[j].listener)
    BY <1>11, <1>12
  <2>2. event_listener'[i].listener = l
    BY <1>8, <1>10
  <2>3. \A j, k \in Indexes :
          event_listener[j].listener = event_listener[k].listener
            => j = k \/ event_listener[j].listener = Nobody
    BY <1>1 DEF WatchersAgree
  <2> QED BY <1>4, <2>1, <2>2, <2>3
<1>21. WatchersAgree' /\
       \A j \in Indexes' : LET watching == event_listener'[j].watching_vars IN
         \A k, m \in DOMAIN watching : watching[k].var = watching[m].var => k = m
  BY <1>10, <1>15, <1>16, <1>18, <1>19, <1>20, AgreementAfter
<1>22. TypeOK'
  <2>1. Note \subseteq Note'
    BY <1>11 DEF Note
  <2>2. callback' \in 0 .. MaxCalls
    BY <1>1, <1>2, ListenersAssumption DEF GameRuns, TypeOK
  <2>3. /\ UNCHANGED <<alive, registered, enabled, value, phaseVars, noted, heard, callVars>>
        /\ noted' \cup last_call' \subseteq Note'
        /\ heard' \cup called' \cup passed' \subseteq Indexes'
    BY <1>1, <1>2, <1>11, <2>1 DEF TypeOK, gameVars, historyVars, callVars
  <2> QED BY <1>1, <1>10, <1>16, <1>21, <2>2, <2>3 DEF TypeOK, phaseVars
<1>23. RegisteredHaveValues' /\ FlushIsOrdered'
  BY <1>2 DEF IInv, RegisteredHaveValues, FlushIsOrdered, gameVars, historyVars, phaseVars, callVars
<1>24. NobodyWatches'
  <2>1. NobodyWatches
    BY DEF IInv
  <2>2. event_listener'[i].listener /= Nobody
    BY <1>8, <1>10, ListenersAssumption
  <2> QED BY <1>11, <1>12, <1>13, <2>1, <2>2 DEF NobodyWatches
<1>25. OldValuesAreNoted'
  <2>1. OldValuesAreNoted /\ noted' = noted
    BY <1>2 DEF IInv, historyVars
  <2>2. ASSUME NEW j \in Indexes', NEW d \in WatchedBy(j)', d.old_value /= Unset
        PROVE  [listener |-> j, var |-> d.var, old_value |-> d.old_value] \in noted
    <3>1. e.old_value = Unset
      OBVIOUS
    <3>2. j \in Indexes /\ d \in WatchedBy(j)
      <4> HIDE DEF e
      <4>1. CASE j /= i
        BY <1>11, <1>13, <2>2, <4>1
      <4>2. CASE j = i
        BY <1>14, <2>2, <3>1, <4>2
      <4> QED BY <4>1, <4>2
    <3> QED BY <2>1, <2>2, <3>2 DEF OldValuesAreNoted
  <2>3. ASSUME NEW y \in noted
        PROVE  [var |-> y.var, old_value |-> y.old_value] \in WatchedBy(y.listener)'
    <3>1. y.listener \in Indexes
      BY <1>1, <2>3 DEF TypeOK, Note
    <3>2. WatchedBy(y.listener) \subseteq WatchedBy(y.listener)'
      BY <1>13, <1>14, <3>1
    <3> QED BY <2>1, <2>3, <3>2 DEF OldValuesAreNoted
  <2> QED BY <2>1, <2>2, <2>3 DEF OldValuesAreNoted
<1>26. HeardWait'
  <2>1. HeardWait /\ heard \subseteq Indexes
    BY <1>1 DEF IInv, TypeOK
  <2>2. UNCHANGED <<heard, called, passed, phase, cursor>>
    BY <1>2 DEF historyVars, phaseVars, callVars
  <2>3. i \notin Indexes => event_listener'[i].emitted
    BY <1>3, <1>8, <1>10
  <2>4. \A j \in Indexes' : j = i \/ j \in Indexes
    BY <1>11
  <2> QED BY <1>12, <2>1, <2>2, <2>3, <2>4 DEF HeardWait
<1> QED BY <1>21, <1>22, <1>23, <1>24, <1>25, <1>26 DEF IInv

\* A listener watches one more variable.
LEMMA TrackStep ==
  ASSUME IInv, NEW v \in Variables, NEW l \in Listeners, NEW f \in SUBSET Events,
         TrackVariableChanges(v, l, f)
  PROVE  IInv'
<1>1. PICK i : i = IF IndexOf(l) = 0 THEN Len(ListenersWith(l, f)) ELSE IndexOf(l)
  OBVIOUS
<1> QED BY <1>1, TrackStepAt

-----------------------------------------------------------------------------
(* The steps of a batch. *)

\* A batch begins, or its flush does: nothing else changes.
LEMMA PhaseStep ==
  ASSUME IInv,
         UNCHANGED <<gameVars, value, change_listeners, event_listener, callback, historyVars>>,
         \/ /\ phase = "none" /\ phase' = "adding" /\ cursor' = cursor /\ event_flag' \in Batches
         \/ phase = "adding" /\ phase' = "flushing" /\ cursor' = 1 /\ event_flag' = event_flag
  PROVE  IInv'
<1> USE DEF gameVars, historyVars, callVars
<1>1. TypeOK /\ FlushIsOrdered /\ HeardWait
  BY DEF IInv
<1>2. Note' = Note /\ Indexes' = Indexes
  BY DEF Note, Indexes
<1>3. TypeOK'
  BY <1>1, <1>2 DEF TypeOK
<1>4. WatchersAgree'
  BY <1>2 DEF IInv, WatchersAgree
<1>5. \A i : WatchedBy(i)' = WatchedBy(i)
  BY DEF WatchedBy
<1>6. RegisteredHaveValues'
  BY DEF IInv, RegisteredHaveValues
<1>7. FlushIsOrdered'
  BY <1>1 DEF FlushIsOrdered
<1>8. NobodyWatches' /\ OldValuesAreNoted'
  BY <1>2, <1>5 DEF IInv, NobodyWatches, OldValuesAreNoted
<1>9. HeardWait'
  <2>1. Len(event_listener) \in Nat
    BY <1>1 DEF TypeOK
  <2>2. \A i \in Indexes : i >= 1
    BY <2>1 DEF Indexes
  <2> QED BY <1>1, <1>2, <2>2 DEF HeardWait
<1> QED BY <1>3, <1>4, <1>6, <1>7, <1>8, <1>9 DEF IInv

\* A change is noted in the listeners that hear of it.
LEMMA AddStep ==
  ASSUME IInv, NEW v \in Variables, NEW old \in Values, NEW new \in Values,
         ChangeEventAdd(v, old, new)
  PROVE  IInv'
<1> DEFINE H == Hearing(v)
           e == [var |-> v, old_value |-> old]
           s(i) == [event_listener[i] EXCEPT !.emitted = FALSE,
                                             !.watching_vars = OldNoted(@, v, old)]
<1>1. TypeOK /\ WatchersAgree /\ FlushIsOrdered
  BY DEF IInv
<1>2. /\ phase = "adding"
      /\ v \in registered
      /\ value' = [value EXCEPT ![v] = new]
      /\ event_listener' = [i \in DOMAIN event_listener |->
           IF i \in H THEN s(i) ELSE event_listener[i]]
      /\ noted' = {x \in noted : ~ (x.var = v /\ x.listener \in H)}
           \cup {[listener |-> i, var |-> v, old_value |-> old] : i \in H}
      /\ heard' = heard \cup H
      /\ UNCHANGED <<gameVars, change_listeners, batchVars, callVars>>
  BY <1>1 DEF ChangeEventAdd, IsChange, TypeOK
<1>3. H \subseteq Indexes /\ \A i \in H : i \in change_listeners[v]
  BY <1>1 DEF Hearing, TypeOK
<1>4. called = {} /\ passed = {} /\ called' = {} /\ passed' = {} /\ phase' = "adding"
        /\ UNCHANGED <<cursor, event_flag, phase, callback, last_call, alive, registered, enabled>>
  BY <1>1, <1>2 DEF FlushIsOrdered, batchVars, phaseVars, callVars, gameVars
<1> HIDE DEF H
<1>5. ASSUME NEW i \in H
      PROVE  /\ s(i) \in ChangeListener
             /\ s(i).listener = event_listener[i].listener
             /\ ~ s(i).emitted
             /\ s(i).watching_vars \in WatchList
             /\ ToSet(s(i).watching_vars) = {d \in WatchedBy(i) : d.var /= v} \cup {e}
  <2> DEFINE w == event_listener[i].watching_vars
             o == OldNoted(w, v, old)
  <2>1. event_listener[i] \in ChangeListener /\ w \in WatchList
    BY <1>1, <1>3, ListenersAreTyped
  <2>2. IsWatching(w, v)
    BY <1>1, <1>3 DEF WatchersAgree
  <2>3. o \in WatchList /\ ToSet(o) = {d \in ToSet(w) : d.var /= v} \cup {e}
    BY <2>1, <2>2, OldNotedReplaces
  <2>4. s(i) = [event_listener[i] EXCEPT !.emitted = FALSE, !.watching_vars = o]
    OBVIOUS
  <2> HIDE DEF o
  <2>5. o \in Seq(Watched)
    BY <2>3 DEF WatchList
  <2>6. /\ s(i) \in ChangeListener
        /\ s(i).listener = event_listener[i].listener
        /\ ~ s(i).emitted
        /\ s(i).watching_vars = o
    BY <2>1, <2>4, <2>5 DEF ChangeListener
  <2> QED BY <2>3, <2>6 DEF WatchedBy
<1> HIDE DEF s
<1>6. /\ Len(event_listener) \in Nat /\ DOMAIN event_listener = Indexes
      /\ \A i \in Indexes :
           /\ event_listener[i] \in ChangeListener
           /\ event_listener[i].watching_vars \in WatchList
  BY <1>1, ListenersAreTyped
<1>7. ASSUME NEW i \in Indexes
      PROVE  /\ event_listener'[i] \in ChangeListener
             /\ event_listener'[i].watching_vars \in WatchList
             /\ event_listener'[i].listener = event_listener[i].listener
             /\ i \in H => event_listener'[i] = s(i)
             /\ i \notin H => event_listener'[i] = event_listener[i]
  BY <1>2, <1>5, <1>6
<1>8. event_listener' \in Seq(ChangeListener) /\ Indexes' = Indexes
  <2>1. event_listener' = [i \in 1 .. Len(event_listener) |-> event_listener'[i]]
    BY <1>2, <1>6 DEF Indexes
  <2>2. event_listener' \in Seq(ChangeListener) /\ Len(event_listener') = Len(event_listener)
    BY <1>6, <1>7, <2>1 DEF Indexes
  <2> QED BY <2>2 DEF Indexes
<1>9. ASSUME NEW i \in Indexes
      PROVE  /\ i \in H => WatchedBy(i)' = {d \in WatchedBy(i) : d.var /= v} \cup {e}
             /\ i \notin H => WatchedBy(i)' = WatchedBy(i)
  BY <1>5, <1>7 DEF WatchedBy
<1>10. e.var = v /\ e.old_value = old /\ old /= Unset
  BY ListenersAssumption
<1> HIDE DEF e
<1>11. value' \in [Variables -> Values \cup {Unset}] /\ \A u \in registered : value'[u] \in Values
  BY <1>1, <1>2 DEF TypeOK, IInv, RegisteredHaveValues
<1>12. ASSUME NEW i \in Indexes, NEW u \in Variables
       PROVE  i \in change_listeners'[u] <=> \E d \in WatchedBy(i)' : d.var = u
  <2>1. i \in change_listeners[u] <=> \E d \in WatchedBy(i) : d.var = u
    BY <1>1, WatchersAreListeners
  <2>2. change_listeners' = change_listeners
    BY <1>2
  <2>3. CASE i \in H
    <3>1. i \in change_listeners[v]
      BY <1>3, <2>3
    <3> QED BY <1>9, <1>10, <2>1, <2>2, <2>3, <3>1
  <2> QED BY <1>9, <2>1, <2>2, <2>3
<1>13. WatchersAgree' /\
       \A i \in Indexes' : LET watching == event_listener'[i].watching_vars IN
         \A k, m \in DOMAIN watching : watching[k].var = watching[m].var => k = m
  <2>1. change_listeners' \in [Variables -> SUBSET Indexes']
    BY <1>1, <1>2, <1>8 DEF TypeOK
  <2>2. \A u \in Variables : change_listeners'[u] /= {} => u \in registered'
    BY <1>1, <1>2, <1>4 DEF WatchersAgree
  <2>3. \A i, j \in Indexes' :
          event_listener'[i].listener = event_listener'[j].listener
            => i = j \/ event_listener'[i].listener = Nobody
    BY <1>1, <1>7, <1>8 DEF WatchersAgree
  <2> QED BY <1>7, <1>8, <1>12, <2>1, <2>2, <2>3, AgreementAfter
<1>14. TypeOK'
  <2>1. Note' = Note
    BY <1>8 DEF Note
  <2>2. noted' \subseteq Note
    BY <1>1, <1>2, <1>3 DEF TypeOK, Note
  <2>3. heard' \cup called' \cup passed' \subseteq Indexes'
    BY <1>1, <1>2, <1>3, <1>4, <1>8 DEF TypeOK
  <2>4. /\ UNCHANGED <<alive, registered, enabled, change_listeners, event_flag, cursor, callback>>
        /\ phase' = "adding" /\ last_call' = last_call
    BY <1>2, <1>4
  <2> QED BY <1>1, <1>8, <1>11, <1>13, <2>1, <2>2, <2>3, <2>4 DEF TypeOK
<1>15. RegisteredHaveValues' /\ FlushIsOrdered'
  BY <1>1, <1>4, <1>11 DEF RegisteredHaveValues, FlushIsOrdered
<1>16. NobodyWatches'
  <2>1. ASSUME NEW i \in H PROVE event_listener[i].listener /= Nobody
    <3>1. \E d \in WatchedBy(i) : d.var = v
      BY <1>1, <1>3, WatchersAreListeners
    <3> QED BY <1>3, <3>1 DEF IInv, NobodyWatches
  <2> QED BY <1>7, <1>8, <1>9, <2>1 DEF IInv, NobodyWatches
<1>17. OldValuesAreNoted'
  <2>1. ASSUME NEW i \in Indexes, NEW d \in WatchedBy(i)', d.old_value /= Unset
        PROVE  [listener |-> i, var |-> d.var, old_value |-> d.old_value] \in noted'
    <3>1. CASE i \in H /\ d = e
      BY <1>2, <1>10, <3>1
    <3>2. CASE d \in WatchedBy(i) /\ ~ (i \in H /\ d.var = v)
      <4>1. [listener |-> i, var |-> d.var, old_value |-> d.old_value] \in noted
        BY <2>1, <3>2 DEF IInv, OldValuesAreNoted
      <4> QED BY <1>2, <3>2, <4>1
    <3> QED BY <1>9, <2>1, <3>1, <3>2
  <2>2. ASSUME NEW y \in noted'
        PROVE  [var |-> y.var, old_value |-> y.old_value] \in WatchedBy(y.listener)'
    <3>1. CASE y \in noted /\ ~ (y.var = v /\ y.listener \in H)
      <4>1. y.listener \in Indexes
        BY <1>1, <3>1 DEF TypeOK, Note
      <4>2. [var |-> y.var, old_value |-> y.old_value] \in WatchedBy(y.listener)
        BY <3>1 DEF IInv, OldValuesAreNoted
      <4> QED BY <1>9, <3>1, <4>1, <4>2
    <3>2. CASE \E i \in H : y = [listener |-> i, var |-> v, old_value |-> old]
      <4>1. PICK i \in H : y = [listener |-> i, var |-> v, old_value |-> old]
        BY <3>2
      <4>2. i \in Indexes /\ e \in WatchedBy(i)'
        BY <1>3, <1>9
      <4>3. e = [var |-> y.var, old_value |-> y.old_value] /\ y.listener = i
        BY <4>1 DEF e
      <4> QED BY <4>2, <4>3
    <3> QED BY <1>2, <2>2, <3>1, <3>2
  <2> QED BY <1>8, <2>1, <2>2 DEF OldValuesAreNoted
<1>18. HeardWait'
  <2>1. HeardWait
    BY DEF IInv
  <2>2. \A i \in H : i \in Indexes /\ ~ event_listener'[i].emitted
    BY <1>3, <1>5, <1>7
  <2> QED BY <1>1, <1>2, <1>4, <1>7, <1>8, <2>1, <2>2 DEF HeardWait, TypeOK
<1> QED BY <1>13, <1>14, <1>15, <1>16, <1>17, <1>18 DEF IInv

\* One listener changes.
LEMMA ListenerReplaced ==
  ASSUME TypeOK, NEW c \in Indexes, NEW r \in ChangeListener,
         event_listener' = [event_listener EXCEPT ![c] = r]
  PROVE  /\ event_listener' \in Seq(ChangeListener)
         /\ Indexes' = Indexes
         /\ event_listener'[c] = r
         /\ WatchedBy(c)' = ToSet(r.watching_vars)
         /\ \A j \in Indexes : j /= c =>
              event_listener'[j] = event_listener[j] /\ WatchedBy(j)' = WatchedBy(j)
<1>1. event_listener \in Seq(ChangeListener) /\ DOMAIN event_listener = 1 .. Len(event_listener)
        /\ Len(event_listener) \in Nat
  BY DEF TypeOK
<1>2. /\ event_listener' \in Seq(ChangeListener)
      /\ Len(event_listener') = Len(event_listener)
      /\ event_listener'[c] = r
      /\ \A j \in 1 .. Len(event_listener) : j /= c => event_listener'[j] = event_listener[j]
  BY <1>1 DEF Indexes
<1> QED BY <1>2 DEF Indexes, WatchedBy

\* The listener whose turn it is was not called nor passed yet.
LEMMA TurnIsNew ==
  ASSUME IInv, NEW c, c = cursor, phase = "flushing", c <= Len(event_listener)
  PROVE  c \in Indexes /\ c \notin called /\ c \notin passed
<1>1. cursor \in Nat /\ cursor >= 1 /\ called \cup passed \subseteq 1 .. cursor - 1
  BY DEF IInv, FlushIsOrdered, TypeOK
<1>2. c \notin 1 .. cursor - 1
  BY <1>1
<1>3. Len(event_listener) \in Nat
  BY DEF IInv, TypeOK
<1> QED BY <1>1, <1>2, <1>3 DEF Indexes

\* What is the same after every turn of the flush.
LEMMA TurnKeeps ==
  ASSUME IInv, NEW c \in Indexes, c = cursor, phase = "flushing", cursor' = c + 1,
         called' \cup passed' \subseteq called \cup passed \cup {c},
         UNCHANGED <<gameVars, value, event_flag, phase, heard>>
  PROVE  /\ RegisteredHaveValues' /\ FlushIsOrdered'
         /\ alive' \subseteq Listeners
         /\ enabled' \subseteq registered' /\ registered' \subseteq Variables
         /\ value' \in [Variables -> Values \cup {Unset}]
         /\ event_flag' \in Batches \cup {{}} /\ phase' = "flushing" /\ cursor' \in Nat
         /\ heard' \cup called' \cup passed' \subseteq Indexes
<1> USE DEF gameVars
<1>1. TypeOK /\ FlushIsOrdered /\ RegisteredHaveValues
  BY DEF IInv
<1>2. cursor \in Nat /\ cursor >= 1 /\ called \cup passed \subseteq 1 .. cursor - 1
  BY <1>1 DEF FlushIsOrdered, TypeOK
<1>3. called' \cup passed' \subseteq 1 .. cursor' - 1
  <2>1. 1 .. cursor - 1 \subseteq 1 .. (c + 1) - 1 /\ c \in 1 .. (c + 1) - 1
    BY <1>2
  <2> QED BY <1>2, <2>1
<1>4. FlushIsOrdered'
  <2>1. cursor' >= 1
    BY <1>2
  <2> QED BY <1>3, <2>1 DEF FlushIsOrdered
<1>5. RegisteredHaveValues'
  BY <1>1 DEF RegisteredHaveValues
<1> QED BY <1>1, <1>2, <1>4, <1>5 DEF TypeOK

\* A listener with nothing noted is passed over.
LEMMA SilentStep ==
  ASSUME IInv, NEW c \in Indexes, c = cursor, phase = "flushing", cursor' = c + 1, FlushSilent,
         UNCHANGED <<gameVars, value, event_flag, phase, heard>>
  PROVE  IInv'
<1>1. TypeOK /\ WatchersAgree /\ HeardWait
  BY DEF IInv
<1>2. /\ event_listener[c].emitted /\ callback' = 0 /\ last_call' = {}
      /\ UNCHANGED <<change_listeners, event_listener, noted, called, passed>>
  BY DEF FlushSilent, Current
<1>3. Indexes' = Indexes /\ Note' = Note /\ \A i : WatchedBy(i)' = WatchedBy(i)
  BY <1>2 DEF Indexes, Note, WatchedBy
<1>4. /\ RegisteredHaveValues' /\ FlushIsOrdered'
      /\ alive' \subseteq Listeners
      /\ enabled' \subseteq registered' /\ registered' \subseteq Variables
      /\ value' \in [Variables -> Values \cup {Unset}]
      /\ event_flag' \in Batches \cup {{}} /\ phase' = "flushing" /\ cursor' \in Nat
      /\ heard' \cup called' \cup passed' \subseteq Indexes
  BY <1>2, TurnKeeps
<1>5. TypeOK'
  BY <1>1, <1>2, <1>3, <1>4, ListenersAssumption DEF TypeOK
<1>6. WatchersAgree' /\ NobodyWatches' /\ OldValuesAreNoted'
  BY <1>2, <1>3 DEF IInv, WatchersAgree, NobodyWatches, OldValuesAreNoted, gameVars
<1>7. HeardWait'
  <2>1. ASSUME NEW i \in Indexes, ~ event_listener[i].emitted PROVE i >= c + 1
    <3>1. i /= c /\ i >= c
      BY <1>1, <1>2, <2>1 DEF HeardWait
    <3>2. i \in Nat /\ c \in Nat
      BY <1>1 DEF TypeOK, Indexes
    <3> QED BY <3>1, <3>2
  <2> QED BY <1>1, <1>2, <1>3, <2>1 DEF HeardWait
<1> QED BY <1>4, <1>5, <1>6, <1>7 DEF IInv

\* The turn of a listener: what it must leave of its notes and old values.
LEMMA TurnStep ==
  ASSUME IInv, NEW c \in Indexes, c = cursor, phase = "flushing", cursor' = c + 1,
         NEW r \in ChangeListener,
         event_listener' = [event_listener EXCEPT ![c] = r],
         r.watching_vars \in WatchList,
         r.listener \in {event_listener[c].listener, Nobody},
         r.listener = Nobody => ToSet(r.watching_vars) = {},
         \A v \in Variables :
           c \in change_listeners'[v] <=> \E e \in ToSet(r.watching_vars) : e.var = v,
         change_listeners' \in [Variables -> SUBSET Indexes],
         \A v \in Variables : change_listeners'[v] \subseteq change_listeners[v],
         \A v \in Variables : \A i \in change_listeners[v] : i /= c => i \in change_listeners'[v],
         callback' \in 0 .. MaxCalls,
         last_call' \subseteq Note,
         noted' \subseteq noted,
         \A y \in noted : y.listener /= c => y \in noted',
         \A y \in noted' : y.listener = c =>
           [var |-> y.var, old_value |-> y.old_value] \in ToSet(r.watching_vars),
         called \cup passed \subseteq called' \cup passed',
         called' \cup passed' \subseteq called \cup passed \cup {c},
         \A e \in ToSet(r.watching_vars) : e.old_value /= Unset =>
           [listener |-> c, var |-> e.var, old_value |-> e.old_value] \in noted',
         r.emitted,
         r.listener = Nobody \/ c \in called' \cup passed',
         UNCHANGED <<gameVars, value, event_flag, phase, heard>>
  PROVE  IInv'
<1>1. TypeOK /\ WatchersAgree /\ HeardWait /\ NobodyWatches /\ OldValuesAreNoted
  BY DEF IInv
<1>2. /\ event_listener' \in Seq(ChangeListener)
      /\ Indexes' = Indexes
      /\ event_listener'[c] = r
      /\ WatchedBy(c)' = ToSet(r.watching_vars)
      /\ \A j \in Indexes : j /= c =>
           event_listener'[j] = event_listener[j] /\ WatchedBy(j)' = WatchedBy(j)
  BY <1>1, ListenerReplaced
<1>3. /\ RegisteredHaveValues' /\ FlushIsOrdered'
      /\ alive' \subseteq Listeners
      /\ enabled' \subseteq registered' /\ registered' \subseteq Variables
      /\ value' \in [Variables -> Values \cup {Unset}]
      /\ event_flag' \in Batches \cup {{}} /\ phase' = "flushing" /\ cursor' \in Nat
      /\ heard' \cup called' \cup passed' \subseteq Indexes
  BY TurnKeeps
<1>4. Note' = Note
  BY <1>2 DEF Note
<1>5. WatchersAgree' /\
      \A i \in Indexes' : LET watching == event_listener'[i].watching_vars IN
        \A k, m \in DOMAIN watching : watching[k].var = watching[m].var => k = m
  <2>1. ASSUME NEW i \in Indexes, NEW v \in Variables
        PROVE  i \in change_listeners'[v] <=> \E d \in WatchedBy(i)' : d.var = v
    <3>1. CASE i = c
      BY <1>2, <3>1
    <3>2. CASE i /= c
      <4>1. i \in change_listeners'[v] <=> i \in change_listeners[v]
        BY <3>2
      <4>2. i \in change_listeners[v] <=> \E d \in WatchedBy(i) : d.var = v
        BY <1>1, WatchersAreListeners
      <4> QED BY <1>2, <3>2, <4>1, <4>2
    <3> QED BY <3>1, <3>2
  <2>2. \A v \in Variables : change_listeners'[v] /= {} => v \in registered'
    BY <1>1 DEF WatchersAgree, gameVars
  <2>3. \A i, j \in Indexes :
          event_listener'[i].listener = event_listener'[j].listener
            => i = j \/ event_listener'[i].listener = Nobody
    BY <1>1, <1>2 DEF WatchersAgree
  <2>4. \A i \in Indexes : event_listener'[i].watching_vars \in WatchList
    BY <1>1, <1>2, ListenersAreTyped
  <2> QED BY <1>2, <2>1, <2>2, <2>3, <2>4, AgreementAfter
<1>6. TypeOK'
  <2>1. noted' \cup last_call' \subseteq Note
    BY <1>1 DEF TypeOK
  <2> QED BY <1>2, <1>3, <1>4, <1>5, <2>1 DEF TypeOK
<1>7. NobodyWatches'
  BY <1>1, <1>2 DEF NobodyWatches
<1>8. OldValuesAreNoted'
  <2>1. ASSUME NEW i \in Indexes, NEW d \in WatchedBy(i)', d.old_value /= Unset
        PROVE  [listener |-> i, var |-> d.var, old_value |-> d.old_value] \in noted'
    <3>1. CASE i = c
      BY <1>2, <2>1, <3>1
    <3>2. CASE i /= c
      <4>1. [listener |-> i, var |-> d.var, old_value |-> d.old_value] \in noted
        BY <1>1, <1>2, <2>1, <3>2 DEF OldValuesAreNoted
      <4> QED BY <3>2, <4>1
    <3> QED BY <3>1, <3>2
  <2>2. ASSUME NEW y \in noted'
        PROVE  [var |-> y.var, old_value |-> y.old_value] \in WatchedBy(y.listener)'
    <3>1. y.listener \in Indexes
      BY <1>1, <2>2 DEF TypeOK, Note
    <3>2. CASE y.listener = c
      BY <1>2, <2>2, <3>2
    <3>3. CASE y.listener /= c
      BY <1>1, <1>2, <2>2, <3>1, <3>3 DEF OldValuesAreNoted
    <3> QED BY <3>2, <3>3
  <2> QED BY <1>2, <2>1, <2>2 DEF OldValuesAreNoted
<1>9. HeardWait'
  <2>1. ASSUME NEW i \in Indexes, ~ event_listener'[i].emitted
        PROVE  i \in heard /\ i >= c + 1
    <3>1. i /= c
      BY <1>2, <2>1
    <3>2. i \in heard /\ i >= c
      BY <1>1, <1>2, <2>1, <3>1 DEF HeardWait
    <3>3. i \in Nat /\ c \in Nat
      BY <1>1 DEF TypeOK, Indexes
    <3> QED BY <3>1, <3>2, <3>3
  <2>2. ASSUME NEW i \in heard
        PROVE  \/ i \in called' \cup passed'
               \/ event_listener'[i].listener = Nobody
               \/ ~ event_listener'[i].emitted
    <3>1. i \in Indexes
      BY <1>1 DEF TypeOK
    <3>2. CASE i = c
      BY <1>2, <3>2
    <3>3. CASE i /= c
      BY <1>1, <1>2, <3>1, <3>3 DEF HeardWait
    <3> QED BY <3>2, <3>3
  <2> QED BY <1>2, <2>1, <2>2 DEF HeardWait
<1> QED BY <1>3, <1>5, <1>6, <1>7, <1>8, <1>9 DEF IInv

\* The object of the listener is gone.
LEMMA FreedStep ==
  ASSUME IInv, NEW c \in Indexes, c = cursor, phase = "flushing", cursor' = c + 1, FlushFreed,
         UNCHANGED <<gameVars, value, event_flag, phase, heard>>
  PROVE  IInv'
<1> DEFINE r == [listener |-> Nobody, flag |-> {}, emitted |-> TRUE, watching_vars |-> <<>>]
<1>1. TypeOK /\ WatchersAgree
  BY DEF IInv
<1>2. /\ callback' = 0 /\ last_call' = {}
      /\ event_listener' = [event_listener EXCEPT ![c] = r]
      /\ change_listeners' = [v \in Variables |->
           IF IsWatching(event_listener[c].watching_vars, v) THEN change_listeners[v] \ {c}
           ELSE change_listeners[v]]
      /\ noted' = {y \in noted : y.listener /= c}
      /\ UNCHANGED <<called, passed>>
  BY DEF FlushFreed, Current
<1>3. r \in ChangeListener
  <2>1. <<>> \in Seq(Watched)
    OBVIOUS
  <2> QED BY <2>1 DEF ChangeListener
<1>4. r.listener = Nobody /\ r.emitted /\ r.watching_vars \in WatchList /\ ToSet(r.watching_vars) = {}
  BY EmptyList
<1> HIDE DEF r
<1>5. \A v \in Variables : c \in change_listeners[v] <=>
        IsWatching(event_listener[c].watching_vars, v)
  BY <1>1 DEF WatchersAgree
<1>6. \A v \in Variables : c \notin change_listeners'[v]
  BY <1>2, <1>5
<1>7. change_listeners' \in [Variables -> SUBSET Indexes]
  BY <1>1, <1>2 DEF TypeOK
<1>8. /\ \A v \in Variables : change_listeners'[v] \subseteq change_listeners[v]
      /\ \A v \in Variables : \A i \in change_listeners[v] : i /= c => i \in change_listeners'[v]
  BY <1>2
<1>9. callback' \in 0 .. MaxCalls /\ last_call' \subseteq Note
  BY <1>1, <1>2, ListenersAssumption DEF TypeOK
<1>10. /\ noted' \subseteq noted
       /\ \A y \in noted : y.listener /= c => y \in noted'
       /\ \A y \in noted' : y.listener /= c
  BY <1>2
<1> QED BY <1>2, <1>3, <1>4, <1>6, <1>7, <1>8, <1>9, <1>10, TurnStep

\* The listener is passed, as it watches too few variables.
LEMMA BrokenStep ==
  ASSUME IInv, NEW c \in Indexes, c = cursor, phase = "flushing", cursor' = c + 1, FlushBroken,
         UNCHANGED <<gameVars, value, event_flag, phase, heard>>
  PROVE  IInv'
<1> DEFINE r == [event_listener[c] EXCEPT !.emitted = TRUE]
<1>1. TypeOK /\ WatchersAgree /\ OldValuesAreNoted
  BY DEF IInv
<1>2. /\ callback' = 0 /\ last_call' = {}
      /\ event_listener' = [event_listener EXCEPT ![c] = r]
      /\ passed' = passed \cup {c}
      /\ event_listener[c].listener \in alive
      /\ UNCHANGED <<change_listeners, noted, called>>
  BY DEF FlushBroken, Current
<1>3. event_listener[c] \in ChangeListener /\ event_listener[c].watching_vars \in WatchList
  BY <1>1, ListenersAreTyped
<1>4. r \in ChangeListener /\ r.listener = event_listener[c].listener
        /\ r.watching_vars = event_listener[c].watching_vars /\ r.emitted
  BY <1>3 DEF ChangeListener
<1>5. r.listener /= Nobody
  BY <1>1, <1>2, <1>4, ListenersAssumption DEF TypeOK
<1>6. ToSet(r.watching_vars) = WatchedBy(c)
  BY <1>4 DEF WatchedBy
<1> HIDE DEF r
<1>7. \A v \in Variables : c \in change_listeners'[v] <=> \E e \in ToSet(r.watching_vars) : e.var = v
  BY <1>1, <1>2, <1>6, WatchersAreListeners
<1>8. /\ change_listeners' \in [Variables -> SUBSET Indexes]
      /\ \A v \in Variables : change_listeners'[v] \subseteq change_listeners[v]
      /\ \A v \in Variables : \A i \in change_listeners[v] : i /= c => i \in change_listeners'[v]
  BY <1>1, <1>2 DEF TypeOK
<1>9. callback' \in 0 .. MaxCalls /\ last_call' \subseteq Note
  BY <1>1, <1>2, ListenersAssumption DEF TypeOK
<1>10. /\ \A e \in ToSet(r.watching_vars) : e.old_value /= Unset =>
            [listener |-> c, var |-> e.var, old_value |-> e.old_value] \in noted'
       /\ \A y \in noted' : y.listener = c =>
            [var |-> y.var, old_value |-> y.old_value] \in ToSet(r.watching_vars)
  BY <1>1, <1>2, <1>6 DEF OldValuesAreNoted
<1>11. /\ called \cup passed \subseteq called' \cup passed'
       /\ called' \cup passed' \subseteq called \cup passed \cup {c}
       /\ c \in called' \cup passed'
  BY <1>2
<1> QED BY <1>2, <1>3, <1>4, <1>5, <1>7, <1>8, <1>9, <1>10, <1>11, TurnStep

\* The listener is called, and what it is told is right.
LEMMA CallStep ==
  ASSUME IInv, NEW c \in Indexes, c = cursor, phase = "flushing", cursor' = c + 1, FlushCall,
         UNCHANGED <<gameVars, value, event_flag, phase, heard>>
  PROVE  IInv' /\ c \in heard /\ \A x \in last_call' : IsRight(x)
<1> DEFINE w == event_listener[c].watching_vars
           n == ArgumentCount[event_listener[c].listener]
           r == [event_listener[c] EXCEPT !.emitted = TRUE, !.watching_vars = Told(@, n)]
           argument(k) == [listener |-> c, var |-> w[k].var, old_value |-> Argument(w[k])]
<1>1. TypeOK /\ WatchersAgree /\ OldValuesAreNoted /\ HeardWait
  BY DEF IInv
<1>2. /\ n <= Len(w)
      /\ callback' = MaxCalls
      /\ event_listener' = [event_listener EXCEPT ![c] = r]
      /\ called' = called \cup {c}
      /\ last_call' = {argument(k) : k \in 1 .. n}
      /\ noted' = {x \in noted : \A y \in last_call' : x.listener = y.listener => x.var /= y.var}
      /\ event_listener[c].listener \in alive
      /\ UNCHANGED <<change_listeners, passed>>
  <2>1. /\ n <= Len(w) /\ event_listener[c].listener \in alive
        /\ callback' = MaxCalls
        /\ called' = called \cup {c}
        /\ UNCHANGED <<change_listeners, passed>>
    BY DEF FlushCall, Current
  <2>2. event_listener' = [event_listener EXCEPT ![c] = r]
    <3>1. event_listener' = [event_listener EXCEPT ![c].emitted = TRUE,
                                                   ![c].watching_vars = Told(@, n)]
      BY DEF FlushCall, Current
    <3>2. event_listener \in Seq(ChangeListener) /\ c \in DOMAIN event_listener
      BY <1>1 DEF TypeOK, Indexes
    <3> HIDE DEF n
    <3> QED BY <3>1, <3>2
  <2>3. last_call' = {argument(k) : k \in 1 .. n}
    BY DEF FlushCall, Current
  <2>4. noted' = {x \in noted : \A y \in last_call' : x.listener = y.listener => x.var /= y.var}
    BY DEF FlushCall
  <2> QED BY <2>1, <2>2, <2>3, <2>4
<1>3. event_listener[c] \in ChangeListener /\ w \in WatchList
  BY <1>1, ListenersAreTyped
<1>4. n \in Nat /\ Len(w) \in Nat /\ DOMAIN w = 1 .. Len(w) /\ event_listener[c].listener /= Nobody
  BY <1>1, <1>2, <1>3, ListenersAssumption DEF TypeOK, WatchList
<1> HIDE DEF n
<1> DEFINE o == Told(w, n)
<1>5. /\ o \in WatchList
      /\ \A e \in ToSet(o) : e.old_value /= Unset => \E k \in 1 .. Len(w) : ~ k <= n /\ w[k] = e
      /\ \A k \in 1 .. Len(w) : ~ k <= n => w[k] \in ToSet(o)
      /\ \A e \in ToSet(w) : \E d \in ToSet(o) : d.var = e.var
      /\ \A d \in ToSet(o) : \E e \in ToSet(w) : d.var = e.var
  BY <1>3, ToldForgets
<1>6. r = [event_listener[c] EXCEPT !.emitted = TRUE, !.watching_vars = o]
  OBVIOUS
<1> HIDE DEF o
<1>7. /\ r \in ChangeListener /\ r.emitted
      /\ r.listener = event_listener[c].listener /\ r.watching_vars = o
  <2>1. o \in Seq(Watched)
    BY <1>5 DEF WatchList
  <2> QED BY <1>3, <1>6, <2>1 DEF ChangeListener
<1> HIDE DEF r
<1>8. /\ WatchedBy(c) = ToSet(w)
      /\ \A k \in 1 .. Len(w) : w[k] \in ToSet(w)
      /\ \A e \in ToSet(w) : \E k \in 1 .. Len(w) : e = w[k]
      /\ \A k, m \in 1 .. Len(w) : w[k].var = w[m].var => k = m
  BY <1>3, <1>4 DEF WatchedBy, ToSet, WatchList
<1> HIDE DEF w
<1>9. \A e \in WatchedBy(c) : e \in Watched /\ e.var \in Variables /\ e.var \in registered
  BY <1>1, WatchersAreListeners DEF Watched
<1>10. \A v \in Variables : c \in change_listeners'[v] <=> \E e \in ToSet(r.watching_vars) : e.var = v
  <2>1. \A v \in Variables : c \in change_listeners[v] <=> \E e \in ToSet(w) : e.var = v
    BY <1>1, <1>8, WatchersAreListeners
  <2> QED BY <1>2, <1>5, <1>7, <2>1
<1>11. /\ change_listeners' \in [Variables -> SUBSET Indexes]
       /\ \A v \in Variables : change_listeners'[v] \subseteq change_listeners[v]
       /\ \A v \in Variables : \A i \in change_listeners[v] : i /= c => i \in change_listeners'[v]
  BY <1>1, <1>2 DEF TypeOK
<1>12. ASSUME NEW k \in 1 .. n
       PROVE  argument(k) \in Note /\ IsRight(argument(k))
  <2>1. w[k] \in WatchedBy(c)
    BY <1>2, <1>4, <1>8
  <2>2. w[k] \in Watched /\ w[k].var \in Variables /\ w[k].var \in registered
    BY <1>9, <2>1
  <2>3. value[w[k].var] \in Values
    BY <2>2 DEF IInv, RegisteredHaveValues
  <2>4. Argument(w[k]) \in Values
    BY <2>2, <2>3 DEF Argument, Watched
  <2>5. argument(k) \in Note
    BY <2>2, <2>4 DEF Note
  <2> DEFINE x == argument(k)
             waiting == {y \in noted : y.listener = x.listener /\ y.var = x.var}
  <2>6. x.listener = c /\ x.var = w[k].var /\ x.old_value = Argument(w[k])
    OBVIOUS
  <2>7. ASSUME NEW y \in waiting PROVE y = x
    <3>1. y \in noted /\ y.listener = c /\ y.var = w[k].var
      OBVIOUS
    <3>2. [var |-> y.var, old_value |-> y.old_value] \in WatchedBy(c)
      BY <1>1, <3>1 DEF OldValuesAreNoted
    <3>3. w[k] = [var |-> y.var, old_value |-> y.old_value]
      BY <1>1, <2>1, <3>1, <3>2, WatchersAreListeners
    <3>4. y \in Note
      BY <1>1, <3>1 DEF TypeOK
    <3>5. y.old_value \in Values /\ y.old_value /= Unset
      BY <3>4, ListenersAssumption DEF Note
    <3>6. Argument(w[k]) = y.old_value
      BY <3>3, <3>5 DEF Argument
    <3>7. y = [listener |-> y.listener, var |-> y.var, old_value |-> y.old_value]
      BY <3>4 DEF Note
    <3> QED BY <3>1, <3>6, <3>7
  <2>8. CASE waiting /= {}
    <3>1. x \in waiting
      BY <2>7, <2>8
    <3> HIDE DEF x
    <3> QED BY <2>5, <2>8, <3>1 DEF IsRight, x
  <2>9. CASE waiting = {}
    <3> DEFINE y == [listener |-> c, var |-> w[k].var, old_value |-> w[k].old_value]
    <3>1. w[k].old_value /= Unset => y \in noted
      BY <1>1, <2>1 DEF OldValuesAreNoted
    <3>2. y.listener = c /\ y.var = w[k].var
      OBVIOUS
    <3>3. y \notin noted
      BY <2>6, <2>9, <3>2
    <3> HIDE DEF y
    <3>4. x.old_value = value[x.var]
      BY <2>6, <3>1, <3>3 DEF Argument
    <3> HIDE DEF x
    <3> QED BY <2>5, <2>9, <3>4 DEF IsRight, x
  <2> QED BY <2>5, <2>8, <2>9
<1>13. last_call' \subseteq Note /\ \A x \in last_call' : IsRight(x)
  BY <1>2, <1>12
<1>14. \A x \in noted : x \in noted' <=> (x.listener = c => \A k \in 1 .. n : x.var /= w[k].var)
  <2>1. \A k \in 1 .. n : argument(k).listener = c /\ argument(k).var = w[k].var
    OBVIOUS
  <2> HIDE DEF argument
  <2> QED BY <1>2, <2>1
<1>15. callback' \in 0 .. MaxCalls /\ noted' \subseteq noted
         /\ \A x \in noted : x.listener /= c => x \in noted'
  BY <1>2, <1>14, ListenersAssumption
<1>16. ASSUME NEW e \in ToSet(r.watching_vars), e.old_value /= Unset
       PROVE  [listener |-> c, var |-> e.var, old_value |-> e.old_value] \in noted'
  <2> DEFINE y == [listener |-> c, var |-> e.var, old_value |-> e.old_value]
  <2>1. PICK k \in 1 .. Len(w) : ~ k <= n /\ w[k] = e
    BY <1>5, <1>7, <1>16
  <2>2. y \in noted
    BY <1>1, <1>8, <1>16, <2>1 DEF OldValuesAreNoted
  <2>3. y.var = w[k].var
    BY <2>1
  <2>4. \A m \in 1 .. n : m \in 1 .. Len(w) /\ m /= k
    BY <1>2, <1>4, <2>1
  <2>5. \A m \in 1 .. n : y.var /= w[m].var
    BY <1>8, <2>3, <2>4
  <2> HIDE DEF y
  <2>6. y \in noted'
    BY <1>14, <2>2, <2>5
  <2> QED BY <2>6 DEF y
<1>17. ASSUME NEW y \in noted', y.listener = c
       PROVE  [var |-> y.var, old_value |-> y.old_value] \in ToSet(r.watching_vars)
  <2> DEFINE e == [var |-> y.var, old_value |-> y.old_value]
  <2>1. y \in noted /\ \A k \in 1 .. n : y.var /= w[k].var
    BY <1>14, <1>15, <1>17
  <2>2. e \in ToSet(w)
    BY <1>1, <1>8, <1>17, <2>1 DEF OldValuesAreNoted
  <2>3. e.var = y.var
    OBVIOUS
  <2> HIDE DEF e
  <2>4. PICK k \in 1 .. Len(w) : e = w[k]
    BY <1>8, <2>2
  <2>5. ~ k <= n
    <3>1. k \notin 1 .. n
      BY <2>1, <2>3, <2>4
    <3> QED BY <1>4, <3>1
  <2>6. e \in ToSet(r.watching_vars)
    BY <1>5, <1>7, <2>4, <2>5
  <2> QED BY <2>6 DEF e
<1>18. /\ called \cup passed \subseteq called' \cup passed'
       /\ called' \cup passed' \subseteq called \cup passed \cup {c}
       /\ c \in called' \cup passed'
  BY <1>2
<1>19. r.watching_vars \in WatchList /\ r.listener \in {event_listener[c].listener, Nobody}
         /\ r.listener /= Nobody
  BY <1>4, <1>5, <1>7
<1>20. c \in heard
  BY <1>1 DEF FlushCall, Current, HeardWait
<1> HIDE DEF argument
<1>21. IInv'
  <2>1. event_listener' = [event_listener EXCEPT ![c] = r]
    BY <1>2
  <2>2. \A e \in ToSet(r.watching_vars) : e.old_value /= Unset =>
          [listener |-> c, var |-> e.var, old_value |-> e.old_value] \in noted'
    BY <1>16
  <2>3. last_call' \subseteq Note
    BY <1>13
  <2>4. \A y \in noted' : y.listener = c =>
          [var |-> y.var, old_value |-> y.old_value] \in ToSet(r.watching_vars)
    BY <1>17
  <2> QED BY <1>7, <1>10, <1>11, <1>15, <1>18, <1>19, <2>1, <2>2, <2>3, <2>4, TurnStep
<1> QED BY <1>13, <1>20, <1>21

\* The flush ends: no listener waits for its turn.
LEMMA EndStep ==
  ASSUME IInv, FlushEnds
  PROVE  /\ IInv'
         /\ \A i \in heard : i \in called \cup passed \/ event_listener[i].listener = Nobody
<1>1. /\ phase = "flushing" /\ cursor > Len(event_listener)
      /\ phase' = "none" /\ cursor' = 1 /\ event_flag' = {} /\ callback' = 0
      /\ heard' = {} /\ called' = {} /\ passed' = {} /\ last_call' = {}
      /\ UNCHANGED <<gameVars, value, change_listeners, event_listener, noted>>
  BY DEF FlushEnds
<1>2. TypeOK /\ HeardWait
  BY DEF IInv
<1>3. ASSUME NEW i \in Indexes PROVE event_listener[i].emitted
  <2>1. i \in Nat /\ i <= Len(event_listener) /\ Len(event_listener) \in Nat /\ cursor \in Nat
    BY <1>2 DEF TypeOK, Indexes
  <2>2. ~ i >= cursor
    BY <1>1, <2>1
  <2> QED BY <1>1, <1>2, <2>2 DEF HeardWait
<1>4. Indexes' = Indexes /\ Note' = Note /\ \A i : WatchedBy(i)' = WatchedBy(i)
  BY <1>1 DEF Indexes, Note, WatchedBy
<1>5. TypeOK'
  BY <1>1, <1>2, <1>4, ListenersAssumption DEF TypeOK, gameVars
<1>6. WatchersAgree' /\ RegisteredHaveValues' /\ NobodyWatches' /\ OldValuesAreNoted'
  BY <1>1, <1>4 DEF IInv, WatchersAgree, RegisteredHaveValues, NobodyWatches, OldValuesAreNoted, gameVars
<1>7. FlushIsOrdered' /\ HeardWait'
  BY <1>1, <1>3, <1>4 DEF FlushIsOrdered, HeardWait
<1>8. IInv'
  BY <1>5, <1>6, <1>7 DEF IInv
<1>9. \A i \in heard : i \in called \cup passed \/ event_listener[i].listener = Nobody
  <2>1. heard \subseteq Indexes
    BY <1>2 DEF TypeOK
  <2> QED BY <1>2, <1>3, <2>1 DEF HeardWait
<1> QED BY <1>8, <1>9

-----------------------------------------------------------------------------
(* The theorems. *)

\* The bounds of Tracks.
LEMMA TracksAreTyped ==
  ASSUME NEW t \in Tracks
  PROVE  t[1] \in Variables /\ t[2] \in Listeners /\ t[3] \in SUBSET Events
BY EventsAssumption

LEMMA InitIInv == Init => IInv
<1> SUFFICES ASSUME Init PROVE IInv
  OBVIOUS
<1> USE DEF Init
<1>1. Indexes = {}
  BY DEF Indexes
<1>2. TypeOK
  BY <1>1, ListenersAssumption DEF TypeOK
<1>3. WatchersAgree /\ RegisteredHaveValues /\ NobodyWatches /\ OldValuesAreNoted
  BY <1>1 DEF WatchersAgree, RegisteredHaveValues, NobodyWatches, OldValuesAreNoted
<1>4. FlushIsOrdered /\ HeardWait
  BY <1>1 DEF FlushIsOrdered, HeardWait
<1> QED BY <1>2, <1>3, <1>4 DEF IInv

\* A turn of the flush, and what it tells.
LEMMA FlushStep ==
  ASSUME IInv, FlushNext
  PROVE  /\ IInv'
         /\ cursor \in called' => cursor \in heard \ called /\ \A x \in last_call' : IsRight(x)
<1>1. PICK c : c = cursor
  OBVIOUS
<1>2. /\ phase = "flushing" /\ c <= Len(event_listener) /\ cursor' = c + 1
      /\ FlushSilent \/ FlushFreed \/ FlushBroken \/ FlushCall
      /\ UNCHANGED <<gameVars, value, event_flag, phase, heard>>
  BY <1>1 DEF FlushNext
<1>3. c \in Indexes /\ c \notin called
  BY <1>1, <1>2, TurnIsNew
<1>4. CASE FlushSilent
  BY <1>1, <1>2, <1>3, <1>4, SilentStep DEF FlushSilent
<1>5. CASE FlushFreed
  BY <1>1, <1>2, <1>3, <1>5, FreedStep DEF FlushFreed
<1>6. CASE FlushBroken
  BY <1>1, <1>2, <1>3, <1>6, BrokenStep DEF FlushBroken
<1>7. CASE FlushCall
  BY <1>1, <1>2, <1>3, <1>7, CallStep
<1> QED BY <1>2, <1>4, <1>5, <1>6, <1>7

\* A step in which nothing changes.
LEMMA StutterStep ==
  ASSUME IInv, UNCHANGED vars
  PROVE  IInv'
<1> USE DEF vars, gameVars, batchVars, phaseVars, historyVars, callVars
<1>1. Indexes' = Indexes /\ Note' = Note /\ \A i : WatchedBy(i)' = WatchedBy(i)
  BY DEF Indexes, Note, WatchedBy
<1>2. TypeOK'
  BY <1>1 DEF IInv, TypeOK
<1>3. WatchersAgree' /\ RegisteredHaveValues' /\ FlushIsOrdered'
  BY <1>1 DEF IInv, WatchersAgree, RegisteredHaveValues, FlushIsOrdered
<1>4. NobodyWatches' /\ OldValuesAreNoted' /\ HeardWait'
  BY <1>1 DEF IInv, NobodyWatches, OldValuesAreNoted, HeardWait
<1> QED BY <1>2, <1>3, <1>4 DEF IInv

LEMMA NextIInv == IInv /\ [Game \/ Batch]_vars => IInv'
<1> SUFFICES ASSUME IInv, [Game \/ Batch]_vars PROVE IInv'
  OBVIOUS
<1>1. CASE \E v \in Variables, x \in Values : RegisterVariable(v, x)
  BY <1>1, RegisterStep
<1>2. CASE \E t \in Tracks : TrackVariableChanges(t[1], t[2], t[3])
  BY <1>2, TrackStep, TracksAreTyped
<1>3. CASE \E v \in Variables, l \in Listeners : UntrackVariableChanges(v, l)
  BY <1>3, UntrackStep
<1>4. CASE \E v \in Variables : UnregisterVariable(v) \/ DropNode(NodeOf[v])
  BY <1>4, UnregisterStep, DropStep
<1>5. CASE \E l \in Listeners : FreeObject(l)
  BY <1>5, FreeStep
<1>6. CASE Clear
  BY <1>6, ClearStep
<1>7. CASE \E f \in Batches : ChangeEventsBegin(f)
  BY <1>7, PhaseStep DEF ChangeEventsBegin
<1>8. CASE \E v \in Variables, old \in Values, new \in Values : ChangeEventAdd(v, old, new)
  BY <1>8, AddStep
<1>9. CASE FlushBegins
  BY <1>9, PhaseStep DEF FlushBegins
<1>10. CASE FlushNext
  BY <1>10, FlushStep
<1>11. CASE FlushEnds
  BY <1>11, EndStep
<1>12. CASE UNCHANGED vars
  BY <1>12, StutterStep
<1> QED BY <1>1, <1>2, <1>3, <1>4, <1>5, <1>6, <1>7, <1>8, <1>9, <1>10, <1>11, <1>12 DEF Game, Batch

LEMMA SpecIInv == Spec => []IInv
BY InitIInv, NextIInv, PTL DEF Spec

\* The state of the listeners and of the batch is well-typed: no listener
\* watches a variable twice, and an old value is one a variable can have.
\* (change_event_add, change_events_flush)
THEOREM TypeCorrect == Spec => []TypeOK
<1>1. IInv => TypeOK
  BY DEF IInv
<1> QED BY <1>1, SpecIInv, PTL

\* The variables and the listeners name each other, whatever is tracked,
\* untracked, unregistered, dropped or freed, in a flush or not.
\* (track_variable_changes, untrack_variable_changes, drop_node_data,
\* unregister_variable, change_events_flush)
THEOREM WatchersAndVariablesAgree == Spec => []WatchersAgree
<1>1. IInv => WatchersAgree
  BY DEF IInv
<1> QED BY <1>1, SpecIInv, PTL

\* The listeners that something was noted for in a batch are called in its
\* flush, once, but for those whose object is gone or whose method has too many
\* arguments; and a call tells of each variable the old value noted last and not
\* told, or the value it has.  (change_event_add, change_events_flush)
THEOREM ListenersHearOfChanges == Spec => ChangesAreTold
<1> DEFINE A == /\ FlushNext /\ cursor \in called' =>
                     /\ cursor \in heard \ called
                     /\ \A x \in last_call' : IsRight(x)
                /\ FlushEnds => \A i \in heard :
                     i \in called \cup passed \/ event_listener[i].listener = Nobody
<1>1. IInv => A
  BY FlushStep, EndStep
<1>2. IInv /\ [Game \/ Batch]_vars => [A]_vars
  BY <1>1
<1> HIDE DEF A
<1>3. Spec => [][A]_vars
  BY <1>2, SpecIInv, PTL DEF Spec
<1> QED BY <1>3 DEF ChangesAreTold, A

=============================================================================
