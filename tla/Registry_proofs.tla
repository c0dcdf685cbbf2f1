--------------------------- MODULE Registry_proofs ---------------------------
(***************************************************************************)
(* Proofs about Registry, for all nodes, controllers, peers and networks:  *)
(* ids name their nodes, nodes and controllers refer to each other, every  *)
(* peer is served by its own controller, and controllers are of the kind   *)
(* their network asks for.                                                 *)
(***************************************************************************)
EXTENDS Registry, FiniteSetTheorems, WellFoundedInduction, TLAPS

-----------------------------------------------------------------------------
(* The inductive invariant, as predicates of a scene: an action applies    *)
(* several operators, and each keeps what follows.                         *)

\* The lists have no node twice, and the controllers are listed twice.
Lists(s) ==
  /\ IsInjective(s.node_data)
  /\ IsInjective(s.node_data_controllers)
  /\ Listed(s) = Registered(s) \cap Controllers

\* LinksAreMutual, of a scene.
Mutual(s) ==
  \A n, c \in Nodes : s.data[n].controlled_by = c <=> n \in s.data[c].controlled_nodes
Linked(s) ==
  \A n \in Nodes :
    /\ s.data[n].controlled_by \in Listed(s) \cup {Nobody}
    /\ s.data[n].dependency_nodes \subseteq Registered(s) \ Controllers
    /\ s.data[n].controlled_nodes \subseteq Registered(s) \ Controllers
    /\ s.data[n].dependency_nodes_end \subseteq s.data[n].dependency_nodes
Owned(s) ==
  \A c \in Controllers :
    /\ c \in Listed(s) => s.character[c].has_scene_synchronizer
    /\ s.character[c].has_scene_synchronizer => c \in Listed(s) \cup s.skipped

\* IdsNameTheNodes, of a scene; there are no more ids than slots.
Slotted(s) == Len(s.organized_node_data) <= MaxIds + 1
Named(s) ==
  \A n \in Nodes, i \in 0 .. MaxIds :
    NodeWithId(s, i) = n <=> n \in Registered(s) /\ s.data[n].id = i
Numbered(s) ==
  s.generate_id =>
    /\ ~ s.renamed
    /\ \A n \in Registered(s) : s.data[n].id \in 0 .. Len(s.organized_node_data) - 1

\* What a controller sends to is known, and what the client plays is listed.
Known(s) ==
  /\ \A c \in Listed(s) : s.character[c].peers \subseteq DOMAIN s.peer_data
  /\ s.player \in Listed(s) \cup {Nobody}

\* All of it that does not depend on the network.
Sound(s) ==
  /\ s \in Scene /\ Lists(s)
  /\ Mutual(s) /\ Linked(s) /\ Owned(s)
  /\ Slotted(s) /\ (s.renamed \/ Named(s)) /\ Numbered(s)
  /\ Known(s)

\* The mode is the one of the network it was chosen for.
Modes(s) ==
  /\ s.in_tree => /\ s.synchronizer_type = Kind[s.peer_ptr]
                  /\ s.generate_id <=> Kind[s.peer_ptr] /= "CLIENT"
  /\ ~ s.in_tree => s.synchronizer_type = "NULL"

\* The scene is settled on network w.
SettledOn(s, w) == s.in_tree /\ s.peer_ptr = w

\* PeersAreServed, of a scene.
Served(s) ==
  \A p \in DOMAIN s.peer_data, c \in Listed(s) :
    LET peer == s.peer_data[p] IN
    IF Owner[c] = p
      THEN /\ NodeWithId(s, peer.controller_id) \in Listed(s)
           /\ Owner[NodeWithId(s, peer.controller_id)] = p
           /\ s.data[c].id = peer.controller_id => s.character[c].enabled = peer.enabled
      ELSE p \in s.character[c].peers <=> peer.enabled
ServedOn(s, w) ==
  SettledOn(s, w) /\ s.synchronizer_type = "SERVER" /\ ~ s.peer_dirty => Served(s)

\* ControllersFitTheMode, of the controllers C of a scene; only the owner of a
\* character plays it.
TypesOn(w) ==
  CASE Kind[w] = "SERVER" -> ServerTypes
    [] Kind[w] = "CLIENT" -> {"PLAYER", "DOLL"}
    [] OTHER -> {"NONETWORK"}
Fit(s, w, C) ==
  \A c \in C : LET type == s.character[c].controller_type IN
    /\ type \in TypesOn(w)
    /\ type = "PLAYER" <=> s.player = c
    /\ type = "PLAYER" => Owner[c] = Me[w]
FitOn(s, w) == SettledOn(s, w) => Fit(s, w, Listed(s))

Good(s, w) == Sound(s) /\ Modes(s) /\ ServedOn(s, w) /\ FitOn(s, w)

IInv == TypeOK /\ Good(scene, network)

-----------------------------------------------------------------------------
(* Induction over the naturals. *)

\* A set with 0, and with n + 1 when it has n, has every natural number.
LEMMA NatSetInduction ==
  ASSUME NEW S, 0 \in S, \A n \in Nat : n \in S => n + 1 \in S
  PROVE  Nat \subseteq S
<1> DEFINE T == Nat \ S
           R == OpToRel(<, Nat)
<1>1. IsWellFoundedOn(R, Nat)
  BY NatLessThanWellFounded
<1>2. SUFFICES ASSUME T # {} PROVE FALSE
  OBVIOUS
<1>3. T \subseteq Nat
  OBVIOUS
<1>4. \A x, y \in Nat : y < x => <<y, x>> \in R
  BY DEF OpToRel
<1> HIDE DEF T, R
<1>5. PICK x \in T : \A y \in T : ~ (<<y, x>> \in R)
  BY <1>1, <1>2, <1>3, WFMin
<1>6. x # 0 /\ x \in Nat
  BY <1>3 DEF T
<1>7. x - 1 \in Nat /\ x - 1 < x /\ (x - 1) + 1 = x
  BY <1>6
<1>8. x - 1 \notin T
  BY <1>4, <1>5, <1>6, <1>7
<1>9. x - 1 \in S
  BY <1>7, <1>8 DEF T
<1>10. x \in S
  BY <1>7, <1>9
<1> QED BY <1>10 DEF T

\* g has what the first steps of F make of x.
IsIteration(g, N, X, x, F) ==
  /\ g \in [0 .. N -> X]
  /\ g[0] = x /\ \A k \in 1 .. N : g[k] = F[k][g[k - 1]]

\* A function can be applied step after step.
LEMMA IterationExists ==
  ASSUME NEW N \in Nat, NEW X, NEW x \in X, NEW F \in [Nat -> [X -> X]]
  PROVE  \E g : IsIteration(g, N, X, x, F)
<1> DEFINE P(n, g) == g[0] = x /\ \A k \in 1 .. n : g[k] = F[k][g[k - 1]]
           S == {n \in Nat : \E g \in [0 .. n -> X] : P(n, g)}
<1>1. 0 \in S
  <2>1. [k \in 0 .. 0 |-> x] \in [0 .. 0 -> X] /\ P(0, [k \in 0 .. 0 |-> x])
    OBVIOUS
  <2> QED BY <2>1
<1>2. ASSUME NEW n \in Nat, n \in S PROVE n + 1 \in S
  <2>1. PICK g \in [0 .. n -> X] : P(n, g)
    BY <1>2
  <2> DEFINE h == [k \in 0 .. n + 1 |-> IF k = n + 1 THEN F[n + 1][g[n]] ELSE g[k]]
  <2>2. h \in [0 .. n + 1 -> X]
    <3>1. \A k \in 0 .. n + 1 : k = n + 1 \/ k \in 0 .. n
      OBVIOUS
    <3>2. n \in 0 .. n
      OBVIOUS
    <3> QED BY <3>1, <3>2
  <2>3. \A k \in 0 .. n : h[k] = g[k]
    OBVIOUS
  <2>4. h[n + 1] = F[n + 1][g[n]]
    OBVIOUS
  <2> HIDE DEF h
  <2>5. \A k \in 1 .. n + 1 : h[k] = F[k][h[k - 1]]
    <3> SUFFICES ASSUME NEW k \in 1 .. n + 1 PROVE h[k] = F[k][h[k - 1]]
      OBVIOUS
    <3>1. CASE k = n + 1
      <4>1. k - 1 = n /\ n \in 0 .. n
        BY <3>1
      <4> QED BY <2>3, <2>4, <3>1, <4>1
    <3>2. CASE k /= n + 1
      <4>1. k \in 1 .. n /\ k \in 0 .. n /\ k - 1 \in 0 .. n
        BY <3>2
      <4>2. h[k] = g[k] /\ h[k - 1] = g[k - 1]
        BY <2>3, <4>1
      <4> QED BY <2>1, <4>1, <4>2
    <3> QED BY <3>1, <3>2
  <2>6. h[0] = x
    <3>1. 0 \in 0 .. n
      OBVIOUS
    <3> QED BY <2>1, <2>3, <3>1
  <2>7. P(n + 1, h) /\ n + 1 \in Nat
    BY <2>5, <2>6
  <2> QED BY <2>2, <2>7
<1> HIDE DEF S
<1>3. Nat \subseteq S
  BY <1>1, <1>2, NatSetInduction
<1>4. PICK g \in [0 .. N -> X] : P(N, g)
  BY <1>3 DEF S
<1>5. IsIteration(g, N, X, x, F)
  BY <1>4 DEF IsIteration
<1> QED BY <1>5

-----------------------------------------------------------------------------
(* Sequences without repetition. *)

\* A set of positions that is not empty has a first one.
LEMMA FirstOfPositions ==
  ASSUME NEW N \in Nat, NEW I \in SUBSET (1 .. N), I /= {}
  PROVE  Min(I) \in I /\ \A k \in I : Min(I) <= k
<1> DEFINE R == OpToRel(<, Nat)
<1>1. IsWellFoundedOn(R, Nat)
  BY NatLessThanWellFounded
<1>2. I \subseteq Nat
  OBVIOUS
<1>3. \A x, y \in Nat : y < x => <<y, x>> \in R
  BY DEF OpToRel
<1> HIDE DEF R
<1>4. PICK x \in I : \A y \in I : ~ (<<y, x>> \in R)
  BY <1>1, <1>2, WFMin
<1>5. ASSUME NEW y \in I PROVE x <= y
  <2>1. x \in Nat /\ y \in Nat
    BY <1>2
  <2>2. ~ y < x
    BY <1>3, <1>4, <2>1
  <2> QED BY <2>1, <2>2
<1> QED BY <1>5 DEF Min

\* RemoveAt closes the gap.
LEMMA RemoveAtElements ==
  ASSUME NEW S, NEW w \in Seq(S), NEW p \in 1 .. Len(w)
  PROVE  /\ RemoveAt(w, p) \in Seq(S)
         /\ Len(RemoveAt(w, p)) = Len(w) - 1
         /\ \A k \in 1 .. Len(w) - 1 :
              RemoveAt(w, p)[k] = IF k < p THEN w[k] ELSE w[k + 1]
<1> DEFINE n == Len(w)
           a == SubSeq(w, 1, p - 1)
           b == SubSeq(w, p + 1, n)
<1>1. n \in Nat /\ p \in Nat /\ 1 <= p /\ p <= n
  OBVIOUS
<1>2. /\ a \in Seq(S) /\ Len(a) = p - 1
      /\ \A k \in 1 .. p - 1 : a[k] = w[k]
  OBVIOUS
<1>3. b \in Seq(S) /\ Len(b) = n - p
  OBVIOUS
<1>4. ASSUME NEW k \in 1 .. n - p PROVE b[k] = w[p + k]
  <2>1. (p + 1) + k - 1 = p + k
    BY <1>1
  <2> QED BY <2>1
<1>5. RemoveAt(w, p) = a \o b
  BY DEF RemoveAt
<1> HIDE DEF n, a, b
<1>6. /\ a \o b \in Seq(S) /\ Len(a \o b) = Len(a) + Len(b)
      /\ \A k \in 1 .. Len(a) + Len(b) :
           (a \o b)[k] = IF k <= Len(a) THEN a[k] ELSE b[k - Len(a)]
  BY <1>2, <1>3
<1>7. ASSUME NEW k \in 1 .. n - 1
      PROVE  (a \o b)[k] = IF k < p THEN w[k] ELSE w[k + 1]
  <2>1. k \in 1 .. Len(a) + Len(b)
    BY <1>1, <1>2, <1>3
  <2>2. (a \o b)[k] = IF k <= p - 1 THEN a[k] ELSE b[k - (p - 1)]
    BY <1>2, <1>6, <2>1
  <2>3. CASE k < p
    <3>1. k <= p - 1 /\ k \in 1 .. p - 1
      BY <1>1, <2>3
    <3> QED BY <1>2, <2>2, <2>3, <3>1
  <2>4. CASE ~ k < p
    <3>1. ~ k <= p - 1 /\ k - (p - 1) \in 1 .. n - p /\ p + (k - (p - 1)) = k + 1
      BY <1>1, <2>4
    <3>2. b[k - (p - 1)] = w[k + 1]
      BY <1>4, <3>1
    <3> QED BY <2>2, <2>4, <3>1, <3>2
  <2> QED BY <2>3, <2>4
<1>8. Len(a \o b) = n - 1
  BY <1>1, <1>2, <1>3, <1>6
<1> QED BY <1>5, <1>6, <1>7, <1>8 DEF n

\* The empty sequence has no element.
LEMMA EmptySequence ==
  /\ ToSet(<<>>) = {} /\ IsInjective(<<>>) /\ Len(<<>>) = 0
  /\ \A S : <<>> \in Seq(S)
<1>1. DOMAIN <<>> = {}
  OBVIOUS
<1>2. \A S : <<>> \in Seq(S)
  OBVIOUS
<1> QED BY <1>1, <1>2 DEF ToSet, IsInjective

\* An element that is not there yet is added at the end.
LEMMA AppendElements ==
  ASSUME NEW S, NEW w \in Seq(S), NEW e \in S
  PROVE  /\ Append(w, e) \in Seq(S) /\ Len(Append(w, e)) = Len(w) + 1
         /\ ToSet(Append(w, e)) = ToSet(w) \cup {e}
         /\ IsInjective(w) /\ e \notin ToSet(w) => IsInjective(Append(w, e))
<1>1. /\ Append(w, e) \in Seq(S) /\ Len(Append(w, e)) = Len(w) + 1
      /\ \A k \in 1 .. Len(w) : Append(w, e)[k] = w[k]
      /\ Append(w, e)[Len(w) + 1] = e
  OBVIOUS
<1>2. DOMAIN w = 1 .. Len(w) /\ DOMAIN Append(w, e) = 1 .. Len(w) + 1 /\ Len(w) \in Nat
  OBVIOUS
<1>3. \A k \in 1 .. Len(w) + 1 : k \in 1 .. Len(w) \/ k = Len(w) + 1
  BY <1>2
<1>4. \A k \in 1 .. Len(w) : k \in 1 .. Len(w) + 1
  BY <1>2
<1>5. ToSet(Append(w, e)) = ToSet(w) \cup {e}
  <2>1. Len(w) + 1 \in 1 .. Len(w) + 1
    BY <1>2
  <2> QED BY <1>1, <1>2, <1>3, <1>4, <2>1 DEF ToSet
<1>6. IsInjective(w) /\ e \notin ToSet(w) => IsInjective(Append(w, e))
  BY <1>1, <1>2, <1>3 DEF ToSet, IsInjective
<1> QED BY <1>1, <1>5, <1>6

\* erase takes out one element, and nothing else.
LEMMA RemoveFirstElements ==
  ASSUME NEW S, NEW w \in Seq(S), NEW e
  PROVE  /\ RemoveFirst(w, e) \in Seq(S)
         /\ IsInjective(w) => /\ IsInjective(RemoveFirst(w, e))
                              /\ ToSet(RemoveFirst(w, e)) = ToSet(w) \ {e}
<1>1. DOMAIN w = 1 .. Len(w) /\ Len(w) \in Nat
  OBVIOUS
<1>2. CASE ~ \E i \in 1 .. Len(w) : w[i] = e
  BY <1>1, <1>2 DEF RemoveFirst, ToSet
<1>3. CASE \E i \in 1 .. Len(w) : w[i] = e
  <2> DEFINE I == {i \in 1 .. Len(w) : w[i] = e}
             p == SelectInSeq(w, LAMBDA v : v = e)
             r == RemoveAt(w, p)
  <2>1. p = Min(I)
    BY <1>3 DEF SelectInSeq
  <2>2. Min(I) \in I
    BY <1>1, <1>3, FirstOfPositions
  <2>3. p \in 1 .. Len(w) /\ w[p] = e
    BY <2>1, <2>2
  <2>4. RemoveFirst(w, e) = r
    BY <1>3 DEF RemoveFirst
  <2> HIDE DEF p, I
  <2>5. /\ r \in Seq(S) /\ Len(r) = Len(w) - 1
        /\ \A k \in 1 .. Len(w) - 1 : r[k] = IF k < p THEN w[k] ELSE w[k + 1]
    BY <2>3, RemoveAtElements
  <2> HIDE DEF r
  <2>6. DOMAIN r = 1 .. Len(w) - 1
    BY <2>5
  <2>7. ASSUME IsInjective(w) PROVE IsInjective(r)
    <3> SUFFICES ASSUME NEW j \in 1 .. Len(w) - 1, NEW k \in 1 .. Len(w) - 1, r[j] = r[k]
                 PROVE  j = k
      BY <2>6 DEF IsInjective
    <3>1. j \in 1 .. Len(w) /\ k \in 1 .. Len(w) /\ j + 1 \in 1 .. Len(w) /\ k + 1 \in 1 .. Len(w)
      BY <1>1
    <3>2. \A x, y \in 1 .. Len(w) : w[x] = w[y] => x = y
      BY <1>1, <2>7 DEF IsInjective
    <3>3. r[j] = (IF j < p THEN w[j] ELSE w[j + 1]) /\ r[k] = IF k < p THEN w[k] ELSE w[k + 1]
      BY <2>5
    <3>4. (IF j < p THEN j ELSE j + 1) = IF k < p THEN k ELSE k + 1
      BY <3>1, <3>2, <3>3
    <3> QED BY <1>1, <2>3, <3>1, <3>4
  <2>8. ASSUME IsInjective(w) PROVE ToSet(r) = ToSet(w) \ {e}
    <3>1. \A x, y \in 1 .. Len(w) : w[x] = w[y] => x = y
      BY <1>1, <2>8 DEF IsInjective
    <3>2. ASSUME NEW k \in 1 .. Len(w) - 1 PROVE r[k] \in ToSet(w) \ {e}
      <4>1. k \in 1 .. Len(w) /\ k + 1 \in 1 .. Len(w)
        BY <1>1
      <4>2. r[k] = IF k < p THEN w[k] ELSE w[k + 1]
        BY <2>5
      <4>3. (k < p => k /= p) /\ (~ k < p => k + 1 /= p)
        BY <1>1, <2>3, <4>1
      <4>4. r[k] /= e
        BY <2>3, <3>1, <4>1, <4>2, <4>3
      <4> QED BY <1>1, <4>1, <4>2, <4>4 DEF ToSet
    <3>3. ASSUME NEW k \in 1 .. Len(w), w[k] /= e PROVE w[k] \in ToSet(r)
      <4>1. k /= p
        BY <2>3, <3>3
      <4>2. CASE k < p
        <5>1. k \in 1 .. Len(w) - 1
          BY <1>1, <2>3, <4>2
        <5> QED BY <2>5, <2>6, <4>2, <5>1 DEF ToSet
      <4>3. CASE k > p
        <5>1. k - 1 \in 1 .. Len(w) - 1 /\ ~ k - 1 < p /\ (k - 1) + 1 = k
          BY <1>1, <2>3, <4>3
        <5>2. r[k - 1] = w[k]
          BY <2>5, <5>1
        <5> QED BY <2>6, <5>1, <5>2 DEF ToSet
      <4> QED BY <1>1, <2>3, <4>1, <4>2, <4>3
    <3> QED BY <1>1, <2>6, <3>2, <3>3 DEF ToSet
  <2> QED BY <2>4, <2>5, <2>7, <2>8
<1> QED BY <1>2, <1>3

-----------------------------------------------------------------------------
(* Types of the operators, and what they leave alone. *)

SameMode(r, s) ==
  /\ r.in_tree = s.in_tree /\ r.synchronizer_type = s.synchronizer_type
  /\ r.peer_ptr = s.peer_ptr /\ r.generate_id = s.generate_id
SameLists(r, s) ==
  r.node_data = s.node_data /\ r.node_data_controllers = s.node_data_controllers
SameIds(r, s) ==
  r.organized_node_data = s.organized_node_data /\ r.renamed = s.renamed
SameServices(r, s) ==
  r.peer_data = s.peer_data /\ r.peer_dirty = s.peer_dirty /\ r.character = s.character
  /\ r.player = s.player

LEMMA SceneType ==
  ASSUME NEW s \in Scene
  PROVE  /\ s.in_tree \in BOOLEAN
         /\ s.synchronizer_type \in {"NULL", "NONETWORK", "CLIENT", "SERVER"}
         /\ s.peer_ptr \in Networks
         /\ s.generate_id \in BOOLEAN
         /\ s.node_data \in Seq(Nodes)
         /\ s.organized_node_data \in Seq(Nodes \cup {Nobody})
         /\ s.node_data_controllers \in Seq(Controllers)
         /\ s.data \in [Nodes -> NodeData]
         /\ s.character \in [Controllers -> Character]
         /\ s.peer_data \in UNION {[P -> PeerData] : P \in SUBSET Peers}
         /\ s.peer_dirty \in BOOLEAN
         /\ s.player \in Controllers \cup {Nobody}
         /\ s.skipped \subseteq Controllers
         /\ s.renamed \in BOOLEAN
BY DEF Scene

\* The lists are of nodes, and of controllers.
LEMMA ListedType ==
  ASSUME NEW s \in Scene
  PROVE  /\ Registered(s) \subseteq Nodes /\ Listed(s) \subseteq Controllers
         /\ Controllers \subseteq Nodes /\ Nobody \notin Nodes
<1>1. /\ s.node_data \in Seq(Nodes) /\ s.node_data_controllers \in Seq(Controllers)
  BY SceneType
<1> QED BY <1>1, NodesAssumption DEF Registered, Listed, ToSet

\* A node that an id names has a slot.
LEMMA SlotType ==
  ASSUME NEW s \in Scene
  PROVE  /\ Len(s.organized_node_data) \in Nat
         /\ \A i \in 0 .. Len(s.organized_node_data) - 1 :
              NodeWithId(s, i) = s.organized_node_data[i + 1]
         /\ \A i : NodeWithId(s, i) \in Nodes \cup {Nobody}
         /\ \A i : NodeWithId(s, i) \in Nodes => i \in 0 .. Len(s.organized_node_data) - 1
<1>1. s.organized_node_data \in Seq(Nodes \cup {Nobody})
  BY SceneType
<1>2. Nobody \notin Nodes
  BY NodesAssumption
<1> QED BY <1>1, <1>2 DEF NodeWithId

LEMMA ResetControllerFields ==
  ASSUME NEW s \in Scene, NEW c \in Controllers
  PROVE  LET r == ResetController(s, c)
             type == IF s.in_tree THEN TypeFor(s, c) ELSE "NULL"
         IN
         /\ r \in Scene
         /\ SameMode(r, s) /\ SameLists(r, s) /\ SameIds(r, s)
         /\ r.data = s.data /\ r.skipped = s.skipped /\ r.peer_data = s.peer_data
         /\ r.peer_dirty = (s.peer_dirty \/ s.in_tree)
         /\ r.player = PlayerAfterReset(s, c, type)
         /\ \A d \in Controllers : d /= c => r.character[d] = s.character[d]
         /\ r.character[c].has_scene_synchronizer = s.character[c].has_scene_synchronizer
         /\ r.character[c].controller_type = type
         /\ r.character[c].peers = {}
<1> DEFINE r == ResetController(s, c)
           type == IF s.in_tree THEN TypeFor(s, c) ELSE "NULL"
           char == [s.character EXCEPT ![c].controller_type = type,
                                       ![c].enabled = TRUE, ![c].peers = {}]
<1>1. type \in {"NULL", "NONETWORK", "PLAYER", "DOLL"} \cup ServerTypes
  BY DEF TypeFor, ServerTypes
<1>2. s.character \in [Controllers -> Character] /\ s.player \in Controllers \cup {Nobody}
  BY SceneType
<1>3. PlayerAfterReset(s, c, type) \in Controllers \cup {Nobody}
  BY <1>2 DEF PlayerAfterReset
<1>4. r = [s EXCEPT !.character = char, !.peer_dirty = @ \/ s.in_tree,
                    !.player = PlayerAfterReset(s, c, type)]
  BY DEF ResetController, Scene
<1>5. /\ char \in [Controllers -> Character]
      /\ \A d \in Controllers : d /= c => char[d] = s.character[d]
      /\ char[c].has_scene_synchronizer = s.character[c].has_scene_synchronizer
      /\ char[c].controller_type = type /\ char[c].peers = {}
  BY <1>1, <1>2 DEF Character
<1> HIDE DEF char, type
<1>6. r \in Scene
  BY <1>3, <1>4, <1>5 DEF Scene
<1>7. /\ SameMode(r, s) /\ SameLists(r, s) /\ SameIds(r, s)
      /\ r.data = s.data /\ r.skipped = s.skipped /\ r.peer_data = s.peer_data
      /\ r.peer_dirty = (s.peer_dirty \/ s.in_tree)
      /\ r.player = PlayerAfterReset(s, c, type)
      /\ r.character = char
  BY <1>4 DEF Scene, SameMode, SameLists, SameIds
<1> QED BY <1>5, <1>6, <1>7 DEF type

LEMMA AddNodeDataFields ==
  ASSUME NEW s \in Scene, NEW n \in Nodes, s.generate_id => Len(s.organized_node_data) <= MaxIds
  PROVE  LET r == AddNodeData(s, n)
             type == IF s.in_tree THEN TypeFor(s, n) ELSE "NULL"
         IN
         /\ r \in Scene
         /\ SameMode(r, s) /\ r.renamed = s.renamed
         /\ r.node_data = Append(s.node_data, n)
         /\ r.node_data_controllers = IF n \in Controllers
              THEN Append(s.node_data_controllers, n) ELSE s.node_data_controllers
         /\ r.organized_node_data = IF s.generate_id
              THEN Append(s.organized_node_data, n) ELSE s.organized_node_data
         /\ r.data = [s.data EXCEPT ![n] = [NewNodeData EXCEPT
              !.id = IF s.generate_id THEN Len(s.organized_node_data) ELSE NoId]]
         /\ r.skipped = s.skipped /\ r.peer_data = s.peer_data
         /\ r.peer_dirty = (s.peer_dirty \/ (n \in Controllers /\ s.in_tree))
         /\ r.player = IF n \in Controllers THEN PlayerAfterReset(s, n, type) ELSE s.player
         /\ \A d \in Controllers : d /= n => r.character[d] = s.character[d]
         /\ n \in Controllers =>
              /\ r.character[n].has_scene_synchronizer = s.character[n].has_scene_synchronizer
              /\ r.character[n].controller_type = type
              /\ r.character[n].peers = {}
<1> DEFINE r == AddNodeData(s, n)
           links == [s.data EXCEPT ![n] = [NewNodeData EXCEPT
             !.id = IF s.generate_id THEN Len(s.organized_node_data) ELSE NoId]]
           nodes == Append(s.node_data, n)
           slots == IF s.generate_id
                      THEN Append(s.organized_node_data, n) ELSE s.organized_node_data
           list == Append(s.node_data_controllers, n)
           added == [s EXCEPT !.node_data = nodes, !.data = links,
                              !.organized_node_data = slots]
           listed == [added EXCEPT !.node_data_controllers = list]
<1>1. /\ s.node_data \in Seq(Nodes) /\ s.organized_node_data \in Seq(Nodes \cup {Nobody})
      /\ s.node_data_controllers \in Seq(Controllers) /\ s.data \in [Nodes -> NodeData]
      /\ s.generate_id \in BOOLEAN
  BY SceneType
<1>2. links \in [Nodes -> NodeData]
  <2>1. (IF s.generate_id THEN Len(s.organized_node_data) ELSE NoId) \in 0 .. MaxIds \cup {NoId}
    BY <1>1, RegistryBoundsAssumption
  <2> QED BY <1>1, <2>1 DEF NewNodeData, NodeData
<1>3. r = IF n \in Controllers THEN ResetController(listed, n) ELSE added
  BY DEF AddNodeData, Scene
<1>types. /\ nodes \in Seq(Nodes) /\ slots \in Seq(Nodes \cup {Nobody})
          /\ n \in Controllers => list \in Seq(Controllers)
  BY <1>1
<1> HIDE DEF links, nodes, slots, list
<1>4. added \in Scene
  BY <1>2, <1>types DEF Scene
<1>5. n \in Controllers => listed \in Scene
  BY <1>4, <1>types DEF Scene
<1>6. \A t \in {added, listed} :
        /\ SameMode(t, s) /\ t.renamed = s.renamed
        /\ t.node_data = nodes /\ t.organized_node_data = slots /\ t.data = links
        /\ t.skipped = s.skipped /\ SameServices(t, s)
  BY DEF Scene, SameMode, SameServices
<1>7. /\ added.node_data_controllers = s.node_data_controllers
      /\ listed.node_data_controllers = list
  BY DEF Scene
<1> HIDE DEF added, listed
<1>8. CASE n \notin Controllers
  <2>1. s.peer_dirty \in BOOLEAN
    BY SceneType
  <2>2. r = added
    BY <1>3, <1>8
  <2> QED BY <1>4, <1>6, <1>7, <1>8, <2>1, <2>2 DEF SameServices, SameMode, links, nodes, slots
<1>9. CASE n \in Controllers
  <2>1. /\ r \in Scene
        /\ SameMode(r, listed) /\ SameLists(r, listed) /\ SameIds(r, listed)
        /\ r.data = listed.data /\ r.skipped = listed.skipped
        /\ r.peer_data = listed.peer_data
        /\ r.peer_dirty = (listed.peer_dirty \/ listed.in_tree)
        /\ \A d \in Controllers : d /= n => r.character[d] = listed.character[d]
        /\ r.character[n].has_scene_synchronizer = listed.character[n].has_scene_synchronizer
        /\ r.character[n].peers = {}
    BY <1>3, <1>5, <1>9, ResetControllerFields
  <2>2. LET type == IF listed.in_tree THEN TypeFor(listed, n) ELSE "NULL"
        IN /\ r.player = PlayerAfterReset(listed, n, type)
           /\ r.character[n].controller_type = type
    BY <1>3, <1>5, <1>9, ResetControllerFields
  <2>3. SameServices(listed, s) /\ SameMode(listed, s)
    BY <1>6
  <2>4. TypeFor(listed, n) = TypeFor(s, n)
    BY <2>3 DEF TypeFor, SameServices
  <2>5. \A type : PlayerAfterReset(listed, n, type) = PlayerAfterReset(s, n, type)
    BY <2>3 DEF PlayerAfterReset, SameServices, SameMode
  <2>6. LET type == IF s.in_tree THEN TypeFor(s, n) ELSE "NULL"
        IN /\ r.player = PlayerAfterReset(s, n, type)
           /\ r.character[n].controller_type = type
    BY <2>2, <2>3, <2>4, <2>5 DEF SameMode
  <2> QED BY <1>6, <1>7, <1>9, <2>1, <2>3, <2>6
             DEF SameServices, SameMode, SameLists, SameIds, links, nodes, slots, list
<1> QED BY <1>8, <1>9

LEMMA ReleaseFields ==
  ASSUME NEW s \in Scene, NEW n \in Nodes
  PROVE  LET r == Release(s, n) IN
         /\ r \in Scene
         /\ SameMode(r, s) /\ SameLists(r, s) /\ SameIds(r, s) /\ SameServices(r, s)
         /\ r.skipped = s.skipped
         /\ \A m \in Nodes :
              /\ r.data[m].id = s.data[m].id
              /\ r.data[m].dependency_nodes = s.data[m].dependency_nodes
              /\ r.data[m].dependency_nodes_end = s.data[m].dependency_nodes_end
              /\ r.data[m].controlled_by = IF m = n THEN Nobody ELSE s.data[m].controlled_by
              /\ r.data[m].controlled_nodes = IF m = s.data[n].controlled_by
                   THEN s.data[m].controlled_nodes \ {n} ELSE s.data[m].controlled_nodes
<1> DEFINE r == Release(s, n)
           c == s.data[n].controlled_by
           links == [s.data EXCEPT ![c].controlled_nodes = @ \ {n}, ![n].controlled_by = Nobody]
<1>1. s.data \in [Nodes -> NodeData] /\ Nobody \notin Nodes
  BY SceneType, NodesAssumption
<1>2. c \in Nodes \cup {Nobody}
  BY <1>1 DEF NodeData
<1>3. CASE c = Nobody
  BY <1>1, <1>3 DEF Release, SameMode, SameLists, SameIds, SameServices
<1>4. CASE c \in Nodes
  <2>1. r = [s EXCEPT !.data = links]
    BY <1>1, <1>4 DEF Release, Scene
  <2>2. links \in [Nodes -> NodeData]
    BY <1>1, <1>4 DEF NodeData
  <2>3. \A m \in Nodes :
          /\ links[m].id = s.data[m].id
          /\ links[m].dependency_nodes = s.data[m].dependency_nodes
          /\ links[m].dependency_nodes_end = s.data[m].dependency_nodes_end
          /\ links[m].controlled_by = IF m = n THEN Nobody ELSE s.data[m].controlled_by
          /\ links[m].controlled_nodes = IF m = c
               THEN s.data[m].controlled_nodes \ {n} ELSE s.data[m].controlled_nodes
    <3> DEFINE left == [s.data EXCEPT ![c].controlled_nodes = @ \ {n}]
    <3>1. left \in [Nodes -> NodeData]
      BY <1>1, <1>4 DEF NodeData
    <3>2. \A m \in Nodes :
            /\ left[m].id = s.data[m].id
            /\ left[m].dependency_nodes = s.data[m].dependency_nodes
            /\ left[m].dependency_nodes_end = s.data[m].dependency_nodes_end
            /\ left[m].controlled_by = s.data[m].controlled_by
            /\ left[m].controlled_nodes = IF m = c
                 THEN s.data[m].controlled_nodes \ {n} ELSE s.data[m].controlled_nodes
      BY <1>1, <1>4 DEF NodeData
    <3>3. links = [left EXCEPT ![n].controlled_by = Nobody]
      OBVIOUS
    <3> HIDE DEF left, links
    <3>4. \A m \in Nodes :
            /\ links[m].id = left[m].id
            /\ links[m].dependency_nodes = left[m].dependency_nodes
            /\ links[m].dependency_nodes_end = left[m].dependency_nodes_end
            /\ links[m].controlled_by = IF m = n THEN Nobody ELSE left[m].controlled_by
            /\ links[m].controlled_nodes = left[m].controlled_nodes
      BY <3>1, <3>3 DEF NodeData
    <3> QED BY <3>2, <3>4
  <2> HIDE DEF links
  <2>4. r \in Scene
    BY <2>1, <2>2 DEF Scene
  <2>5. /\ SameMode(r, s) /\ SameLists(r, s) /\ SameIds(r, s) /\ SameServices(r, s)
        /\ r.skipped = s.skipped /\ r.data = links
    BY <2>1 DEF Scene, SameMode, SameLists, SameIds, SameServices
  <2> QED BY <2>3, <2>4, <2>5
<1> QED BY <1>2, <1>3, <1>4

LEMMA VacatedSlots ==
  ASSUME NEW w \in Seq(Nodes \cup {Nobody}), NEW i
  PROVE  /\ Vacated(w, i) \in Seq(Nodes \cup {Nobody})
         /\ Len(Vacated(w, i)) = Len(w)
         /\ \A k \in 1 .. Len(w) :
              Vacated(w, i)[k] = IF k - 1 = i THEN Nobody ELSE w[k]
<1>1. CASE i \in 0 .. Len(w) - 1
  <2>1. i \in Int /\ i + 1 \in 1 .. Len(w) /\ \A k \in 1 .. Len(w) : k - 1 = i <=> k = i + 1
    BY <1>1
  <2>2. Vacated(w, i) = [w EXCEPT ![i + 1] = Nobody]
    BY <1>1 DEF Vacated
  <2> QED BY <2>1, <2>2
<1>2. CASE i \notin 0 .. Len(w) - 1
  <2>1. Vacated(w, i) = w
    BY <1>2 DEF Vacated
  <2>2. \A k \in 1 .. Len(w) : k - 1 /= i
    BY <1>2
  <2> QED BY <2>1, <2>2
<1> QED BY <1>1, <1>2

\* What is left of s when n is dropped.
DropShape(r, s, n) ==
  /\ r \in Scene
  /\ SameMode(r, s) /\ r.renamed = s.renamed
  /\ r.node_data = RemoveFirst(s.node_data, n)
  /\ r.node_data_controllers = IF n \in Controllers
       THEN RemoveFirst(s.node_data_controllers, n) ELSE s.node_data_controllers
  /\ r.organized_node_data = Vacated(s.organized_node_data, s.data[n].id)
  /\ r.skipped = s.skipped /\ r.peer_data = s.peer_data
  /\ r.peer_dirty = (s.peer_dirty \/ n \in Controllers)
  /\ r.player = IF s.player = n THEN Nobody ELSE s.player
  /\ \A d \in Controllers : d /= n => r.character[d] = s.character[d]
  /\ n \in Controllers => ~ r.character[n].has_scene_synchronizer
  /\ r.data[n] = NewNodeData
  /\ \A m \in Nodes : m /= n =>
       /\ r.data[m].id = s.data[m].id
       /\ r.data[m].dependency_nodes = s.data[m].dependency_nodes \ {n}
       /\ r.data[m].dependency_nodes_end = s.data[m].dependency_nodes_end \ {n}
       /\ r.data[m].controlled_by = IF m \in s.data[n].controlled_nodes
            THEN Nobody ELSE s.data[m].controlled_by
       /\ r.data[m].controlled_nodes = IF m = s.data[n].controlled_by
            THEN s.data[m].controlled_nodes \ {n} ELSE s.data[m].controlled_nodes

LEMMA DropFields ==
  ASSUME NEW s \in Scene, NEW n \in Nodes
  PROVE  DropShape(Drop(s, n), s, n)
<1> DEFINE t == Release(s, n)
           r == Drop(s, n)
           links == WithoutNode(t, n)
           player == IF s.player = n THEN Nobody ELSE s.player
           nodes == RemoveFirst(s.node_data, n)
           slots == Vacated(s.organized_node_data, s.data[n].id)
           list == RemoveFirst(s.node_data_controllers, n)
           alone == [t EXCEPT !.player = player, !.data = links, !.node_data = nodes,
                              !.organized_node_data = slots]
           char == [s.character EXCEPT ![n] = Idle(s.character[n], FALSE)]
<1>1. /\ t \in Scene
      /\ SameMode(t, s) /\ SameLists(t, s) /\ SameIds(t, s) /\ SameServices(t, s)
      /\ t.skipped = s.skipped
  BY ReleaseFields
<1>2. \A m \in Nodes :
         /\ t.data[m].id = s.data[m].id
         /\ t.data[m].dependency_nodes = s.data[m].dependency_nodes
         /\ t.data[m].dependency_nodes_end = s.data[m].dependency_nodes_end
         /\ t.data[m].controlled_by = IF m = n THEN Nobody ELSE s.data[m].controlled_by
         /\ t.data[m].controlled_nodes = IF m = s.data[n].controlled_by
              THEN s.data[m].controlled_nodes \ {n} ELSE s.data[m].controlled_nodes
  BY ReleaseFields
<1>3. /\ s.node_data \in Seq(Nodes) /\ s.organized_node_data \in Seq(Nodes \cup {Nobody})
      /\ s.node_data_controllers \in Seq(Controllers) /\ s.data \in [Nodes -> NodeData]
      /\ s.player \in Controllers \cup {Nobody} /\ s.peer_dirty \in BOOLEAN
      /\ s.character \in [Controllers -> Character] /\ t.data \in [Nodes -> NodeData]
  BY <1>1, SceneType
<1>4. /\ nodes \in Seq(Nodes) /\ list \in Seq(Controllers)
  BY <1>3, RemoveFirstElements
<1>5. slots \in Seq(Nodes \cup {Nobody})
  BY <1>3, VacatedSlots
<1>6. links \in [Nodes -> NodeData]
  BY <1>3 DEF WithoutNode, NodeData, NewNodeData
<1>7. /\ links[n] = NewNodeData
      /\ \A m \in Nodes : m /= n =>
           /\ links[m].id = t.data[m].id
           /\ links[m].dependency_nodes = t.data[m].dependency_nodes \ {n}
           /\ links[m].dependency_nodes_end = t.data[m].dependency_nodes_end \ {n}
           /\ links[m].controlled_by = IF m \in t.data[n].controlled_nodes
                THEN Nobody ELSE t.data[m].controlled_by
           /\ links[m].controlled_nodes = t.data[m].controlled_nodes
  <2>1. links[n] = NewNodeData
    BY DEF WithoutNode
  <2>2. ASSUME NEW m \in Nodes, m /= n
        PROVE  /\ links[m].id = t.data[m].id
               /\ links[m].dependency_nodes = t.data[m].dependency_nodes \ {n}
               /\ links[m].dependency_nodes_end = t.data[m].dependency_nodes_end \ {n}
               /\ links[m].controlled_by = IF m \in t.data[n].controlled_nodes
                    THEN Nobody ELSE t.data[m].controlled_by
               /\ links[m].controlled_nodes = t.data[m].controlled_nodes
    <3>1. links[m] = [t.data[m] EXCEPT
            !.controlled_by = IF m \in t.data[n].controlled_nodes THEN Nobody ELSE @,
            !.dependency_nodes = @ \ {n},
            !.dependency_nodes_end = @ \ {n}]
      BY <2>2 DEF WithoutNode
    <3>2. t.data[m] \in NodeData
      BY <1>3
    <3> HIDE DEF links, t
    <3> QED BY <3>1, <3>2 DEF NodeData
  <2> QED BY <2>1, <2>2
<1>8. \A m \in Nodes : m /= n =>
        (m \in t.data[n].controlled_nodes <=> m \in s.data[n].controlled_nodes)
  BY <1>2
<1>9. /\ n \in Controllers => char \in [Controllers -> Character]
      /\ \A d \in Controllers : d /= n => char[d] = s.character[d]
      /\ n \in Controllers => ~ char[n].has_scene_synchronizer
  BY <1>3 DEF Idle, Character
<1>10. player \in Controllers \cup {Nobody}
  BY <1>3
<1>11. r = IF n \in Controllers
             THEN [alone EXCEPT !.character = char, !.peer_dirty = TRUE,
                                !.node_data_controllers = list]
             ELSE alone
  BY <1>1 DEF Drop, Scene, SameLists, SameIds, SameServices
<1> HIDE DEF t, r, links, player, nodes, slots, list, char
<1>12. alone \in Scene
  BY <1>1, <1>4, <1>5, <1>6, <1>10 DEF Scene
<1>13. r \in Scene
  BY <1>4, <1>9, <1>11, <1>12 DEF Scene
<1>14. /\ r.player = player /\ r.data = links /\ r.node_data = nodes
       /\ r.organized_node_data = slots
       /\ SameMode(r, t) /\ r.renamed = t.renamed /\ r.skipped = t.skipped
       /\ r.peer_data = t.peer_data
       /\ r.peer_dirty = (t.peer_dirty \/ n \in Controllers)
       /\ r.node_data_controllers = IF n \in Controllers THEN list ELSE t.node_data_controllers
       /\ r.character = IF n \in Controllers THEN char ELSE t.character
  <2>1. t.peer_dirty \in BOOLEAN
    BY <1>1, <1>3 DEF SameServices
  <2>2. CASE n \in Controllers
    BY <1>1, <1>11, <2>2 DEF Scene, SameMode
  <2>3. CASE n \notin Controllers
    BY <1>1, <1>11, <2>1, <2>3 DEF Scene, SameMode
  <2> QED BY <2>2, <2>3
<1>15. /\ r \in Scene /\ SameMode(r, s) /\ r.renamed = s.renamed
       /\ r.skipped = s.skipped /\ r.peer_data = s.peer_data
       /\ r.peer_dirty = (s.peer_dirty \/ n \in Controllers)
       /\ r.node_data_controllers = IF n \in Controllers THEN list ELSE s.node_data_controllers
       /\ r.character = IF n \in Controllers THEN char ELSE s.character
  BY <1>1, <1>13, <1>14 DEF SameMode, SameLists, SameIds, SameServices
<1>16. \A m \in Nodes : m /= n =>
         /\ links[m].id = s.data[m].id
         /\ links[m].dependency_nodes = s.data[m].dependency_nodes \ {n}
         /\ links[m].dependency_nodes_end = s.data[m].dependency_nodes_end \ {n}
         /\ links[m].controlled_by = IF m \in s.data[n].controlled_nodes
              THEN Nobody ELSE s.data[m].controlled_by
         /\ links[m].controlled_nodes = IF m = s.data[n].controlled_by
              THEN s.data[m].controlled_nodes \ {n} ELSE s.data[m].controlled_nodes
  BY <1>2, <1>7, <1>8
<1>17. \A d \in Controllers : d /= n => r.character[d] = s.character[d]
  BY <1>9, <1>15
<1> QED BY <1>7, <1>9, <1>14, <1>15, <1>16, <1>17 DEF DropShape, r, links, player, nodes, slots, list

\* register_node leaves the scene alone, or adds the node.
IsNew(s, n) ==
  n \notin Registered(s) /\ (n \in Controllers => ~ s.character[n].has_scene_synchronizer)

LEMMA RegisterFields ==
  ASSUME NEW s \in Scene, NEW n \in Nodes, s.generate_id => Len(s.organized_node_data) <= MaxIds
  PROVE  LET r == Register(s, n)
             type == IF s.in_tree THEN TypeFor(s, n) ELSE "NULL"
         IN
         /\ r \in Scene
         /\ ~ IsNew(s, n) => r = s
         /\ IsNew(s, n) =>
              /\ SameMode(r, s) /\ r.renamed = s.renamed
              /\ r.node_data = Append(s.node_data, n)
              /\ r.node_data_controllers = IF n \in Controllers
                   THEN Append(s.node_data_controllers, n) ELSE s.node_data_controllers
              /\ r.organized_node_data = IF s.generate_id
                   THEN Append(s.organized_node_data, n) ELSE s.organized_node_data
              /\ r.data = [s.data EXCEPT ![n] = [NewNodeData EXCEPT
                   !.id = IF s.generate_id THEN Len(s.organized_node_data) ELSE NoId]]
              /\ r.skipped = s.skipped /\ r.peer_data = s.peer_data
              /\ r.peer_dirty = (s.peer_dirty \/ n \in Controllers)
              /\ r.player = IF n \in Controllers THEN PlayerAfterReset(s, n, type) ELSE s.player
              /\ \A d \in Controllers : d /= n => r.character[d] = s.character[d]
              /\ n \in Controllers =>
                   /\ r.character[n].has_scene_synchronizer
                   /\ r.character[n].controller_type = type
                   /\ r.character[n].peers = {}
<1> DEFINE r == Register(s, n)
           char == [s.character EXCEPT ![n].has_scene_synchronizer = TRUE]
           t == [s EXCEPT !.character = char, !.peer_dirty = TRUE]
<1>0. s.peer_dirty \in BOOLEAN /\ s.character \in [Controllers -> Character]
  BY SceneType
<1>1. ASSUME ~ IsNew(s, n) PROVE r = s
  BY <1>1 DEF Register, IsNew
<1>2. ASSUME IsNew(s, n), n \notin Controllers PROVE r = AddNodeData(s, n)
  BY <1>2 DEF Register, IsNew
<1>3. ASSUME IsNew(s, n), n \in Controllers PROVE r = AddNodeData(t, n)
  BY <1>3 DEF Register, IsNew, Scene
<1> HIDE DEF r
<1>4. CASE ~ IsNew(s, n)
  BY <1>1, <1>4 DEF r
<1>5. CASE IsNew(s, n) /\ n \notin Controllers
  <2> HIDE DEF t, char
  <2>1. r = AddNodeData(s, n)
    BY <1>2, <1>5
  <2> QED BY <1>0, <1>5, <2>1, AddNodeDataFields DEF r
<1>6. CASE IsNew(s, n) /\ n \in Controllers
  <2>1. r = AddNodeData(t, n)
    BY <1>3, <1>6
  <2>2. /\ char \in [Controllers -> Character]
        /\ char[n].has_scene_synchronizer
        /\ char[n].server_controlled = s.character[n].server_controlled
        /\ \A d \in Controllers : d /= n => char[d] = s.character[d]
    BY <1>0, <1>6 DEF Character
  <2> HIDE DEF char
  <2>3. t \in Scene
    BY <2>2 DEF Scene
  <2>4. /\ SameMode(t, s) /\ SameLists(t, s) /\ SameIds(t, s) /\ t.data = s.data
        /\ t.skipped = s.skipped /\ t.peer_data = s.peer_data /\ t.player = s.player
        /\ t.peer_dirty = TRUE /\ t.character = char
    BY DEF Scene, SameMode, SameLists, SameIds
  <2>5. TypeFor(t, n) = TypeFor(s, n)
    BY <2>2, <2>4 DEF TypeFor
  <2>6. \A type : PlayerAfterReset(t, n, type) = PlayerAfterReset(s, n, type)
    BY <2>4 DEF PlayerAfterReset, SameMode
  <2> HIDE DEF t
  <2> DEFINE type == IF s.in_tree THEN TypeFor(s, n) ELSE "NULL"
  <2>7. t.generate_id => Len(t.organized_node_data) <= MaxIds
    BY <2>4 DEF SameMode, SameIds
  <2>8. type = IF t.in_tree THEN TypeFor(t, n) ELSE "NULL"
    BY <2>4, <2>5 DEF SameMode
  <2>9. /\ r \in Scene
        /\ SameMode(r, t) /\ r.renamed = t.renamed
        /\ r.node_data = Append(t.node_data, n)
        /\ r.node_data_controllers = Append(t.node_data_controllers, n)
        /\ r.organized_node_data = IF t.generate_id
             THEN Append(t.organized_node_data, n) ELSE t.organized_node_data
        /\ r.data = [t.data EXCEPT ![n] = [NewNodeData EXCEPT
             !.id = IF t.generate_id THEN Len(t.organized_node_data) ELSE NoId]]
        /\ r.skipped = t.skipped /\ r.peer_data = t.peer_data
        /\ r.peer_dirty = (t.peer_dirty \/ t.in_tree)
        /\ r.player = PlayerAfterReset(t, n, type)
        /\ \A d \in Controllers : d /= n => r.character[d] = t.character[d]
        /\ r.character[n].has_scene_synchronizer = t.character[n].has_scene_synchronizer
        /\ r.character[n].controller_type = type
        /\ r.character[n].peers = {}
    <3> HIDE DEF type
    <3> QED BY <1>6, <2>1, <2>3, <2>7, <2>8, AddNodeDataFields
  <2>10. r.player = PlayerAfterReset(s, n, type) /\ r.character[n].controller_type = type
    BY <2>6, <2>9
  <2> HIDE DEF type
  <2>11. /\ SameMode(r, s) /\ r.renamed = s.renamed
         /\ r.node_data = Append(s.node_data, n)
         /\ r.node_data_controllers = Append(s.node_data_controllers, n)
         /\ r.organized_node_data = IF s.generate_id
              THEN Append(s.organized_node_data, n) ELSE s.organized_node_data
         /\ r.data = [s.data EXCEPT ![n] = [NewNodeData EXCEPT
              !.id = IF s.generate_id THEN Len(s.organized_node_data) ELSE NoId]]
         /\ r.skipped = s.skipped /\ r.peer_data = s.peer_data /\ r.peer_dirty = TRUE
    BY <2>4, <2>9 DEF SameMode, SameLists, SameIds
  <2>12. /\ \A d \in Controllers : d /= n => r.character[d] = s.character[d]
         /\ r.character[n].has_scene_synchronizer
         /\ r.character[n].peers = {}
    BY <2>2, <2>4, <2>9
  <2> QED BY <1>0, <1>6, <2>9, <2>10, <2>11, <2>12 DEF r, type
<1> QED BY <1>4, <1>5, <1>6

-----------------------------------------------------------------------------
(* Registering a node. *)

\* A node that is not registered has no links.
LEMMA NotRegisteredIsUnlinked ==
  ASSUME NEW s, Sound(s), NEW n \in Nodes, n \notin Registered(s)
  PROVE  /\ s.data[n].controlled_by = Nobody
         /\ \A m \in Nodes : n \notin s.data[m].controlled_nodes /\ s.data[m].controlled_by /= n
<1>1. s.data \in [Nodes -> NodeData] /\ Nobody \notin Nodes
  BY SceneType, NodesAssumption DEF Sound
<1>2. Listed(s) \subseteq Registered(s)
  BY DEF Sound, Lists
<1>3. Listed(s) \subseteq Nodes
  BY ListedType DEF Sound
<1>4. \A m \in Nodes : n \notin s.data[m].controlled_nodes /\ s.data[m].controlled_by /= n
  BY <1>1, <1>2 DEF Sound, Linked
<1>5. s.data[n].controlled_by = Nobody
  <2> SUFFICES ASSUME s.data[n].controlled_by \in Nodes PROVE FALSE
    BY <1>1, <1>3 DEF Sound, Linked
  <2> QED BY <1>4 DEF Sound, Mutual
<1> QED BY <1>4, <1>5

\* The nodes that are registered keep what they have.
LEMMA RegisterKeeps ==
  ASSUME NEW s, Sound(s), NEW n \in Nodes,
         s.generate_id => Len(s.organized_node_data) <= MaxIds
  PROVE  LET r == Register(s, n) IN
         /\ Registered(r) = Registered(s) \cup (IF IsNew(s, n) THEN {n} ELSE {})
         /\ Listed(r) = Listed(s) \cup (IF IsNew(s, n) /\ n \in Controllers THEN {n} ELSE {})
         /\ \A m \in Nodes : (IsNew(s, n) /\ m = n) \/ r.data[m] = s.data[m]
         /\ IsNew(s, n) =>
              /\ r.data[n].controlled_by = Nobody /\ r.data[n].controlled_nodes = {}
              /\ r.data[n].dependency_nodes = {} /\ r.data[n].dependency_nodes_end = {}
              /\ r.data[n].id = IF s.generate_id THEN Len(s.organized_node_data) ELSE NoId
         /\ \A c \in Controllers : c \notin Listed(r) => r.character[c] = s.character[c]
         /\ Len(r.organized_node_data) <= Len(s.organized_node_data) + 1
         /\ Lists(r)
<1> DEFINE r == Register(s, n)
<1>1. s \in Scene /\ Lists(s)
  BY DEF Sound
<1>2. /\ s.node_data \in Seq(Nodes) /\ s.node_data_controllers \in Seq(Controllers)
      /\ s.organized_node_data \in Seq(Nodes \cup {Nobody}) /\ s.data \in [Nodes -> NodeData]
  BY <1>1, SceneType
<1>3. CASE ~ IsNew(s, n)
  <2>1. r = s
    BY <1>1, <1>3, RegisterFields
  <2> HIDE DEF r
  <2> QED BY <1>1, <1>2, <1>3, <2>1 DEF r
<1>4. CASE IsNew(s, n)
  <2>1. /\ r.node_data = Append(s.node_data, n)
        /\ r.node_data_controllers = IF n \in Controllers
             THEN Append(s.node_data_controllers, n) ELSE s.node_data_controllers
        /\ r.organized_node_data = IF s.generate_id
             THEN Append(s.organized_node_data, n) ELSE s.organized_node_data
        /\ r.data = [s.data EXCEPT ![n] = [NewNodeData EXCEPT
             !.id = IF s.generate_id THEN Len(s.organized_node_data) ELSE NoId]]
        /\ \A d \in Controllers : d /= n => r.character[d] = s.character[d]
    BY <1>1, <1>4, RegisterFields
  <2> HIDE DEF r
  <2>2. Registered(r) = Registered(s) \cup {n}
    BY <1>2, <2>1, AppendElements DEF Registered
  <2>3. Listed(r) = Listed(s) \cup (IF n \in Controllers THEN {n} ELSE {})
    BY <1>2, <2>1, AppendElements DEF Listed
  <2>4. Len(r.organized_node_data) <= Len(s.organized_node_data) + 1
    BY <1>2, <2>1
  <2>5. n \notin Registered(s) /\ n \notin Listed(s)
    BY <1>1, <1>4 DEF IsNew, Lists
  <2>6. IsInjective(r.node_data)
    BY <1>1, <1>2, <2>1, <2>5, AppendElements DEF Lists, Registered
  <2>7. IsInjective(r.node_data_controllers)
    BY <1>1, <1>2, <2>1, <2>5, AppendElements DEF Lists, Listed
  <2>8. Lists(r)
    BY <1>1, <2>2, <2>3, <2>6, <2>7 DEF Lists
  <2>9. /\ \A m \in Nodes : m /= n => r.data[m] = s.data[m]
        /\ r.data[n].controlled_by = Nobody /\ r.data[n].controlled_nodes = {}
        /\ r.data[n].dependency_nodes = {} /\ r.data[n].dependency_nodes_end = {}
        /\ r.data[n].id = IF s.generate_id THEN Len(s.organized_node_data) ELSE NoId
    BY <1>2, <2>1 DEF NewNodeData
  <2> QED BY <1>4, <2>1, <2>2, <2>3, <2>4, <2>8, <2>9 DEF r
<1> QED BY <1>3, <1>4

LEMMA RegisterSound ==
  ASSUME NEW s, Sound(s), NEW n \in Nodes,
         s.generate_id => Len(s.organized_node_data) <= MaxIds
  PROVE  Sound(Register(s, n))
<1> DEFINE r == Register(s, n)
<1>1. s \in Scene /\ Lists(s)
  BY DEF Sound
<1>2. CASE ~ IsNew(s, n)
  BY <1>1, <1>2, RegisterFields
<1>3. CASE IsNew(s, n)
  <2>1. /\ r \in Scene
        /\ SameMode(r, s) /\ r.renamed = s.renamed
        /\ r.organized_node_data = IF s.generate_id
             THEN Append(s.organized_node_data, n) ELSE s.organized_node_data
        /\ r.skipped = s.skipped /\ r.peer_data = s.peer_data
        /\ \A d \in Controllers : d /= n => r.character[d] = s.character[d]
        /\ n \in Controllers =>
             r.character[n].has_scene_synchronizer /\ r.character[n].peers = {}
    BY <1>1, <1>3, RegisterFields
  <2>2. LET type == IF s.in_tree THEN TypeFor(s, n) ELSE "NULL"
        IN r.player = IF n \in Controllers THEN PlayerAfterReset(s, n, type) ELSE s.player
    BY <1>1, <1>3, RegisterFields
  <2>3. /\ Registered(r) = Registered(s) \cup {n}
        /\ Listed(r) = Listed(s) \cup (IF n \in Controllers THEN {n} ELSE {})
        /\ \A m \in Nodes : m /= n => r.data[m] = s.data[m]
        /\ r.data[n].controlled_by = Nobody /\ r.data[n].controlled_nodes = {}
        /\ r.data[n].dependency_nodes = {} /\ r.data[n].dependency_nodes_end = {}
        /\ r.data[n].id = IF s.generate_id THEN Len(s.organized_node_data) ELSE NoId
        /\ Lists(r)
    BY <1>3, RegisterKeeps
  <2> HIDE DEF r
  <2>4. /\ n \notin Registered(s) /\ s.data[n].controlled_by = Nobody
        /\ \A m \in Nodes : n \notin s.data[m].controlled_nodes /\ s.data[m].controlled_by /= n
    BY <1>3, NotRegisteredIsUnlinked DEF IsNew
  <2>5. Nobody \notin Nodes /\ Listed(s) \subseteq Nodes /\ n \notin Listed(s)
    BY <1>1, <2>4, ListedType DEF Lists
  <2>6. Mutual(r)
    BY <2>3, <2>4, <2>5 DEF Sound, Mutual
  <2>7. Linked(r)
    BY <2>3, <2>5 DEF Sound, Linked
  <2>8. Owned(r)
    BY <2>1, <2>3 DEF Sound, Owned
  <2>9. Known(r)
    <3>1. r.player \in Listed(s) \cup {n, Nobody}
      BY <2>2 DEF PlayerAfterReset, Sound, Known
    <3>2. r.player \in Listed(r) \cup {Nobody}
      BY <2>2, <2>3, <3>1 DEF Sound, Known
    <3>3. \A c \in Listed(r) : c \in Controllers
      BY <2>1, ListedType
    <3> QED BY <2>1, <2>3, <3>2, <3>3 DEF Sound, Known
  <2>10. /\ s.organized_node_data \in Seq(Nodes \cup {Nobody}) /\ s.generate_id \in BOOLEAN
         /\ MaxIds \in Nat
    BY <1>1, SceneType, RegistryBoundsAssumption
  <2>11. Slotted(r)
    BY <2>1, <2>10 DEF Sound, Slotted
  <2> DEFINE L == Len(s.organized_node_data)
  <2>12. L \in Nat
    BY <2>10
  <2>13. ASSUME s.generate_id
         PROVE  /\ Len(r.organized_node_data) = L + 1
                /\ \A i \in 0 .. MaxIds :
                     NodeWithId(r, i) = IF i = L THEN n ELSE NodeWithId(s, i)
                /\ L \in 0 .. MaxIds /\ NodeWithId(s, L) = Nobody
    <3>1. /\ r.organized_node_data = Append(s.organized_node_data, n)
          /\ Len(r.organized_node_data) = L + 1
          /\ \A k \in 1 .. L : r.organized_node_data[k] = s.organized_node_data[k]
          /\ r.organized_node_data[L + 1] = n
      BY <2>1, <2>10, <2>13
    <3> HIDE DEF L
    <3>2. ASSUME NEW i \in 0 .. MaxIds
          PROVE  NodeWithId(r, i) = IF i = L THEN n ELSE NodeWithId(s, i)
      <4>1. CASE i = L
        BY <2>10, <2>12, <3>1, <4>1 DEF NodeWithId
      <4>2. CASE i < L
        <5>1. i \in 0 .. L - 1 /\ i \in 0 .. (L + 1) - 1 /\ i + 1 \in 1 .. L /\ i /= L
          BY <2>10, <2>12, <4>2
        <5> QED BY <3>1, <5>1 DEF NodeWithId, L
      <4>3. CASE i > L
        <5>1. i \notin 0 .. L - 1 /\ i \notin 0 .. (L + 1) - 1 /\ i /= L
          BY <2>10, <2>12, <4>3
        <5> QED BY <3>1, <5>1 DEF NodeWithId, L
      <4> QED BY <2>10, <2>12, <4>1, <4>2, <4>3
    <3>3. L \in 0 .. MaxIds
      BY <2>10, <2>12, <2>13 DEF L
    <3>4. L \notin 0 .. L - 1
      BY <2>12
    <3> QED BY <3>1, <3>2, <3>3, <3>4 DEF NodeWithId, L
  <2>14. ASSUME ~ s.generate_id
         PROVE  \A i : NodeWithId(r, i) = NodeWithId(s, i)
    BY <2>1, <2>14 DEF NodeWithId
  <2>15. NoId \notin 0 .. MaxIds
    BY IdsAssumption
  <2> HIDE DEF L
  <2>16. r.renamed \/ Named(r)
    <3> SUFFICES ASSUME Named(s), NEW m \in Nodes, NEW i \in 0 .. MaxIds
                 PROVE  NodeWithId(r, i) = m <=> m \in Registered(r) /\ r.data[m].id = i
      BY <2>1 DEF Sound, Named
    <3>1. NodeWithId(s, i) = m <=> m \in Registered(s) /\ s.data[m].id = i
      BY DEF Named
    <3>2. CASE s.generate_id
      BY <2>3, <2>4, <2>5, <2>13, <3>1, <3>2 DEF L
    <3>3. CASE ~ s.generate_id
      BY <2>3, <2>4, <2>14, <2>15, <3>1, <3>3
    <3> QED BY <3>2, <3>3
  <2>17. Numbered(r)
    <3> SUFFICES ASSUME s.generate_id
                 PROVE  /\ ~ r.renamed
                        /\ \A m \in Registered(r) :
                             r.data[m].id \in 0 .. Len(r.organized_node_data) - 1
      BY <2>1 DEF Numbered, SameMode
    <3>1. ~ s.renamed /\ \A m \in Registered(s) : s.data[m].id \in 0 .. L - 1
      BY DEF Sound, Numbered, L
    <3>2. Len(r.organized_node_data) - 1 = L /\ L \in 0 .. L /\ \A i \in 0 .. L - 1 : i \in 0 .. L
      BY <2>12, <2>13
    <3>3. \A m \in Registered(s) : r.data[m] = s.data[m]
      BY <1>1, <2>3, <2>4, ListedType
    <3>4. r.data[n].id = L
      BY <2>3 DEF L
    <3> QED BY <2>1, <2>3, <3>1, <3>2, <3>3, <3>4
  <2> QED BY <2>1, <2>3, <2>6, <2>7, <2>8, <2>9, <2>11, <2>16, <2>17 DEF Sound, r
<1> QED BY <1>2, <1>3

\* A controller that is reset is of the kind of the network, and the client
\* plays it when it is its own.
LEMMA ResetFits ==
  ASSUME NEW s, NEW r, NEW C \in SUBSET Controllers, NEW c \in Controllers,
         network \in Networks, s.synchronizer_type = Kind[network],
         Fit(s, network, C), s.player \in C \cup {Nobody},
         r.player = PlayerAfterReset(s, c, TypeFor(s, c)),
         r.character[c].controller_type = TypeFor(s, c),
         \A d \in C : d /= c => r.character[d] = s.character[d]
  PROVE  Fit(r, network, C \cup {c}) /\ r.player \in C \cup {c, Nobody}
<1> DEFINE type == TypeFor(s, c)
           kept == IF s.player = c THEN Nobody ELSE s.player
<1>1. Kind[network] \in {"NONETWORK", "SERVER", "CLIENT"}
  BY NetworksAssumption
<1>2. /\ type \in TypesOn(network)
      /\ type = "PLAYER" => Kind[network] = "CLIENT" /\ Owner[c] = Me[network]
  BY <1>1 DEF TypeFor, TypesOn, ServerTypes
<1>3. Nobody \notin Controllers
  BY NodesAssumption
<1>4. r.player = IF s.synchronizer_type = "CLIENT" /\ type = "PLAYER" /\ kept = Nobody THEN c ELSE kept
  BY DEF PlayerAfterReset
<1> HIDE DEF type
<1>5. ASSUME type = "PLAYER" PROVE kept = Nobody
  <2> SUFFICES ASSUME kept /= Nobody PROVE FALSE
    OBVIOUS
  <2>1. s.player \in C /\ s.player /= c
    OBVIOUS
  <2>2. s.character[s.player].controller_type = "PLAYER" /\ Owner[s.player] = Me[network]
    BY <2>1 DEF Fit
  <2>3. s.player = c
    BY <1>2, <1>5, <2>1, <2>2, OnePlayerAssumption
  <2> QED BY <2>1, <2>3
<1>6. (type = "PLAYER") <=> r.player = c
  BY <1>2, <1>3, <1>4, <1>5
<1>7. \A d \in C : d /= c => ((r.player = d) <=> s.player = d)
  BY <1>3, <1>4, <1>5
<1>8. ASSUME NEW d \in C \cup {c}
      PROVE  LET t == r.character[d].controller_type IN
             /\ t \in TypesOn(network)
             /\ t = "PLAYER" <=> r.player = d
             /\ t = "PLAYER" => Owner[d] = Me[network]
  <2>1. CASE d = c
    BY <1>2, <1>6, <2>1 DEF type
  <2>2. CASE d \in C /\ d /= c
    BY <1>7, <2>2 DEF Fit
  <2> QED BY <2>1, <2>2
<1>9. Fit(r, network, C \cup {c})
  BY <1>8 DEF Fit
<1> QED BY <1>4, <1>9

\* A slot that holds a node holds it after a node is registered.
LEMMA RegisterKeepsSlots ==
  ASSUME NEW s \in Scene, NEW n \in Nodes,
         s.generate_id => Len(s.organized_node_data) <= MaxIds
  PROVE  \A i : NodeWithId(s, i) \in Nodes => NodeWithId(Register(s, n), i) = NodeWithId(s, i)
<1> DEFINE r == Register(s, n)
           L == Len(s.organized_node_data)
<1>1. s.organized_node_data \in Seq(Nodes \cup {Nobody}) /\ Nobody \notin Nodes
  BY SceneType, NodesAssumption
<1>2. r.organized_node_data \in {s.organized_node_data, Append(s.organized_node_data, n)}
  BY RegisterFields
<1> HIDE DEF r
<1> SUFFICES ASSUME NEW i, NodeWithId(s, i) \in Nodes PROVE NodeWithId(r, i) = NodeWithId(s, i)
  BY DEF r
<1>3. i \in 0 .. L - 1 /\ L \in Nat
  BY <1>1 DEF NodeWithId
<1>4. CASE r.organized_node_data = s.organized_node_data
  BY <1>4 DEF NodeWithId
<1>5. CASE r.organized_node_data = Append(s.organized_node_data, n)
  <2>1. Len(r.organized_node_data) = L + 1 /\ \A k \in 1 .. L : r.organized_node_data[k] = s.organized_node_data[k]
    BY <1>1, <1>5
  <2> HIDE DEF L
  <2>2. i \in 0 .. (L + 1) - 1 /\ i + 1 \in 1 .. L
    BY <1>3
  <2> QED BY <1>3, <2>1, <2>2 DEF NodeWithId, L
<1> QED BY <1>2, <1>4, <1>5

\* What has its peers served keeps them served when nothing they need moves.
LEMMA ServedIsKept ==
  ASSUME NEW s, NEW r, Served(s), Listed(s) \subseteq Nodes, Listed(r) \subseteq Listed(s),
         DOMAIN r.peer_data \subseteq DOMAIN s.peer_data,
         \A p \in DOMAIN r.peer_data : r.peer_data[p] = s.peer_data[p],
         \A i : NodeWithId(s, i) \in Listed(s) => NodeWithId(r, i) = NodeWithId(s, i),
         \A c \in Listed(s) : c \in Listed(r),
         \A c \in Listed(r) : /\ r.data[c].id = s.data[c].id
                              /\ r.character[c].enabled = s.character[c].enabled
                              /\ \A p \in DOMAIN r.peer_data :
                                   p \in r.character[c].peers <=> p \in s.character[c].peers
  PROVE  Served(r)
BY DEF Served

LEMMA RegisterGood ==
  ASSUME NEW s, network \in Networks, Good(s, network), NEW n \in Nodes,
         s.generate_id => Len(s.organized_node_data) <= MaxIds
  PROVE  Good(Register(s, n), network)
<1> DEFINE r == Register(s, n)
<1>1. s \in Scene /\ Sound(s)
  BY DEF Good, Sound
<1>2. CASE ~ IsNew(s, n)
  BY <1>1, <1>2, RegisterFields
<1>3. CASE IsNew(s, n)
  <2>1. Sound(r)
    BY <1>1, RegisterSound
  <2>2. /\ r \in Scene
        /\ SameMode(r, s)
        /\ r.peer_data = s.peer_data
        /\ r.peer_dirty = (s.peer_dirty \/ n \in Controllers)
        /\ \A d \in Controllers : d /= n => r.character[d] = s.character[d]
    BY <1>1, <1>3, RegisterFields
  <2>3. LET type == IF s.in_tree THEN TypeFor(s, n) ELSE "NULL"
        IN /\ r.player = IF n \in Controllers THEN PlayerAfterReset(s, n, type) ELSE s.player
           /\ n \in Controllers => r.character[n].controller_type = type
    BY <1>1, <1>3, RegisterFields
  <2>4. /\ Listed(r) = Listed(s) \cup (IF n \in Controllers THEN {n} ELSE {})
        /\ \A m \in Nodes : m /= n => r.data[m] = s.data[m]
    BY <1>1, <1>3, RegisterKeeps
  <2>5. \A i : NodeWithId(s, i) \in Nodes => NodeWithId(r, i) = NodeWithId(s, i)
    BY <1>1, RegisterKeepsSlots
  <2> HIDE DEF r
  <2>6. Listed(s) \subseteq Controllers /\ Listed(s) \subseteq Nodes /\ n \notin Listed(s)
    BY <1>1, <1>3, ListedType DEF IsNew, Sound, Lists
  <2>7. Modes(r)
    BY <2>2 DEF Good, Modes, SameMode
  <2>8. ServedOn(r, network)
    <3> SUFFICES ASSUME SettledOn(r, network), r.synchronizer_type = "SERVER", ~ r.peer_dirty
                 PROVE  Served(r)
      BY DEF ServedOn
    <3>1. Served(s) /\ n \notin Controllers
      BY <2>2 DEF Good, ServedOn, SettledOn, SameMode
    <3>2. Listed(r) = Listed(s) /\ \A c \in Listed(s) : r.character[c] = s.character[c] /\ r.data[c] = s.data[c]
      BY <2>2, <2>4, <2>6, <3>1
    <3> QED BY <2>2, <2>5, <2>6, <3>1, <3>2, ServedIsKept
  <2>9. FitOn(r, network)
    <3> SUFFICES ASSUME SettledOn(r, network) PROVE Fit(r, network, Listed(r))
      BY DEF FitOn
    <3>1. /\ Fit(s, network, Listed(s)) /\ s.in_tree
          /\ s.synchronizer_type = Kind[network]
      BY <2>2 DEF Good, FitOn, SettledOn, SameMode, Modes
    <3>2. CASE n \in Controllers
      <4>1. /\ r.player = PlayerAfterReset(s, n, TypeFor(s, n))
            /\ r.character[n].controller_type = TypeFor(s, n)
        BY <2>3, <3>1, <3>2
      <4>2. s.player \in Listed(s) \cup {Nobody}
        BY <1>1 DEF Sound, Known
      <4>3. Fit(r, network, Listed(s) \cup {n})
        BY <2>2, <2>6, <3>1, <3>2, <4>1, <4>2, ResetFits
      <4> QED BY <2>4, <3>2, <4>3
    <3>3. CASE n \notin Controllers
      BY <2>2, <2>3, <2>4, <2>6, <3>1, <3>3 DEF Fit
    <3> QED BY <3>2, <3>3
  <2> QED BY <2>1, <2>7, <2>8, <2>9 DEF Good, r
<1> QED BY <1>2, <1>3

-----------------------------------------------------------------------------
(* The links. *)

\* A step that only changes links keeps what is not about them.
LEMMA LinksOnly ==
  ASSUME NEW w, NEW s, Good(s, w), NEW r \in Scene,
         SameMode(r, s), SameLists(r, s), SameIds(r, s), SameServices(r, s),
         r.skipped = s.skipped, \A n \in Nodes : r.data[n].id = s.data[n].id,
         Mutual(r), Linked(r)
  PROVE  Good(r, w)
<1>1. Registered(r) = Registered(s) /\ Listed(r) = Listed(s) /\ \A i : NodeWithId(r, i) = NodeWithId(s, i)
  BY DEF SameLists, SameIds, Registered, Listed, NodeWithId
<1>2. Listed(s) \subseteq Nodes /\ Registered(s) \subseteq Nodes
  BY ListedType DEF Good, Sound
<1>3. Lists(r) /\ Owned(r) /\ Slotted(r) /\ Known(r)
  BY <1>1 DEF Good, Sound, Lists, SameLists, Owned, SameServices, Slotted, SameIds, Known
<1>4. r.renamed \/ Named(r)
  BY <1>1 DEF Good, Sound, SameIds, Named
<1>5. Numbered(r)
  BY <1>1, <1>2 DEF Good, Sound, Numbered, SameMode, SameIds
<1>6. Modes(r)
  BY DEF Good, Modes, SameMode
<1>7. ServedOn(r, w)
  BY <1>1, <1>2 DEF Good, ServedOn, SettledOn, SameMode, SameServices, Served
<1>8. FitOn(r, w)
  BY <1>1 DEF Good, FitOn, SettledOn, SameMode, SameServices, Fit
<1> QED BY <1>3, <1>4, <1>5, <1>6, <1>7, <1>8 DEF Good, Sound

LEMMA ReleaseGood ==
  ASSUME NEW w, NEW s, Good(s, w), NEW n \in Nodes
  PROVE  Good(Release(s, n), w)
<1> DEFINE r == Release(s, n)
<1>1. s \in Scene
  BY DEF Good, Sound
<1>2. /\ r \in Scene
      /\ SameMode(r, s) /\ SameLists(r, s) /\ SameIds(r, s) /\ SameServices(r, s)
      /\ r.skipped = s.skipped
  BY <1>1, ReleaseFields
<1>3. \A m \in Nodes :
         /\ r.data[m].id = s.data[m].id
         /\ r.data[m].dependency_nodes = s.data[m].dependency_nodes
         /\ r.data[m].dependency_nodes_end = s.data[m].dependency_nodes_end
         /\ r.data[m].controlled_by = IF m = n THEN Nobody ELSE s.data[m].controlled_by
         /\ r.data[m].controlled_nodes = IF m = s.data[n].controlled_by
              THEN s.data[m].controlled_nodes \ {n} ELSE s.data[m].controlled_nodes
  BY <1>1, ReleaseFields
<1> HIDE DEF r
<1>4. Registered(r) = Registered(s) /\ Listed(r) = Listed(s)
  BY <1>2 DEF SameLists, Registered, Listed
<1>5. Nobody \notin Nodes
  BY NodesAssumption
<1>6. Mutual(r)
  <2> SUFFICES ASSUME NEW m \in Nodes, NEW c \in Nodes
               PROVE  r.data[m].controlled_by = c <=> m \in r.data[c].controlled_nodes
    BY DEF Mutual
  <2>1. s.data[m].controlled_by = c <=> m \in s.data[c].controlled_nodes
    BY DEF Good, Sound, Mutual
  <2>2. /\ r.data[m].controlled_by = IF m = n THEN Nobody ELSE s.data[m].controlled_by
        /\ r.data[c].controlled_nodes = IF c = s.data[n].controlled_by
             THEN s.data[c].controlled_nodes \ {n} ELSE s.data[c].controlled_nodes
    BY <1>3
  <2> QED BY <1>5, <2>1, <2>2
<1>7. Linked(r)
  BY <1>3, <1>4 DEF Good, Sound, Linked
<1>8. \A m \in Nodes : r.data[m].id = s.data[m].id
  BY <1>3
<1>9. Good(r, w)
  BY <1>2, <1>6, <1>7, <1>8, LinksOnly
<1> QED BY <1>9 DEF r

LEMMA ControlFields ==
  ASSUME NEW f \in Scene, NEW n \in Nodes, NEW c \in Nodes, c /= n
  PROVE  LET r == [f EXCEPT !.data[c].controlled_nodes = @ \cup {n}, !.data[n].controlled_by = c]
         IN
         /\ r \in Scene
         /\ SameMode(r, f) /\ SameLists(r, f) /\ SameIds(r, f) /\ SameServices(r, f)
         /\ r.skipped = f.skipped
         /\ \A m \in Nodes :
              /\ r.data[m].id = f.data[m].id
              /\ r.data[m].dependency_nodes = f.data[m].dependency_nodes
              /\ r.data[m].dependency_nodes_end = f.data[m].dependency_nodes_end
              /\ r.data[m].controlled_by = IF m = n THEN c ELSE f.data[m].controlled_by
              /\ r.data[m].controlled_nodes = IF m = c
                   THEN f.data[m].controlled_nodes \cup {n} ELSE f.data[m].controlled_nodes
<1> DEFINE links == [f.data EXCEPT ![c].controlled_nodes = @ \cup {n}, ![n].controlled_by = c]
           left == [f.data EXCEPT ![c].controlled_nodes = @ \cup {n}]
           r == [f EXCEPT !.data[c].controlled_nodes = @ \cup {n}, !.data[n].controlled_by = c]
<1>1. f.data \in [Nodes -> NodeData]
  BY SceneType
<1>2. r = [f EXCEPT !.data = links]
  BY <1>1 DEF Scene
<1>3. left \in [Nodes -> NodeData]
  BY <1>1 DEF NodeData
<1>4. \A m \in Nodes :
         /\ left[m].id = f.data[m].id
         /\ left[m].dependency_nodes = f.data[m].dependency_nodes
         /\ left[m].dependency_nodes_end = f.data[m].dependency_nodes_end
         /\ left[m].controlled_by = f.data[m].controlled_by
         /\ left[m].controlled_nodes = IF m = c
              THEN f.data[m].controlled_nodes \cup {n} ELSE f.data[m].controlled_nodes
  BY <1>1 DEF NodeData
<1>5. links = [left EXCEPT ![n].controlled_by = c]
  OBVIOUS
<1> HIDE DEF left, links, r
<1>6. links \in [Nodes -> NodeData]
  BY <1>3, <1>5 DEF NodeData
<1>7. \A m \in Nodes :
         /\ links[m].id = left[m].id
         /\ links[m].dependency_nodes = left[m].dependency_nodes
         /\ links[m].dependency_nodes_end = left[m].dependency_nodes_end
         /\ links[m].controlled_by = IF m = n THEN c ELSE left[m].controlled_by
         /\ links[m].controlled_nodes = left[m].controlled_nodes
  BY <1>3, <1>5 DEF NodeData
<1>8. /\ r \in Scene /\ r.data = links
      /\ SameMode(r, f) /\ SameLists(r, f) /\ SameIds(r, f) /\ SameServices(r, f)
      /\ r.skipped = f.skipped
  BY <1>2, <1>6 DEF Scene, SameMode, SameLists, SameIds, SameServices
<1> QED BY <1>4, <1>7, <1>8 DEF r

LEMMA ControlledGood ==
  ASSUME NEW s, network \in Networks, Good(s, network), NEW c \in Nodes \cup {Nobody},
         s.generate_id => Len(s.organized_node_data) <= MaxIds,
         NEW n \in Registered(s) \ Controllers
  PROVE  Good(Controlled(s, n, c), network)
<1> DEFINE t == Release(s, n)
           f == Register(t, c)
           r == [f EXCEPT !.data[c].controlled_nodes = @ \cup {n}, !.data[n].controlled_by = c]
<1>1. s \in Scene /\ n \in Nodes
  BY ListedType DEF Good, Sound
<1>2. Good(t, network)
  BY <1>1, ReleaseGood
<1>3. SameMode(t, s) /\ SameLists(t, s) /\ SameIds(t, s) /\ t.data[n].controlled_by = Nobody
  BY <1>1, ReleaseFields
<1>4. Controlled(s, n, c) = IF c \notin Controllers THEN t
                            ELSE IF c \notin Registered(f) THEN f ELSE r
  BY DEF Controlled
<1> HIDE DEF t
<1>5. CASE c \notin Controllers
  BY <1>2, <1>4, <1>5
<1>6. CASE c \in Controllers
  <2>1. c \in Nodes /\ c /= n /\ t.generate_id => Len(t.organized_node_data) <= MaxIds
    BY <1>3, <1>6 DEF SameMode, SameIds
  <2>2. c \in Nodes /\ c /= n
    BY <1>6, NodesAssumption
  <2>3. t.generate_id => Len(t.organized_node_data) <= MaxIds
    BY <2>1, <2>2
  <2>4. Good(f, network)
    BY <1>2, <2>2, <2>3, RegisterGood
  <2>5. /\ Registered(t) \subseteq Registered(f)
        /\ \A m \in Nodes : m /= c => f.data[m] = t.data[m]
    BY <1>2, <2>2, <2>3, RegisterKeeps DEF Good
  <2> HIDE DEF f
  <2>6. n \in Registered(f) /\ f.data[n].controlled_by = Nobody
    BY <1>1, <1>3, <2>2, <2>5 DEF SameLists, Registered
  <2>7. CASE c \notin Registered(f)
    BY <1>4, <1>6, <2>4, <2>7
  <2>8. CASE c \in Registered(f)
    <3> DEFINE links == r.data
    <3>1. f \in Scene
      BY <2>4 DEF Good, Sound
    <3>5. /\ r \in Scene
          /\ SameMode(r, f) /\ SameLists(r, f) /\ SameIds(r, f) /\ SameServices(r, f)
          /\ r.skipped = f.skipped
      BY <1>1, <2>2, <3>1, ControlFields
    <3>4. \A m \in Nodes :
            /\ links[m].id = f.data[m].id
            /\ links[m].dependency_nodes = f.data[m].dependency_nodes
            /\ links[m].dependency_nodes_end = f.data[m].dependency_nodes_end
            /\ links[m].controlled_by = IF m = n THEN c ELSE f.data[m].controlled_by
            /\ links[m].controlled_nodes = IF m = c
                 THEN f.data[m].controlled_nodes \cup {n} ELSE f.data[m].controlled_nodes
      BY <1>1, <2>2, <3>1, ControlFields
    <3> HIDE DEF r
    <3>6. Registered(r) = Registered(f) /\ Listed(r) = Listed(f)
      BY <3>5 DEF SameLists, Registered, Listed
    <3>7. c \in Listed(f)
      BY <1>6, <2>4, <2>8 DEF Good, Sound, Lists
    <3>8. Nobody \notin Nodes
      BY NodesAssumption
    <3>9. Mutual(r)
      <4> SUFFICES ASSUME NEW a \in Nodes, NEW b \in Nodes
                   PROVE  links[a].controlled_by = b <=> a \in links[b].controlled_nodes
        BY DEF Mutual
      <4>1. f.data[a].controlled_by = b <=> a \in f.data[b].controlled_nodes
        BY <2>4 DEF Good, Sound, Mutual
      <4> QED BY <2>2, <2>6, <3>4, <3>8, <4>1
    <3>10. Linked(r)
      <4> SUFFICES ASSUME NEW a \in Nodes
                   PROVE  /\ links[a].controlled_by \in Listed(f) \cup {Nobody}
                          /\ links[a].dependency_nodes \subseteq Registered(f) \ Controllers
                          /\ links[a].controlled_nodes \subseteq Registered(f) \ Controllers
                          /\ links[a].dependency_nodes_end \subseteq links[a].dependency_nodes
        BY <3>6 DEF Linked
      <4> HIDE DEF links
      <4>1. /\ f.data[a].controlled_by \in Listed(f) \cup {Nobody}
            /\ f.data[a].dependency_nodes \subseteq Registered(f) \ Controllers
            /\ f.data[a].controlled_nodes \subseteq Registered(f) \ Controllers
            /\ f.data[a].dependency_nodes_end \subseteq f.data[a].dependency_nodes
        BY <2>4 DEF Good, Sound, Linked
      <4>2. n \in Registered(f) \ Controllers
        BY <2>6
      <4>3. /\ links[a].dependency_nodes = f.data[a].dependency_nodes
            /\ links[a].dependency_nodes_end = f.data[a].dependency_nodes_end
            /\ links[a].controlled_by \in {c, f.data[a].controlled_by}
            /\ links[a].controlled_nodes \subseteq f.data[a].controlled_nodes \cup {n}
        BY <3>4
      <4> HIDE DEF f
      <4> QED BY <3>7, <4>1, <4>2, <4>3
    <3>11. Good(r, network)
      <4>1. \A m \in Nodes : r.data[m].id = f.data[m].id
        BY <3>4
      <4> QED BY <2>4, <3>5, <3>9, <3>10, <4>1, LinksOnly
    <3> QED BY <1>4, <1>6, <2>8, <3>11
  <2> QED BY <2>7, <2>8
<1> QED BY <1>5, <1>6

-----------------------------------------------------------------------------
(* Dropping a node. *)

LEMMA DropLists ==
  ASSUME NEW s \in Scene, Lists(s), NEW n \in Nodes
  PROVE  LET r == Drop(s, n) IN
         /\ Lists(r)
         /\ Registered(r) = Registered(s) \ {n}
         /\ Listed(r) = Listed(s) \ {n}
<1> DEFINE r == Drop(s, n)
<1>dropped. DropShape(r, s, n)
  BY DropFields
<1> HIDE DEF r
<1>1. s.node_data \in Seq(Nodes) /\ s.node_data_controllers \in Seq(Controllers)
  BY SceneType
<1>2. /\ r.node_data = RemoveFirst(s.node_data, n)
      /\ r.node_data_controllers = IF n \in Controllers
              THEN RemoveFirst(s.node_data_controllers, n) ELSE s.node_data_controllers
  BY <1>dropped DEF DropShape
<1>3. IsInjective(r.node_data) /\ Registered(r) = Registered(s) \ {n}
  BY <1>1, <1>2, RemoveFirstElements DEF Lists, Registered
<1>4. IsInjective(r.node_data_controllers) /\ Listed(r) = Listed(s) \ {n}
  <2>1. CASE n \in Controllers
    BY <1>1, <1>2, <2>1, RemoveFirstElements DEF Lists, Listed
  <2>2. CASE n \notin Controllers
    <3>1. n \notin Listed(s)
      BY <2>2, ListedType
    <3> QED BY <1>2, <2>2, <3>1 DEF Lists, Listed
  <2> QED BY <2>1, <2>2
<1>5. Lists(r)
  BY <1>3, <1>4 DEF Lists
<1> QED BY <1>3, <1>4, <1>5 DEF r

LEMMA DropGood ==
  ASSUME NEW w, NEW s, Good(s, w), NEW n \in Registered(s)
  PROVE  Good(Drop(s, n), w)
<1> DEFINE r == Drop(s, n)
<1>1. s \in Scene /\ Lists(s) /\ n \in Nodes
  BY ListedType DEF Good, Sound
<1>dropped. DropShape(r, s, n)
  BY <1>1, DropFields
<1> HIDE DEF r
<1>2. /\ r \in Scene
      /\ SameMode(r, s) /\ r.renamed = s.renamed
      /\ r.node_data = RemoveFirst(s.node_data, n)
      /\ r.node_data_controllers = IF n \in Controllers
           THEN RemoveFirst(s.node_data_controllers, n) ELSE s.node_data_controllers
      /\ r.organized_node_data = Vacated(s.organized_node_data, s.data[n].id)
      /\ r.skipped = s.skipped /\ r.peer_data = s.peer_data
      /\ r.peer_dirty = (s.peer_dirty \/ n \in Controllers)
      /\ r.player = IF s.player = n THEN Nobody ELSE s.player
      /\ \A d \in Controllers : d /= n => r.character[d] = s.character[d]
      /\ n \in Controllers => ~ r.character[n].has_scene_synchronizer
      /\ r.data[n] = NewNodeData
      /\ \A m \in Nodes : m /= n =>
           /\ r.data[m].id = s.data[m].id
           /\ r.data[m].dependency_nodes = s.data[m].dependency_nodes \ {n}
           /\ r.data[m].dependency_nodes_end = s.data[m].dependency_nodes_end \ {n}
           /\ r.data[m].controlled_by = IF m \in s.data[n].controlled_nodes
                THEN Nobody ELSE s.data[m].controlled_by
           /\ r.data[m].controlled_nodes = IF m = s.data[n].controlled_by
                THEN s.data[m].controlled_nodes \ {n} ELSE s.data[m].controlled_nodes
  BY <1>dropped DEF DropShape
<1>3. /\ r.data[n] = NewNodeData
      /\ \A m \in Nodes : m /= n =>
           /\ r.data[m].id = s.data[m].id
           /\ r.data[m].dependency_nodes = s.data[m].dependency_nodes \ {n}
           /\ r.data[m].dependency_nodes_end = s.data[m].dependency_nodes_end \ {n}
           /\ r.data[m].controlled_by = IF m \in s.data[n].controlled_nodes
                THEN Nobody ELSE s.data[m].controlled_by
           /\ r.data[m].controlled_nodes = IF m = s.data[n].controlled_by
                THEN s.data[m].controlled_nodes \ {n} ELSE s.data[m].controlled_nodes
  BY <1>2
<1>4. Lists(r) /\ Registered(r) = Registered(s) \ {n} /\ Listed(r) = Listed(s) \ {n}
  BY <1>1, DropLists DEF r
<1>5. /\ s.organized_node_data \in Seq(Nodes \cup {Nobody}) /\ s.data \in [Nodes -> NodeData]
      /\ Nobody \notin Nodes /\ NoId \notin 0 .. MaxIds /\ MaxIds \in Nat
      /\ Listed(s) \subseteq Controllers /\ Listed(s) \subseteq Nodes /\ Registered(s) \subseteq Nodes
  BY <1>1, SceneType, ListedType, NodesAssumption, IdsAssumption, RegistryBoundsAssumption
<1>6. r.data[n].controlled_by = Nobody /\ r.data[n].controlled_nodes = {}
      /\ r.data[n].dependency_nodes = {} /\ r.data[n].dependency_nodes_end = {}
      /\ r.data[n].id = NoId
  BY <1>3 DEF NewNodeData
<1>7. Mutual(r)
  <2> SUFFICES ASSUME NEW m \in Nodes, NEW c \in Nodes
               PROVE  r.data[m].controlled_by = c <=> m \in r.data[c].controlled_nodes
    BY DEF Mutual
  <2>1. /\ s.data[m].controlled_by = c <=> m \in s.data[c].controlled_nodes
        /\ s.data[n].controlled_by = c <=> n \in s.data[c].controlled_nodes
        /\ s.data[m].controlled_by = n <=> m \in s.data[n].controlled_nodes
    BY <1>1 DEF Good, Sound, Mutual
  <2>2. CASE m = n /\ c = n
    BY <1>5, <1>6, <2>2
  <2>3. CASE m = n /\ c /= n
    BY <1>3, <1>5, <1>6, <2>1, <2>3
  <2>4. CASE m /= n /\ c = n
    BY <1>3, <1>5, <1>6, <2>1, <2>4
  <2>5. CASE m /= n /\ c /= n
    <3>1. /\ r.data[m].controlled_by = IF m \in s.data[n].controlled_nodes
               THEN Nobody ELSE s.data[m].controlled_by
          /\ r.data[c].controlled_nodes = IF c = s.data[n].controlled_by
               THEN s.data[c].controlled_nodes \ {n} ELSE s.data[c].controlled_nodes
      BY <1>3, <2>5
    <3> QED BY <1>5, <2>1, <2>5, <3>1
  <2> QED BY <2>2, <2>3, <2>4, <2>5
<1>8. Linked(r)
  <2> SUFFICES ASSUME NEW m \in Nodes
               PROVE  /\ r.data[m].controlled_by \in Listed(r) \cup {Nobody}
                      /\ r.data[m].dependency_nodes \subseteq Registered(r) \ Controllers
                      /\ r.data[m].controlled_nodes \subseteq Registered(r) \ Controllers
                      /\ r.data[m].dependency_nodes_end \subseteq r.data[m].dependency_nodes
    BY DEF Linked
  <2>1. CASE m = n
    BY <1>6, <2>1
  <2>2. CASE m /= n
    <3>1. /\ s.data[m].controlled_by \in Listed(s) \cup {Nobody}
          /\ s.data[m].dependency_nodes \subseteq Registered(s) \ Controllers
          /\ s.data[m].controlled_nodes \subseteq Registered(s) \ Controllers
          /\ s.data[m].dependency_nodes_end \subseteq s.data[m].dependency_nodes
      BY DEF Good, Sound, Linked
    <3>2. s.data[m].controlled_by = n <=> m \in s.data[n].controlled_nodes
      BY <1>1 DEF Good, Sound, Mutual
    <3>3. s.data[n].controlled_by = m <=> n \in s.data[m].controlled_nodes
      BY <1>1 DEF Good, Sound, Mutual
    <3> QED BY <1>3, <1>4, <2>2, <3>1, <3>2, <3>3
  <2> QED BY <2>1, <2>2
<1>9. Owned(r)
  BY <1>2, <1>4 DEF Good, Sound, Owned
<1>10. Known(r)
  BY <1>2, <1>4, <1>5 DEF Good, Sound, Known
<1>11. /\ Len(r.organized_node_data) = Len(s.organized_node_data)
       /\ \A i : NodeWithId(r, i) = IF i = s.data[n].id THEN Nobody ELSE NodeWithId(s, i)
  <2> DEFINE w0 == s.organized_node_data
             L == Len(w0)
  <2>1. /\ Len(r.organized_node_data) = L /\ L \in Nat
        /\ \A k \in 1 .. L : r.organized_node_data[k] = IF k - 1 = s.data[n].id THEN Nobody ELSE w0[k]
    BY <1>2, <1>5, VacatedSlots
  <2> HIDE DEF w0, L
  <2>2. ASSUME NEW i
        PROVE  NodeWithId(r, i) = IF i = s.data[n].id THEN Nobody ELSE NodeWithId(s, i)
    <3>1. CASE i \in 0 .. L - 1
      <4>1. i + 1 \in 1 .. L /\ (i + 1) - 1 = i
        BY <2>1, <3>1
      <4> QED BY <2>1, <3>1, <4>1 DEF NodeWithId, L, w0
    <3>2. CASE i \notin 0 .. L - 1
      BY <2>1, <3>2 DEF NodeWithId, L, w0
    <3> QED BY <3>1, <3>2
  <2> QED BY <2>1, <2>2 DEF L, w0
<1>12. Slotted(r)
  BY <1>11 DEF Good, Sound, Slotted
<1>13. r.renamed \/ Named(r)
  <2> SUFFICES ASSUME Named(s), NEW m \in Nodes, NEW i \in 0 .. MaxIds
               PROVE  NodeWithId(r, i) = m <=> m \in Registered(r) /\ r.data[m].id = i
    BY <1>2 DEF Good, Sound, Named
  <2>1. NodeWithId(s, i) = m <=> m \in Registered(s) /\ s.data[m].id = i
    BY DEF Named
  <2>2. NodeWithId(s, i) = n <=> s.data[n].id = i
    BY <1>1 DEF Named
  <2>3. NodeWithId(r, i) = IF i = s.data[n].id THEN Nobody ELSE NodeWithId(s, i)
    BY <1>11
  <2>4. CASE m = n
    BY <1>4, <1>5, <2>2, <2>3, <2>4
  <2>5. CASE m /= n
    <3>1. r.data[m].id = s.data[m].id /\ (m \in Registered(r) <=> m \in Registered(s))
      BY <1>3, <1>4, <2>5
    <3> QED BY <1>5, <2>1, <2>2, <2>3, <2>5, <3>1
  <2> QED BY <2>4, <2>5
<1>14. Numbered(r)
  BY <1>2, <1>3, <1>4, <1>5, <1>11 DEF Good, Sound, Numbered, SameMode
<1>15. Modes(r)
  BY <1>2 DEF Good, Modes, SameMode
<1>16. ServedOn(r, w)
  <2> SUFFICES ASSUME SettledOn(r, w), r.synchronizer_type = "SERVER", ~ r.peer_dirty
               PROVE  Served(r)
    BY DEF ServedOn
  <2>1. Served(s) /\ n \notin Controllers
    BY <1>2 DEF Good, ServedOn, SettledOn, SameMode
  <2>2. s.generate_id
    <3>1. s.synchronizer_type = "SERVER" /\ s.in_tree
      BY <1>2 DEF SettledOn, SameMode
    <3> QED BY <3>1 DEF Good, Modes
  <2>3. Named(s)
    BY <2>2 DEF Good, Sound, Numbered
  <2>4. ASSUME NEW i, NodeWithId(s, i) \in Listed(s)
        PROVE  NodeWithId(r, i) = NodeWithId(s, i)
    <3>1. NodeWithId(s, i) \in Nodes
      BY <1>5, <2>4
    <3>2. Len(s.organized_node_data) \in Nat
      BY <1>5
    <3>3. i \in 0 .. Len(s.organized_node_data) - 1
      BY <1>1, <3>1, SlotType
    <3>4. i \in 0 .. MaxIds
      BY <1>5, <3>2, <3>3 DEF Good, Sound, Slotted
    <3>5. i /= s.data[n].id
      BY <1>1, <1>5, <2>1, <2>3, <2>4, <3>4 DEF Named
    <3> QED BY <1>11, <3>5
  <2>5. n \notin Listed(s) /\ Listed(r) = Listed(s)
    BY <1>4, <1>5, <2>1
  <2>6. \A c \in Listed(s) : r.character[c] = s.character[c] /\ r.data[c].id = s.data[c].id
    BY <1>2, <1>3, <1>5, <2>5
  <2> QED BY <1>2, <1>5, <2>1, <2>4, <2>5, <2>6, ServedIsKept
<1>17. FitOn(r, w)
  <2> SUFFICES ASSUME SettledOn(r, w) PROVE Fit(r, w, Listed(r))
    BY DEF FitOn
  <2>1. Fit(s, w, Listed(s))
    BY <1>2 DEF Good, FitOn, SettledOn, SameMode
  <2>2. \A c \in Listed(r) : r.character[c] = s.character[c] /\ (r.player = c <=> s.player = c)
    BY <1>2, <1>4, <1>5
  <2> QED BY <1>4, <2>1, <2>2 DEF Fit
<1> QED BY <1>2, <1>4, <1>7, <1>8, <1>9, <1>10, <1>12, <1>13, <1>14, <1>15, <1>16, <1>17
        DEF Good, Sound, r

-----------------------------------------------------------------------------
(* clear. *)

\* A controller of a synchronizer is listed, or was stepped over by a clear.
HeldIsListed(s) ==
  \A c \in Controllers :
    s.character[c].has_scene_synchronizer => c \in Listed(s) \cup s.skipped

\* What is left of s when it is cleared.
ClearShape(r, s) ==
  /\ r \in Scene
  /\ SameMode(r, s) /\ r.peer_data = s.peer_data
  /\ r.node_data = <<>> /\ r.organized_node_data = <<>> /\ r.node_data_controllers = <<>>
  /\ \A n \in Nodes : r.data[n] = NewNodeData
  /\ r.player = Nobody /\ ~ r.renamed
  /\ HeldIsListed(r)

\* A clear drops nodes of the list.
LEMMA DroppedByClearType ==
  ASSUME NEW s \in Scene
  PROVE  DroppedByClear(s) \in Seq(Nodes)
<1> DEFINE L == Len(s.node_data)
           N == (L + 1) \div 2
<1>1. s.node_data \in Seq(Nodes) /\ L \in Nat
  BY SceneType
<1>2. \A i \in 1 .. L : s.node_data[i] \in Nodes
  BY <1>1
<1>3. N \in Nat /\ 2 * N <= L + 1
  <2>1. \A x \in Nat : x \div 2 \in Nat /\ 2 * (x \div 2) <= x
    OBVIOUS
  <2>2. L + 1 \in Nat
    BY <1>1
  <2> HIDE DEF L
  <2> QED BY <2>1, <2>2
<1>4. DroppedByClear(s) = [i \in 1 .. N |-> s.node_data[2 * i - 1]]
  BY DEF DroppedByClear
<1> HIDE DEF N, L
<1>5. ASSUME NEW i \in 1 .. N PROVE s.node_data[2 * i - 1] \in Nodes
  <2>1. 2 * i - 1 \in 1 .. L
    BY <1>1, <1>3
  <2> QED BY <1>2, <2>1
<1> QED BY <1>3, <1>4, <1>5

LEMMA DropHolds ==
  ASSUME NEW s \in Scene, Lists(s), HeldIsListed(s), NEW n \in Nodes
  PROVE  LET r == Drop(s, n) IN
         /\ r \in Scene /\ SameMode(r, s) /\ r.peer_data = s.peer_data
         /\ Lists(r) /\ HeldIsListed(r)
<1> DEFINE r == Drop(s, n)
<1>1. DropShape(r, s, n)
  BY DropFields
<1>2. Lists(r) /\ Listed(r) = Listed(s) \ {n}
  BY DropLists
<1> HIDE DEF r
<1>3. r \in Scene /\ SameMode(r, s) /\ r.peer_data = s.peer_data
  BY <1>1 DEF DropShape
<1>4. HeldIsListed(r)
  BY <1>1, <1>2 DEF DropShape, HeldIsListed
<1> QED BY <1>2, <1>3, <1>4 DEF r

LEMMA ClearFields ==
  ASSUME NEW s \in Scene, Lists(s), HeldIsListed(s)
  PROVE  ClearShape(Clear(s), s)
<1> DEFINE nodes == DroppedByClear(s)
           N == Len(nodes)
           Body(g) == [k \in 0 .. N |-> IF k = 0 THEN s ELSE Drop(g[k - 1], nodes[k])]
           To == CHOOSE g : g = Body(g)
           dropped == To[N]
           char == [c \in Controllers |->
             Idle(dropped.character[c], dropped.character[c].has_scene_synchronizer)]
           links == [n \in Nodes |-> NewNodeData]
           r == [dropped EXCEPT
             !.skipped = @ \cup Listed(dropped), !.data = links, !.character = char,
             !.node_data = <<>>, !.organized_node_data = <<>>,
             !.node_data_controllers = <<>>, !.player = Nobody, !.renamed = FALSE]
           X == {t \in Scene : SameMode(t, s) /\ t.peer_data = s.peer_data
                               /\ Lists(t) /\ HeldIsListed(t)}
           F == [k \in Nat |-> [t \in X |-> IF k \in 1 .. N THEN Drop(t, nodes[k]) ELSE s]]
<1>1. nodes \in Seq(Nodes)
  BY DroppedByClearType
<1>2. N \in Nat /\ \A k \in 1 .. N : nodes[k] \in Nodes
  BY <1>1
<1>3. Clear(s) = r
  BY DEF Clear
<1> HIDE DEF N, nodes
<1>4. s \in X
  BY DEF SameMode
<1>5. ASSUME NEW t \in X, NEW k \in 1 .. N PROVE Drop(t, nodes[k]) \in X
  BY <1>2, <1>5, DropHolds DEF SameMode
<1> HIDE DEF X
<1>6. F \in [Nat -> [X -> X]]
  BY <1>4, <1>5
<1>7. \A k \in 1 .. N : \A t \in X : F[k][t] = Drop(t, nodes[k])
  BY <1>2
<1> HIDE DEF F
<1>8. PICK g : IsIteration(g, N, X, s, F)
  BY <1>2, <1>4, <1>6, IterationExists
<1>9. /\ g \in [0 .. N -> X]
      /\ g[0] = s /\ \A k \in 1 .. N : g[k] = F[k][g[k - 1]]
  BY <1>8 DEF IsIteration
<1>10. g = Body(g)
  <2>1. ASSUME NEW k \in 0 .. N
        PROVE  g[k] = IF k = 0 THEN s ELSE Drop(g[k - 1], nodes[k])
    <3>1. CASE k = 0
      BY <1>9, <3>1
    <3>2. CASE k /= 0
      <4>1. k \in 1 .. N /\ k - 1 \in 0 .. N
        BY <1>2, <3>2
      <4>2. g[k - 1] \in X /\ g[k] = F[k][g[k - 1]]
        BY <4>1, <1>9
      <4> QED BY <1>7, <3>2, <4>1, <4>2
    <3> QED BY <3>1, <3>2
  <2>2. g = [k \in 0 .. N |-> g[k]]
    BY <1>9
  <2>3. Body(g) = [k \in 0 .. N |-> g[k]]
    BY <2>1, Zenon
  <2> QED BY <2>2, <2>3
<1> HIDE DEF Body
<1>11. To = Body(To)
  BY <1>10
<1> HIDE DEF To
<1>12. To[0] = s /\ \A k \in 1 .. N : To[k] = Drop(To[k - 1], nodes[k])
  <2>1. 0 \in 0 .. N
    BY <1>2
  <2>2. \A k \in 1 .. N : k \in 0 .. N /\ k /= 0
    BY <1>2
  <2>3. \A k \in 0 .. N : To[k] = IF k = 0 THEN s ELSE Drop(To[k - 1], nodes[k])
    BY <1>11 DEF Body
  <2> QED BY <2>1, <2>2, <2>3
<1> DEFINE S == {k \in Nat : k \in 0 .. N => To[k] \in X}
<1>13. 0 \in S
  BY <1>4, <1>12
<1>14. ASSUME NEW k \in Nat, k \in S PROVE k + 1 \in S
  <2> SUFFICES ASSUME k + 1 \in 0 .. N PROVE To[k + 1] \in X
    OBVIOUS
  <2>1. k \in 0 .. N /\ k + 1 \in 1 .. N /\ (k + 1) - 1 = k
    BY <1>2
  <2>2. To[k] \in X
    BY <1>14, <2>1
  <2> QED BY <1>5, <1>12, <2>1, <2>2
<1>15. Nat \subseteq S
  <2> HIDE DEF S
  <2> QED BY <1>13, <1>14, NatSetInduction
<1>16. dropped \in X
  BY <1>2, <1>15
<1> HIDE DEF dropped, S
<1>17. /\ dropped \in Scene /\ SameMode(dropped, s) /\ dropped.peer_data = s.peer_data
       /\ Lists(dropped) /\ HeldIsListed(dropped)
  BY <1>16 DEF X
<1>18. /\ dropped.character \in [Controllers -> Character]
       /\ dropped.skipped \subseteq Controllers /\ Listed(dropped) \subseteq Controllers
  BY <1>17, SceneType, ListedType
<1>19. /\ char \in [Controllers -> Character]
       /\ \A c \in Controllers :
            char[c].has_scene_synchronizer = dropped.character[c].has_scene_synchronizer
  BY <1>18 DEF Idle, Character
<1>20. links \in [Nodes -> NodeData] /\ \A n \in Nodes : links[n] = NewNodeData
  BY DEF NodeData, NewNodeData
<1>empty. \A Z : <<>> \in Seq(Z)
  OBVIOUS
<1> HIDE DEF char, links
<1>21. /\ r \in Scene
       /\ SameMode(r, dropped) /\ r.peer_data = dropped.peer_data
       /\ r.node_data = <<>> /\ r.organized_node_data = <<>> /\ r.node_data_controllers = <<>>
       /\ r.data = links /\ r.player = Nobody /\ r.renamed = FALSE
       /\ r.character = char /\ r.skipped = dropped.skipped \cup Listed(dropped)
  BY <1>17, <1>18, <1>19, <1>20, <1>empty DEF Scene, SameMode
<1> HIDE DEF r
<1>22. HeldIsListed(r)
  BY <1>17, <1>19, <1>21 DEF HeldIsListed
<1>23. SameMode(r, s) /\ r.peer_data = s.peer_data
  BY <1>17, <1>21 DEF SameMode
<1> QED BY <1>3, <1>20, <1>21, <1>22, <1>23 DEF ClearShape

-----------------------------------------------------------------------------
(* reset_controllers and the mode. *)

\* What is left of s when its first controllers C are reset.
ResetShape(r, s, C) ==
  /\ r \in Scene
  /\ SameMode(r, s) /\ SameLists(r, s) /\ SameIds(r, s)
  /\ r.data = s.data /\ r.skipped = s.skipped /\ r.peer_data = s.peer_data
  /\ \A c \in Controllers :
       r.character[c].has_scene_synchronizer = s.character[c].has_scene_synchronizer
  /\ Fit(r, network, C) /\ r.player \in C \cup {Nobody}
  /\ \A c \in C : r.character[c].peers = {}
  /\ C /= {} => r.peer_dirty

LEMMA ResetExtends ==
  ASSUME NEW s \in Scene, network \in Networks,
         s.in_tree, s.synchronizer_type = Kind[network],
         NEW C \in SUBSET Controllers, NEW t, ResetShape(t, s, C), NEW c \in Controllers
  PROVE  ResetShape(ResetController(t, c), s, C \cup {c})
<1> DEFINE r == ResetController(t, c)
<1>1. t \in Scene /\ t.in_tree /\ t.synchronizer_type = Kind[network]
  BY DEF ResetShape, SameMode
<1>2. /\ r \in Scene
      /\ SameMode(r, t) /\ SameLists(r, t) /\ SameIds(r, t)
      /\ r.data = t.data /\ r.skipped = t.skipped /\ r.peer_data = t.peer_data
      /\ r.peer_dirty = (t.peer_dirty \/ t.in_tree)
      /\ \A d \in Controllers : d /= c => r.character[d] = t.character[d]
      /\ r.character[c].has_scene_synchronizer = t.character[c].has_scene_synchronizer
      /\ r.character[c].peers = {}
  BY <1>1, ResetControllerFields
<1>3. r.player = PlayerAfterReset(t, c, TypeFor(t, c)) /\ r.character[c].controller_type = TypeFor(t, c)
  BY <1>1, ResetControllerFields
<1> HIDE DEF r
<1>4. Fit(r, network, C \cup {c}) /\ r.player \in C \cup {c, Nobody}
  BY <1>1, <1>2, <1>3, ResetFits DEF ResetShape
<1>5. \A d \in C \cup {c} : r.character[d].peers = {}
  BY <1>2 DEF ResetShape
<1>6. \A d \in Controllers :
        r.character[d].has_scene_synchronizer = s.character[d].has_scene_synchronizer
  BY <1>2 DEF ResetShape
<1>7. SameMode(r, s) /\ SameLists(r, s) /\ SameIds(r, s)
  BY <1>2 DEF ResetShape, SameMode, SameLists, SameIds
<1>8. /\ r \in Scene /\ r.peer_dirty
      /\ r.data = s.data /\ r.skipped = s.skipped /\ r.peer_data = s.peer_data
  BY <1>1, <1>2 DEF ResetShape
<1> QED BY <1>4, <1>5, <1>6, <1>7, <1>8 DEF ResetShape, r

LEMMA ResetControllersFields ==
  ASSUME NEW s \in Scene, network \in Networks,
         s.in_tree, s.synchronizer_type = Kind[network], s.player = Nobody
  PROVE  ResetShape(ResetControllers(s), s, Listed(s))
<1> DEFINE list == s.node_data_controllers
           N == Len(list)
           First(k) == {list[j] : j \in 1 .. k}
           Body(g) == [k \in 0 .. N |-> IF k = 0 THEN s ELSE ResetController(g[k - 1], list[k])]
           To == CHOOSE g : g = Body(g)
           F == [k \in Nat |-> [t \in Scene |->
                  IF k \in 1 .. N THEN ResetController(t, list[k]) ELSE s]]
<1>1. list \in Seq(Controllers) /\ N \in Nat /\ \A k \in 1 .. N : list[k] \in Controllers
  BY SceneType
<1>2. Listed(s) = First(N)
  BY <1>1 DEF Listed, ToSet
<1>3. ResetControllers(s) = To[N]
  BY DEF ResetControllers
<1> HIDE DEF N, list
<1>5. ASSUME NEW t \in Scene, NEW k \in 1 .. N PROVE ResetController(t, list[k]) \in Scene
  BY <1>1, ResetControllerFields
<1>6. F \in [Nat -> [Scene -> Scene]]
  BY <1>5
<1>7. \A k \in 1 .. N : \A t \in Scene : F[k][t] = ResetController(t, list[k])
  BY <1>1
<1> HIDE DEF F
<1>8. PICK g : IsIteration(g, N, Scene, s, F)
  BY <1>1, <1>6, IterationExists
<1>9. /\ g \in [0 .. N -> Scene]
      /\ g[0] = s /\ \A k \in 1 .. N : g[k] = F[k][g[k - 1]]
  BY <1>8 DEF IsIteration
<1>10. g = Body(g)
  <2>1. ASSUME NEW k \in 0 .. N
        PROVE  g[k] = IF k = 0 THEN s ELSE ResetController(g[k - 1], list[k])
    <3>1. CASE k = 0
      BY <1>9, <3>1
    <3>2. CASE k /= 0
      <4>1. k \in 1 .. N /\ k - 1 \in 0 .. N
        BY <1>1, <3>2
      <4>2. g[k - 1] \in Scene /\ g[k] = F[k][g[k - 1]]
        BY <4>1, <1>9
      <4> QED BY <1>7, <3>2, <4>1, <4>2
    <3> QED BY <3>1, <3>2
  <2>2. g = [k \in 0 .. N |-> g[k]]
    BY <1>9
  <2>3. Body(g) = [k \in 0 .. N |-> g[k]]
    BY <2>1, Zenon
  <2> QED BY <2>2, <2>3
<1> HIDE DEF Body
<1>11. To = Body(To)
  BY <1>10
<1> HIDE DEF To
<1>12. To[0] = s /\ \A k \in 1 .. N : To[k] = ResetController(To[k - 1], list[k])
  <2>1. 0 \in 0 .. N
    BY <1>1
  <2>2. \A k \in 1 .. N : k \in 0 .. N /\ k /= 0
    BY <1>1
  <2>3. \A k \in 0 .. N : To[k] = IF k = 0 THEN s ELSE ResetController(To[k - 1], list[k])
    BY <1>11 DEF Body
  <2> QED BY <2>1, <2>2, <2>3
<1> DEFINE S == {k \in Nat : k \in 0 .. N => ResetShape(To[k], s, First(k))}
<1>13. 0 \in S
  <2>1. First(0) = {}
    OBVIOUS
  <2>2. ResetShape(s, s, {})
    BY DEF ResetShape, SameMode, SameLists, SameIds, Fit
  <2> QED BY <1>12, <2>1, <2>2
<1>14. ASSUME NEW k \in Nat, k \in S PROVE k + 1 \in S
  <2> SUFFICES ASSUME k + 1 \in 0 .. N PROVE ResetShape(To[k + 1], s, First(k + 1))
    OBVIOUS
  <2>1. k \in 0 .. N /\ k + 1 \in 1 .. N /\ (k + 1) - 1 = k
    BY <1>1
  <2>2. ResetShape(To[k], s, First(k))
    BY <1>14, <2>1
  <2>3. First(k) \subseteq Controllers /\ list[k + 1] \in Controllers
    <3>1. \A j \in 1 .. k : j \in 1 .. N
      BY <1>1, <2>1
    <3> QED BY <1>1, <2>1, <3>1
  <2>4. First(k + 1) = First(k) \cup {list[k + 1]}
    <3>1. \A j : j \in 1 .. k + 1 <=> j \in 1 .. k \/ j = k + 1
      OBVIOUS
    <3> QED BY <3>1
  <2>5. To[k + 1] = ResetController(To[k], list[k + 1])
    BY <1>12, <2>1
  <2> HIDE DEF First
  <2> QED BY <2>2, <2>3, <2>4, <2>5, ResetExtends
<1>15. Nat \subseteq S
  <2> HIDE DEF S
  <2> QED BY <1>13, <1>14, NatSetInduction
<1>16. ResetShape(To[N], s, First(N))
  <2>1. N \in S
    <3> HIDE DEF S
    <3> QED BY <1>1, <1>15
  <2>2. N \in 0 .. N
    BY <1>1
  <2> HIDE DEF First
  <2> QED BY <2>1, <2>2
<1> QED BY <1>2, <1>3, <1>16

\* There are no more nodes than ids.
LEMMA ListIsShort ==
  ASSUME NEW s \in Scene, Lists(s)
  PROVE  Len(s.node_data) \in Nat /\ Len(s.node_data) <= MaxIds
<1> DEFINE L == Len(s.node_data)
<1>1. s.node_data \in Seq(Nodes) /\ L \in Nat
  BY SceneType
<1>2. s.node_data \in [1 .. L -> Nodes]
  BY <1>1
<1>3. s.node_data \in Injection(1 .. L, Nodes)
  BY <1>2 DEF Lists, Injection
<1>4. Cardinality(1 .. L) <= Cardinality(Nodes)
  BY <1>3, NodesAssumption, FS_Injection
<1>5. Cardinality(1 .. L) = L
  BY <1>1, FS_Interval
<1>6. Cardinality(Nodes) \in Nat
  BY NodesAssumption, FS_CardinalityType
<1> QED BY <1>1, <1>4, <1>5, <1>6, RegistryBoundsAssumption

\* The ids a mode begins with are the positions of the nodes, or none.
LEMMA IdsAfterModeFields ==
  ASSUME NEW s \in Scene, Lists(s), NEW generate \in BOOLEAN
  PROVE  LET r == IdsAfterMode(s, generate) IN
         /\ r \in Scene
         /\ SameMode(r, s) /\ SameLists(r, s) /\ SameServices(r, s) /\ r.skipped = s.skipped
         /\ \A n \in Nodes :
              /\ r.data[n].controlled_by = s.data[n].controlled_by
              /\ r.data[n].controlled_nodes = s.data[n].controlled_nodes
              /\ r.data[n].dependency_nodes = s.data[n].dependency_nodes
              /\ r.data[n].dependency_nodes_end = s.data[n].dependency_nodes_end
         /\ s.generate_id = generate =>
              SameIds(r, s) /\ \A n \in Nodes : r.data[n].id = s.data[n].id
         /\ s.generate_id /= generate =>
              Slotted(r) /\ ~ r.renamed /\ Named(r)
              /\ (generate => \A n \in Registered(r) :
                                r.data[n].id \in 0 .. Len(r.organized_node_data) - 1)
<1> DEFINE r == IdsAfterMode(s, generate)
           L == Len(s.node_data)
           slots == IF generate THEN s.node_data ELSE [i \in DOMAIN s.node_data |-> Nobody]
           id(n) == IF generate /\ n \in Registered(s)
                      THEN CHOOSE i \in 0 .. L - 1 : s.node_data[i + 1] = n ELSE NoId
           links == [n \in Nodes |-> [s.data[n] EXCEPT !.id = id(n)]]
<1>1. /\ s.node_data \in Seq(Nodes) /\ s.data \in [Nodes -> NodeData]
      /\ s.generate_id \in BOOLEAN
  BY SceneType
<1>2. L \in Nat /\ L <= MaxIds /\ MaxIds \in Nat
  BY ListIsShort, RegistryBoundsAssumption
<1>3. CASE s.generate_id = generate
  <2>1. r = s
    BY <1>3 DEF IdsAfterMode
  <2> HIDE DEF r
  <2> QED BY <1>3, <2>1 DEF r, SameMode, SameLists, SameIds, SameServices
<1>4. CASE s.generate_id /= generate
  <2>1. r = [s EXCEPT !.organized_node_data = slots, !.data = links, !.renamed = FALSE]
    BY <1>4 DEF IdsAfterMode, Scene
  <2>2. ASSUME generate, NEW n \in Registered(s)
        PROVE  id(n) \in 0 .. L - 1 /\ \A i \in 0 .. L - 1 : s.node_data[i + 1] = n <=> i = id(n)
    <3>1. \A j, k \in 1 .. L : s.node_data[j] = s.node_data[k] => j = k
      BY <1>1 DEF Lists, IsInjective
    <3>2. PICK k \in 1 .. L : s.node_data[k] = n
      BY <1>1, <2>2 DEF Registered, ToSet
    <3>3. k - 1 \in 0 .. L - 1 /\ s.node_data[(k - 1) + 1] = n
      BY <1>2, <3>2
    <3>4. id(n) = CHOOSE i \in 0 .. L - 1 : s.node_data[i + 1] = n
      BY <2>2
    <3> HIDE DEF L, id
    <3>5. id(n) \in 0 .. L - 1 /\ s.node_data[id(n) + 1] = n
      BY <3>3, <3>4
    <3>6. \A i \in 0 .. L - 1 : i + 1 \in 1 .. L /\ i \in Int
      BY <1>2
    <3>7. \A i \in 0 .. L - 1 : s.node_data[i + 1] = n => i = id(n)
      BY <3>1, <3>5, <3>6
    <3> QED BY <3>5, <3>7
  <2>3. \A n : ~ generate \/ n \notin Registered(s) => id(n) = NoId
    OBVIOUS
  <2>4. \A n : id(n) \in 0 .. MaxIds \cup {NoId}
    <3> HIDE DEF id
    <3> QED BY <1>2, <2>2, <2>3
  <2> HIDE DEF id
  <2>5. links \in [Nodes -> NodeData]
    BY <1>1, <2>4 DEF NodeData
  <2>6. \A n \in Nodes :
          /\ links[n].id = id(n)
          /\ links[n].controlled_by = s.data[n].controlled_by
          /\ links[n].controlled_nodes = s.data[n].controlled_nodes
          /\ links[n].dependency_nodes = s.data[n].dependency_nodes
          /\ links[n].dependency_nodes_end = s.data[n].dependency_nodes_end
    BY <1>1 DEF NodeData
  <2>7. /\ slots \in Seq(Nodes \cup {Nobody}) /\ Len(slots) = L
        /\ \A i \in 1 .. L : slots[i] = IF generate THEN s.node_data[i] ELSE Nobody
    BY <1>1
  <2> HIDE DEF slots, links
  <2>8. /\ r \in Scene
        /\ SameMode(r, s) /\ SameLists(r, s) /\ SameServices(r, s) /\ r.skipped = s.skipped
        /\ r.organized_node_data = slots /\ r.data = links /\ r.renamed = FALSE
    BY <2>1, <2>5, <2>7 DEF Scene, SameMode, SameLists, SameServices
  <2> HIDE DEF r, L
  <2>9. Slotted(r)
    BY <1>2, <2>7, <2>8 DEF Slotted
  <2>10. Registered(r) = Registered(s)
    BY <2>8 DEF SameLists, Registered
  <2>11. generate => \A n \in Registered(r) : r.data[n].id \in 0 .. Len(r.organized_node_data) - 1
    <3>1. Registered(s) \subseteq Nodes
      BY ListedType
    <3> QED BY <2>2, <2>6, <2>7, <2>8, <2>10, <3>1
  <2>12. Named(r)
    <3> SUFFICES ASSUME NEW n \in Nodes, NEW i \in 0 .. MaxIds
                 PROVE  NodeWithId(r, i) = n <=> n \in Registered(s) /\ id(n) = i
      BY <2>6, <2>8, <2>10 DEF Named
    <3>1. NodeWithId(r, i) = IF i \in 0 .. L - 1 THEN slots[i + 1] ELSE Nobody
      BY <2>7, <2>8 DEF NodeWithId
    <3>2. Nobody \notin Nodes /\ NoId \notin 0 .. MaxIds
      BY NodesAssumption, IdsAssumption
    <3>3. i \in 0 .. L - 1 => i + 1 \in 1 .. L
      BY <1>2
    <3>4. CASE ~ generate
      BY <2>3, <2>7, <3>1, <3>2, <3>3, <3>4
    <3>5. CASE generate /\ n \in Registered(s)
      BY <2>2, <2>7, <3>1, <3>2, <3>3, <3>5
    <3>6. CASE generate /\ n \notin Registered(s)
      <4>1. \A j \in 1 .. L : s.node_data[j] \in Registered(s)
        BY <1>1 DEF Registered, ToSet, L
      <4> QED BY <2>3, <2>7, <3>1, <3>2, <3>3, <3>6, <4>1
    <3> QED BY <3>4, <3>5, <3>6
  <2> QED BY <1>4, <2>6, <2>8, <2>9, <2>11, <2>12 DEF r
<1> QED BY <1>3, <1>4

LEMMA ResetModeGood ==
  ASSUME NEW s, Sound(s), s.in_tree, network \in Networks
  PROVE  /\ Good(ResetMode(s), network)
         /\ SettledOn(ResetMode(s), network) /\ Listed(ResetMode(s)) = Listed(s)
<1> DEFINE generate == Kind[network] /= "CLIENT"
           t == IdsAfterMode(s, generate)
           chosen == [t EXCEPT !.synchronizer_type = Kind[network], !.peer_ptr = network,
                               !.generate_id = generate, !.player = Nobody]
           r == ResetControllers(chosen)
<1>1. Kind[network] \in {"NONETWORK", "SERVER", "CLIENT"} /\ generate \in BOOLEAN
  BY NetworksAssumption
<1>2. ResetMode(s) = r
  BY DEF ResetMode
<1>3. s \in Scene /\ Lists(s) /\ s.generate_id \in BOOLEAN
  BY SceneType DEF Sound
<1> HIDE DEF generate
<1>4. /\ t \in Scene
      /\ SameMode(t, s) /\ SameLists(t, s) /\ SameServices(t, s) /\ t.skipped = s.skipped
      /\ \A n \in Nodes :
           /\ t.data[n].controlled_by = s.data[n].controlled_by
           /\ t.data[n].controlled_nodes = s.data[n].controlled_nodes
           /\ t.data[n].dependency_nodes = s.data[n].dependency_nodes
           /\ t.data[n].dependency_nodes_end = s.data[n].dependency_nodes_end
  BY <1>1, <1>3, IdsAfterModeFields
<1>5. /\ s.generate_id = generate =>
           SameIds(t, s) /\ \A n \in Nodes : t.data[n].id = s.data[n].id
      /\ s.generate_id /= generate =>
           Slotted(t) /\ ~ t.renamed /\ Named(t)
           /\ (generate => \A n \in Registered(t) :
                             t.data[n].id \in 0 .. Len(t.organized_node_data) - 1)
  BY <1>1, <1>3, IdsAfterModeFields
<1> HIDE DEF t
<1>6. /\ chosen \in Scene
      /\ chosen.in_tree = t.in_tree /\ chosen.synchronizer_type = Kind[network]
      /\ chosen.peer_ptr = network /\ chosen.generate_id = generate /\ chosen.player = Nobody
      /\ SameLists(chosen, t) /\ SameIds(chosen, t) /\ chosen.data = t.data
      /\ chosen.skipped = t.skipped /\ chosen.character = t.character
  BY <1>1, <1>4 DEF Scene, SameLists, SameIds
<1> HIDE DEF chosen
<1>7. chosen.in_tree
  BY <1>4, <1>6 DEF SameMode
<1>8. ResetShape(r, chosen, Listed(chosen))
  BY <1>6, <1>7, ResetControllersFields
<1> HIDE DEF r
<1>9. /\ r \in Scene
      /\ Listed(r) = Listed(s) /\ Registered(r) = Registered(s)
      /\ r.node_data = s.node_data /\ r.node_data_controllers = s.node_data_controllers
      /\ r.data = t.data /\ r.skipped = s.skipped
      /\ r.organized_node_data = t.organized_node_data /\ r.renamed = t.renamed
      /\ r.in_tree /\ r.synchronizer_type = Kind[network] /\ r.peer_ptr = network
      /\ r.generate_id = generate
      /\ Listed(chosen) = Listed(s) /\ Registered(t) = Registered(s)
  BY <1>4, <1>6, <1>7, <1>8 DEF ResetShape, SameMode, SameLists, SameIds, Listed, Registered
<1>10. /\ \A c \in Controllers :
            r.character[c].has_scene_synchronizer = s.character[c].has_scene_synchronizer
       /\ Fit(r, network, Listed(r)) /\ r.player \in Listed(r) \cup {Nobody}
       /\ \A c \in Listed(r) : r.character[c].peers = {}
       /\ Listed(r) /= {} => r.peer_dirty
  BY <1>4, <1>6, <1>8, <1>9 DEF ResetShape, SameServices
<1>11. Lists(r)
  BY <1>3, <1>9 DEF Lists
<1>12. Mutual(r) /\ Linked(r)
  BY <1>4, <1>9 DEF Sound, Mutual, Linked
<1>13. Owned(r)
  BY <1>9, <1>10 DEF Sound, Owned
<1>14. Known(r)
  BY <1>10 DEF Known
<1>15. \A i : NodeWithId(r, i) = NodeWithId(t, i)
  BY <1>9 DEF NodeWithId
<1>16. Registered(s) \subseteq Nodes
  BY <1>3, ListedType
<1>17. Slotted(r) /\ (r.renamed \/ Named(r)) /\ Numbered(r)
  <2>1. CASE s.generate_id = generate
    <3>1. SameIds(t, s) /\ \A n \in Nodes : t.data[n].id = s.data[n].id
      BY <1>5, <2>1
    <3>2. \A i : NodeWithId(t, i) = NodeWithId(s, i)
      BY <3>1 DEF SameIds, NodeWithId
    <3> QED BY <1>9, <1>15, <1>16, <2>1, <3>1, <3>2
               DEF Sound, Slotted, Named, Numbered, SameIds
  <2>2. CASE s.generate_id /= generate
    <3>1. Slotted(t) /\ ~ t.renamed /\ Named(t)
          /\ (generate => \A n \in Registered(t) :
                            t.data[n].id \in 0 .. Len(t.organized_node_data) - 1)
      BY <1>5, <2>2
    <3> QED BY <1>9, <1>15, <3>1 DEF Slotted, Named, Numbered
  <2> QED BY <2>1, <2>2
<1>18. Modes(r)
  BY <1>9 DEF Modes, generate
<1>19. ServedOn(r, network)
  BY <1>10 DEF ServedOn, Served
<1>20. FitOn(r, network)
  BY <1>10 DEF FitOn
<1>21. SettledOn(r, network)
  BY <1>9 DEF SettledOn
<1> QED BY <1>2, <1>9, <1>11, <1>12, <1>13, <1>14, <1>17, <1>18, <1>19, <1>20, <1>21
        DEF Good, Sound

\* A scene that is cleared is sound.
LEMMA ClearSound ==
  ASSUME NEW s, NEW r, ClearShape(r, s)
  PROVE  Sound(r) /\ Listed(r) = {} /\ Registered(r) = {}
<1>1. /\ r \in Scene /\ r.node_data = <<>> /\ r.organized_node_data = <<>>
      /\ r.node_data_controllers = <<>> /\ r.player = Nobody /\ ~ r.renamed
      /\ \A n \in Nodes : r.data[n] = NewNodeData
  BY DEF ClearShape
<1>2. Listed(r) = {} /\ Registered(r) = {} /\ Lists(r)
  BY <1>1, EmptySequence DEF Listed, Registered, Lists
<1>3. \A i : NodeWithId(r, i) = Nobody
  BY <1>1, EmptySequence DEF NodeWithId
<1>4. /\ NewNodeData.controlled_by = Nobody /\ NewNodeData.controlled_nodes = {}
      /\ NewNodeData.dependency_nodes = {} /\ NewNodeData.dependency_nodes_end = {}
  BY DEF NewNodeData
<1>5. Nobody \notin Nodes
  BY NodesAssumption
<1>6. Mutual(r) /\ Linked(r)
  BY <1>1, <1>4, <1>5 DEF Mutual, Linked
<1>7. Owned(r)
  BY <1>2 DEF ClearShape, HeldIsListed, Owned
<1>8. Slotted(r) /\ Named(r) /\ Numbered(r)
  BY <1>1, <1>2, <1>3, <1>5, EmptySequence, RegistryBoundsAssumption DEF Slotted, Named, Numbered
<1>9. Known(r)
  BY <1>1, <1>2 DEF Known
<1> QED BY <1>1, <1>2, <1>6, <1>7, <1>8, <1>9 DEF Sound

LEMMA ClearGood ==
  ASSUME NEW w, NEW s, Good(s, w)
  PROVE  Good(Clear(s), w)
<1> DEFINE r == Clear(s)
<1>1. s \in Scene /\ Lists(s) /\ HeldIsListed(s)
  BY DEF Good, Sound, Owned, HeldIsListed
<1>2. ClearShape(r, s)
  BY <1>1, ClearFields
<1> HIDE DEF r
<1>3. Sound(r) /\ Listed(r) = {}
  BY <1>2, ClearSound
<1>4. Modes(r)
  BY <1>2 DEF ClearShape, SameMode, Good, Modes
<1>5. ServedOn(r, w) /\ FitOn(r, w)
  BY <1>3 DEF ServedOn, Served, FitOn, Fit
<1> QED BY <1>3, <1>4, <1>5 DEF Good, r

-----------------------------------------------------------------------------
(* The peers. *)

\* The data of the peers, as a function.
LEMMA PeerDataType ==
  ASSUME NEW s \in Scene
  PROVE  /\ DOMAIN s.peer_data \subseteq Peers
         /\ \A p \in DOMAIN s.peer_data : s.peer_data[p] \in PeerData
         /\ s.peer_data = [p \in DOMAIN s.peer_data |-> s.peer_data[p]]
<1>1. PICK P \in SUBSET Peers : s.peer_data \in [P -> PeerData]
  BY SceneType
<1> QED BY <1>1

\* A step that only changes whom the controllers serve.
ServiceShape(r, s) ==
  /\ r \in Scene
  /\ SameMode(r, s) /\ SameLists(r, s) /\ SameIds(r, s)
  /\ r.data = s.data /\ r.skipped = s.skipped /\ r.player = s.player
  /\ \A c \in Controllers :
       /\ r.character[c].has_scene_synchronizer = s.character[c].has_scene_synchronizer
       /\ r.character[c].controller_type = s.character[c].controller_type
  /\ \A c \in Listed(s) : r.character[c].peers \subseteq DOMAIN r.peer_data

LEMMA ServicesOnly ==
  ASSUME NEW w, NEW s, Good(s, w), NEW r, ServiceShape(r, s), ServedOn(r, w)
  PROVE  Good(r, w)
<1>1. /\ Registered(r) = Registered(s) /\ Listed(r) = Listed(s)
      /\ \A i : NodeWithId(r, i) = NodeWithId(s, i)
  BY DEF ServiceShape, SameLists, SameIds, Registered, Listed, NodeWithId
<1>2. Listed(s) \subseteq Controllers /\ Registered(s) \subseteq Nodes
  BY ListedType DEF Good, Sound
<1>3. Lists(r) /\ Mutual(r) /\ Linked(r) /\ Owned(r)
  BY <1>1 DEF ServiceShape, Good, Sound, Lists, SameLists, Mutual, Linked, Owned
<1>4. Slotted(r) /\ (r.renamed \/ Named(r)) /\ Numbered(r)
  BY <1>1 DEF ServiceShape, Good, Sound, Slotted, Named, Numbered, SameIds, SameMode
<1>5. Known(r)
  BY <1>1 DEF ServiceShape, Good, Sound, Known
<1>6. Modes(r)
  BY DEF ServiceShape, Good, Modes, SameMode
<1>7. FitOn(r, w)
  BY <1>1, <1>2 DEF ServiceShape, Good, FitOn, Fit, SettledOn, SameMode
<1> QED BY <1>3, <1>4, <1>5, <1>6, <1>7 DEF Good, Sound, ServiceShape

LEMMA ConnectGood ==
  ASSUME NEW w, NEW s, Good(s, w), NEW P \in SUBSET Peers
  PROVE  Good(Connect(s, P), w)
<1> DEFINE D == P \cup DOMAIN s.peer_data
           pd == [p \in D |-> IF p \in P THEN NewPeerData ELSE s.peer_data[p]]
           r == [s EXCEPT !.peer_data = pd, !.peer_dirty = @ \/ P /= {}]
<1>1. s \in Scene /\ s.peer_dirty \in BOOLEAN
  BY SceneType DEF Good, Sound
<1>2. Connect(s, P) = r
  BY DEF Connect
<1>3. /\ DOMAIN s.peer_data \subseteq Peers
      /\ \A p \in DOMAIN s.peer_data : s.peer_data[p] \in PeerData
      /\ s.peer_data = [p \in DOMAIN s.peer_data |-> s.peer_data[p]]
  BY <1>1, PeerDataType
<1>4. NewPeerData \in PeerData
  BY DEF NewPeerData, PeerData
<1>5. D \in SUBSET Peers /\ pd \in [D -> PeerData] /\ DOMAIN s.peer_data \subseteq D
  BY <1>3, <1>4
<1>6. P = {} => pd = s.peer_data
  BY <1>3
<1> HIDE DEF pd, D
<1>7. pd \in UNION {[Q -> PeerData] : Q \in SUBSET Peers} /\ DOMAIN pd = D
  BY <1>5
<1>8. /\ r \in Scene /\ r.peer_data = pd /\ r.peer_dirty = (s.peer_dirty \/ P /= {})
      /\ SameMode(r, s) /\ SameLists(r, s) /\ SameIds(r, s)
      /\ r.data = s.data /\ r.skipped = s.skipped /\ r.player = s.player
      /\ r.character = s.character
  BY <1>1, <1>7 DEF Scene, SameMode, SameLists, SameIds
<1> HIDE DEF r
<1>9. ServiceShape(r, s)
  BY <1>5, <1>7, <1>8 DEF ServiceShape, Good, Sound, Known
<1>10. ServedOn(r, w)
  <2> SUFFICES ASSUME SettledOn(r, w), r.synchronizer_type = "SERVER", ~ r.peer_dirty
               PROVE  Served(r)
    BY DEF ServedOn
  <2>1. Served(s) /\ P = {}
    BY <1>8 DEF Good, ServedOn, SettledOn, SameMode
  <2>2. Listed(r) = Listed(s) /\ \A i : NodeWithId(r, i) = NodeWithId(s, i)
    BY <1>8 DEF SameLists, SameIds, Listed, NodeWithId
  <2> QED BY <1>6, <1>8, <2>1, <2>2 DEF Served
<1> QED BY <1>2, <1>9, <1>10, ServicesOnly

LEMMA DisconnectGood ==
  ASSUME NEW w, NEW s, Good(s, w), NEW p \in Peers
  PROVE  Good(Disconnect(s, p), w)
<1> DEFINE D == DOMAIN s.peer_data \ {p}
           pd == [q \in D |-> s.peer_data[q]]
           char == [c \in Controllers |->
             IF c \in Listed(s) THEN [s.character[c] EXCEPT !.peers = @ \ {p}] ELSE s.character[c]]
           r == [s EXCEPT !.peer_data = pd, !.character = char]
<1>1. s \in Scene /\ s.character \in [Controllers -> Character]
  BY SceneType DEF Good, Sound
<1>2. Disconnect(s, p) = r
  BY DEF Disconnect
<1>3. /\ DOMAIN s.peer_data \subseteq Peers
      /\ \A q \in DOMAIN s.peer_data : s.peer_data[q] \in PeerData
  BY <1>1, PeerDataType
<1>4. D \in SUBSET Peers /\ pd \in [D -> PeerData] /\ D \subseteq DOMAIN s.peer_data
  BY <1>3
<1>5. \A q \in D : pd[q] = s.peer_data[q]
  OBVIOUS
<1>6. /\ char \in [Controllers -> Character]
      /\ \A c \in Controllers :
           /\ char[c].has_scene_synchronizer = s.character[c].has_scene_synchronizer
           /\ char[c].controller_type = s.character[c].controller_type
           /\ char[c].enabled = s.character[c].enabled
           /\ char[c].peers = IF c \in Listed(s) THEN s.character[c].peers \ {p}
                              ELSE s.character[c].peers
  <2>1. ASSUME NEW c \in Controllers
        PROVE  /\ char[c] \in Character
               /\ char[c].has_scene_synchronizer = s.character[c].has_scene_synchronizer
               /\ char[c].controller_type = s.character[c].controller_type
               /\ char[c].enabled = s.character[c].enabled
               /\ char[c].peers = IF c \in Listed(s) THEN s.character[c].peers \ {p}
                                  ELSE s.character[c].peers
    BY <1>1 DEF Character
  <2>2. char = [c \in Controllers |-> char[c]]
    OBVIOUS
  <2> HIDE DEF char
  <2> QED BY <2>1, <2>2
<1>7. Listed(s) \subseteq Controllers /\ Listed(s) \subseteq Nodes
  BY <1>1, ListedType
<1>8. \A q : q \in D <=> q \in DOMAIN s.peer_data /\ q /= p
  OBVIOUS
<1> HIDE DEF pd, D, char
<1>9. pd \in UNION {[Q -> PeerData] : Q \in SUBSET Peers} /\ DOMAIN pd = D
  BY <1>4
<1>10. /\ r \in Scene /\ r.peer_data = pd /\ r.peer_dirty = s.peer_dirty
       /\ SameMode(r, s) /\ SameLists(r, s) /\ SameIds(r, s)
       /\ r.data = s.data /\ r.skipped = s.skipped /\ r.player = s.player
       /\ r.character = char
  BY <1>1, <1>6, <1>9 DEF Scene, SameMode, SameLists, SameIds
<1> HIDE DEF r
<1>11. \A c \in Listed(s) : r.character[c].peers \subseteq DOMAIN r.peer_data
  <2> SUFFICES ASSUME NEW c \in Listed(s) PROVE char[c].peers \subseteq D
    BY <1>9, <1>10
  <2>1. s.character[c].peers \subseteq DOMAIN s.peer_data
    BY DEF Good, Sound, Known
  <2> QED BY <1>6, <1>7, <1>8, <2>1
<1>12. ServiceShape(r, s)
  BY <1>6, <1>10, <1>11 DEF ServiceShape
<1>13. ServedOn(r, w)
  <2> SUFFICES ASSUME SettledOn(r, w), r.synchronizer_type = "SERVER", ~ r.peer_dirty
               PROVE  Served(r)
    BY DEF ServedOn
  <2>1. Served(s)
    BY <1>10 DEF Good, ServedOn, SettledOn, SameMode
  <2>2. Listed(r) = Listed(s) /\ \A i : NodeWithId(r, i) = NodeWithId(s, i)
    BY <1>10 DEF SameLists, SameIds, Listed, NodeWithId
  <2>3. DOMAIN r.peer_data = D /\ \A q \in D : r.peer_data[q] = s.peer_data[q] /\ q /= p
    BY <1>5, <1>8, <1>9, <1>10
  <2>4. \A c \in Listed(s) : /\ r.data[c].id = s.data[c].id
                             /\ r.character[c].enabled = s.character[c].enabled
                             /\ \A q \in D : q \in r.character[c].peers <=> q \in s.character[c].peers
    BY <1>6, <1>7, <1>10, <2>3
  <2> QED BY <1>4, <1>7, <2>1, <2>2, <2>3, <2>4, ServedIsKept
<1> QED BY <1>2, <1>12, <1>13, ServicesOnly

LEMMA EnableGood ==
  ASSUME NEW w, NEW s, Good(s, w), NEW p \in DOMAIN s.peer_data, NEW e \in BOOLEAN
  PROVE  Good([s EXCEPT !.peer_data[p].enabled = e, !.peer_dirty = TRUE], w)
<1> DEFINE pd == [s.peer_data EXCEPT ![p].enabled = e]
           r == [s EXCEPT !.peer_data[p].enabled = e, !.peer_dirty = TRUE]
<1>1. s \in Scene
  BY DEF Good, Sound
<1>2. r = [s EXCEPT !.peer_data = pd, !.peer_dirty = TRUE]
  BY <1>1 DEF Scene
<1>3. PICK P \in SUBSET Peers : s.peer_data \in [P -> PeerData]
  BY <1>1, SceneType
<1>4. pd \in [P -> PeerData] /\ DOMAIN pd = DOMAIN s.peer_data
  BY <1>3 DEF PeerData
<1> HIDE DEF pd, r
<1>5. pd \in UNION {[Q -> PeerData] : Q \in SUBSET Peers}
  BY <1>4
<1>6. /\ r \in Scene /\ r.peer_data = pd /\ r.peer_dirty = TRUE
      /\ SameMode(r, s) /\ SameLists(r, s) /\ SameIds(r, s)
      /\ r.data = s.data /\ r.skipped = s.skipped /\ r.player = s.player
      /\ r.character = s.character
  BY <1>1, <1>2, <1>5 DEF Scene, SameMode, SameLists, SameIds
<1>7. ServiceShape(r, s)
  BY <1>4, <1>6 DEF ServiceShape, Good, Sound, Known
<1>8. ServedOn(r, w)
  BY <1>6 DEF ServedOn
<1> QED BY <1>7, <1>8, ServicesOnly DEF r

\* The first controller of a peer is its own, and there is one if it has any.
LEMMA OwnControllerIsFirst ==
  ASSUME NEW s \in Scene, NEW p
  PROVE  /\ \/ OwnController(s, p) = Nobody
            \/ OwnController(s, p) \in Listed(s) /\ Owner[OwnController(s, p)] = p
         /\ OwnController(s, p) = Nobody => \A c \in Listed(s) : Owner[c] /= p
<1> DEFINE list == s.node_data_controllers
           I == {i \in 1 .. Len(list) : Owner[list[i]] = p}
           i == SelectInSeq(list, LAMBDA c : Owner[c] = p)
<1>1. list \in Seq(Controllers) /\ Len(list) \in Nat /\ DOMAIN list = 1 .. Len(list)
  BY SceneType
<1>2. i = IF I # {} THEN Min(I) ELSE 0
  BY DEF SelectInSeq
<1>3. OwnController(s, p) = IF i = 0 THEN Nobody ELSE list[i]
  BY DEF OwnController
<1>4. Nobody \notin Listed(s)
  BY ListedType
<1>5. \A j \in 1 .. Len(list) : list[j] \in Listed(s)
  BY <1>1 DEF Listed, ToSet
<1>6. \A c \in Listed(s) : \E j \in 1 .. Len(list) : list[j] = c
  BY <1>1 DEF Listed, ToSet
<1> HIDE DEF i, list
<1>7. CASE I = {}
  <2>1. i = 0
    BY <1>2, <1>7
  <2>2. ASSUME NEW c \in Listed(s), Owner[c] = p PROVE FALSE
    <3>1. PICK j \in 1 .. Len(list) : list[j] = c
      BY <1>6
    <3>2. j \in I
      BY <2>2, <3>1
    <3> QED BY <1>7, <3>2
  <2>3. OwnController(s, p) = Nobody
    BY <1>3, <2>1
  <2> HIDE DEF I
  <2>4. \A c \in Listed(s) : Owner[c] /= p
    BY <2>2
  <2> QED BY <2>3, <2>4
<1>8. CASE I /= {}
  <2>1. Min(I) \in I
    BY <1>1, <1>8, FirstOfPositions
  <2>2. i \in 1 .. Len(list) /\ Owner[list[i]] = p
    BY <1>2, <1>8, <2>1
  <2>3. i /= 0
    BY <1>1, <2>2
  <2> QED BY <1>3, <1>4, <1>5, <2>2, <2>3
<1> QED BY <1>7, <1>8

\* The ids update_peers gives name the peers' own controllers.
LEMMA ControllerIdIsOwn ==
  ASSUME NEW s, Sound(s), s.generate_id, NEW p \in DOMAIN s.peer_data
  PROVE  /\ ControllerIdOf(s, p) \in 0 .. MaxIds \cup {NoId}
         /\ \A c \in Listed(s) : ControllerIdOf(s, p) = s.data[c].id => Owner[c] = p
         /\ (\E c \in Listed(s) : Owner[c] = p) =>
              /\ NodeWithId(s, ControllerIdOf(s, p)) \in Listed(s)
              /\ Owner[NodeWithId(s, ControllerIdOf(s, p))] = p
<1> DEFINE i == s.peer_data[p].controller_id
           n == NodeWithId(s, i)
           o == OwnController(s, p)
           L == Len(s.organized_node_data)
<1>1. /\ s \in Scene /\ Lists(s) /\ Named(s)
      /\ \A m \in Registered(s) : s.data[m].id \in 0 .. L - 1
      /\ L <= MaxIds + 1
  BY DEF Sound, Numbered, Slotted
<1>2. L \in Nat /\ (n \in Nodes => i \in 0 .. L - 1)
  BY <1>1, SlotType
<1>3. /\ MaxIds \in Nat /\ NoId \notin 0 .. MaxIds
      /\ Controllers \subseteq Nodes /\ Nobody \notin Nodes /\ Listed(s) \subseteq Controllers
  BY <1>1, ListedType, RegistryBoundsAssumption, IdsAssumption
<1>4. \A j \in 0 .. L - 1 : j \in 0 .. MaxIds
  BY <1>1, <1>2, <1>3
<1>5. i \in 0 .. MaxIds \cup {NoId}
  BY <1>1, PeerDataType DEF PeerData
<1>6. \A c \in Listed(s) : c \in Nodes /\ c \in Registered(s) /\ s.data[c].id \in 0 .. MaxIds
                           /\ NodeWithId(s, s.data[c].id) = c
  BY <1>1, <1>3, <1>4 DEF Lists, Named
<1>7. ControllerIdOf(s, p) = IF n \in Controllers /\ Owner[n] = p THEN i
                             ELSE IF o = Nobody THEN NoId ELSE s.data[o].id
  BY DEF ControllerIdOf, OwnControllerId
<1>8. n \in Controllers => n \in Listed(s)
  <2> SUFFICES ASSUME n \in Controllers PROVE n \in Listed(s)
    OBVIOUS
  <2>1. n \in Nodes /\ i \in 0 .. MaxIds
    BY <1>2, <1>3, <1>4
  <2>2. n \in Registered(s)
    BY <1>1, <2>1 DEF Named
  <2> QED BY <1>1, <2>2 DEF Lists
<1>9. /\ o = Nobody \/ (o \in Listed(s) /\ Owner[o] = p)
      /\ o = Nobody => \A c \in Listed(s) : Owner[c] /= p
  BY <1>1, OwnControllerIsFirst
<1> HIDE DEF o, L
<1>10. CASE n \in Controllers /\ Owner[n] = p
  BY <1>5, <1>6, <1>7, <1>8, <1>10
<1>11. CASE ~ (n \in Controllers /\ Owner[n] = p) /\ o = Nobody
  BY <1>3, <1>6, <1>7, <1>9, <1>11
<1>12. CASE ~ (n \in Controllers /\ Owner[n] = p) /\ o /= Nobody
  BY <1>6, <1>7, <1>9, <1>12
<1> QED BY <1>10, <1>11, <1>12

LEMMA UpdatePeersGood ==
  ASSUME NEW w, NEW s, Good(s, w), s.in_tree, s.synchronizer_type = "SERVER"
  PROVE  Good(UpdatePeers(s), w)
<1> DEFINE D == DOMAIN s.peer_data
           ids == [p \in D |-> ControllerIdOf(s, p)]
           others(c) == {p \in D : ids[p] /= s.data[c].id}
           on == {p \in D : s.peer_data[p].enabled}
           served(c) == (s.character[c].peers \ (others(c) \ on))
                          \cup ((others(c) \cap on) \ {Owner[c]})
           mine(c) == D \ others(c)
           pd == [p \in D |-> [s.peer_data[p] EXCEPT !.controller_id = ids[p]]]
           char == [c \in Controllers |->
             IF c \notin Listed(s) THEN s.character[c]
             ELSE [s.character[c] EXCEPT
               !.peers = served(c),
               !.enabled = IF mine(c) = {} THEN @ ELSE mine(c) \subseteq on]]
           r == [s EXCEPT !.peer_dirty = FALSE, !.peer_data = pd, !.character = char]
<1>1. s \in Scene /\ Sound(s) /\ s.generate_id
  BY DEF Good, Sound, Modes
<1>2. s.character \in [Controllers -> Character] /\ s.data \in [Nodes -> NodeData]
  BY <1>1, SceneType
<1>3. UpdatePeers(s) = IF ~ s.peer_dirty THEN s ELSE r
  BY DEF UpdatePeers
<1>4. CASE ~ s.peer_dirty
  BY <1>3, <1>4
<1>5. CASE s.peer_dirty
  <2>1. D \subseteq Peers /\ \A p \in D : s.peer_data[p] \in PeerData
    BY <1>1, PeerDataType
  <2>2. ASSUME NEW p \in D
        PROVE  /\ ids[p] \in 0 .. MaxIds \cup {NoId}
               /\ \A c \in Listed(s) : ids[p] = s.data[c].id => Owner[c] = p
               /\ (\E c \in Listed(s) : Owner[c] = p) =>
                    NodeWithId(s, ids[p]) \in Listed(s) /\ Owner[NodeWithId(s, ids[p])] = p
    BY <1>1, ControllerIdIsOwn
  <2>3. Listed(s) \subseteq Controllers /\ Listed(s) \subseteq Nodes
    BY <1>1, ListedType
  <2> HIDE DEF ids
  <2>4. /\ pd \in [D -> PeerData]
        /\ \A p \in D : pd[p].controller_id = ids[p] /\ pd[p].enabled = s.peer_data[p].enabled
    BY <2>1, <2>2 DEF PeerData
  <2>5. \A c \in Listed(s) : served(c) \subseteq D
    BY <1>1 DEF Sound, Known
  <2>6. /\ char \in [Controllers -> Character]
        /\ \A c \in Controllers :
             /\ char[c].has_scene_synchronizer = s.character[c].has_scene_synchronizer
             /\ char[c].controller_type = s.character[c].controller_type
        /\ \A c \in Listed(s) :
             /\ char[c].peers = served(c)
             /\ mine(c) /= {} => char[c].enabled = (mine(c) \subseteq on)
    <3> HIDE DEF served, mine, on
    <3>1. ASSUME NEW c \in Controllers
          PROVE  /\ char[c] \in Character
                 /\ char[c].has_scene_synchronizer = s.character[c].has_scene_synchronizer
                 /\ char[c].controller_type = s.character[c].controller_type
                 /\ c \in Listed(s) =>
                      /\ char[c].peers = served(c)
                      /\ mine(c) /= {} => char[c].enabled = (mine(c) \subseteq on)
      <4>1. c \in Listed(s) => served(c) \subseteq Peers
        BY <2>1, <2>5
      <4>2. s.character[c] \in Character
        BY <1>2
      <4>3. CASE c \notin Listed(s)
        BY <4>2, <4>3
      <4>4. CASE c \in Listed(s)
        <5> DEFINE b == IF mine(c) = {} THEN s.character[c].enabled ELSE mine(c) \subseteq on
        <5>1. char[c] = [s.character[c] EXCEPT !.peers = served(c), !.enabled = b]
          BY <4>4
        <5>2. b \in BOOLEAN
          BY <4>2 DEF Character
        <5>3. mine(c) /= {} => b = (mine(c) \subseteq on)
          OBVIOUS
        <5> HIDE DEF b, char
        <5> QED BY <4>1, <4>2, <4>4, <5>1, <5>2, <5>3 DEF Character
      <4> QED BY <4>3, <4>4
    <3>2. char = [c \in Controllers |-> char[c]]
      OBVIOUS
    <3> HIDE DEF char
    <3> QED BY <2>3, <3>1, <3>2
  <2> HIDE DEF pd, char, D
  <2>7. pd \in UNION {[Q -> PeerData] : Q \in SUBSET Peers} /\ DOMAIN pd = D
    BY <2>1, <2>4
  <2>8. /\ r \in Scene /\ r.peer_data = pd
        /\ SameMode(r, s) /\ SameLists(r, s) /\ SameIds(r, s)
        /\ r.data = s.data /\ r.skipped = s.skipped /\ r.player = s.player
        /\ r.character = char
    BY <1>1, <2>6, <2>7 DEF Scene, SameMode, SameLists, SameIds
  <2> HIDE DEF r
  <2>9. ServiceShape(r, s)
    BY <2>5, <2>6, <2>7, <2>8 DEF ServiceShape
  <2>10. Listed(r) = Listed(s) /\ \A i : NodeWithId(r, i) = NodeWithId(s, i)
    BY <2>8 DEF SameLists, SameIds, Listed, NodeWithId
  <2>11. ASSUME NEW p \in D, NEW c \in Listed(s), Owner[c] = p
         PROVE  /\ NodeWithId(s, pd[p].controller_id) \in Listed(s)
                /\ Owner[NodeWithId(s, pd[p].controller_id)] = p
                /\ s.data[c].id = pd[p].controller_id => char[c].enabled = pd[p].enabled
    <3>1. NodeWithId(s, ids[p]) \in Listed(s) /\ Owner[NodeWithId(s, ids[p])] = p
      BY <2>2, <2>11
    <3>2. ASSUME s.data[c].id = ids[p] PROVE char[c].enabled = s.peer_data[p].enabled
      <4>1. mine(c) = {p}
        BY <2>2, <2>11, <3>2
      <4>2. char[c].enabled = ({p} \subseteq on)
        BY <2>6, <4>1
      <4>3. s.peer_data[p].enabled \in BOOLEAN
        BY <2>1 DEF PeerData
      <4>4. ({p} \subseteq on) = s.peer_data[p].enabled
        BY <4>3
      <4> QED BY <4>2, <4>4
    <3> QED BY <2>4, <3>1, <3>2
  <2>12. ASSUME NEW p \in D, NEW c \in Listed(s), Owner[c] /= p
         PROVE  p \in char[c].peers <=> pd[p].enabled
    <3>1. p \in others(c)
      BY <2>2, <2>12
    <3>2. p \in on <=> pd[p].enabled
      BY <2>4
    <3>3. p \in served(c) <=> p \in on
      BY <2>12, <3>1
    <3> QED BY <2>6, <3>2, <3>3
  <2>13. Served(r)
    BY <2>7, <2>8, <2>10, <2>11, <2>12 DEF Served
  <2>14. ServedOn(r, w)
    BY <2>13 DEF ServedOn
  <2> QED BY <1>3, <1>5, <2>9, <2>14, ServicesOnly DEF r
<1> QED BY <1>4, <1>5

-----------------------------------------------------------------------------
(* The dependencies, the control of a character, and the ids of a client. *)

\* The dependencies may be any nodes that are registered and no controllers.
LEMMA DependenciesGood ==
  ASSUME NEW w, NEW s, Good(s, w), NEW links \in [Nodes -> NodeData],
         \A m \in Nodes :
           /\ links[m].id = s.data[m].id
           /\ links[m].controlled_by = s.data[m].controlled_by
           /\ links[m].controlled_nodes = s.data[m].controlled_nodes
           /\ links[m].dependency_nodes \subseteq Registered(s) \ Controllers
           /\ links[m].dependency_nodes_end \subseteq links[m].dependency_nodes
  PROVE  Good([s EXCEPT !.data = links], w)
<1> DEFINE r == [s EXCEPT !.data = links]
<1>1. s \in Scene
  BY DEF Good, Sound
<1>2. /\ r \in Scene /\ r.data = links
      /\ SameMode(r, s) /\ SameLists(r, s) /\ SameIds(r, s) /\ SameServices(r, s)
      /\ r.skipped = s.skipped
  BY <1>1 DEF Scene, SameMode, SameLists, SameIds, SameServices
<1> HIDE DEF r
<1>3. Registered(r) = Registered(s) /\ Listed(r) = Listed(s)
  BY <1>2 DEF SameLists, Registered, Listed
<1>4. Mutual(r)
  <2> SUFFICES ASSUME NEW n \in Nodes, NEW c \in Nodes
               PROVE  links[n].controlled_by = c <=> n \in links[c].controlled_nodes
    BY <1>2 DEF Mutual
  <2>1. s.data[n].controlled_by = c <=> n \in s.data[c].controlled_nodes
    BY DEF Good, Sound, Mutual
  <2>2. /\ links[n].controlled_by = s.data[n].controlled_by
        /\ links[c].controlled_nodes = s.data[c].controlled_nodes
    OBVIOUS
  <2> QED BY <2>1, <2>2
<1>5. Linked(r)
  <2> SUFFICES ASSUME NEW m \in Nodes
               PROVE  /\ links[m].controlled_by \in Listed(s) \cup {Nobody}
                      /\ links[m].dependency_nodes \subseteq Registered(s) \ Controllers
                      /\ links[m].controlled_nodes \subseteq Registered(s) \ Controllers
                      /\ links[m].dependency_nodes_end \subseteq links[m].dependency_nodes
    BY <1>2, <1>3 DEF Linked
  <2>1. /\ s.data[m].controlled_by \in Listed(s) \cup {Nobody}
        /\ s.data[m].controlled_nodes \subseteq Registered(s) \ Controllers
    BY DEF Good, Sound, Linked
  <2>2. /\ links[m].controlled_by = s.data[m].controlled_by
        /\ links[m].controlled_nodes = s.data[m].controlled_nodes
        /\ links[m].dependency_nodes \subseteq Registered(s) \ Controllers
        /\ links[m].dependency_nodes_end \subseteq links[m].dependency_nodes
    OBVIOUS
  <2> QED BY <2>1, <2>2
<1>6. \A m \in Nodes : r.data[m].id = s.data[m].id
  BY <1>2
<1>7. Good(r, w)
  BY <1>2, <1>4, <1>5, <1>6, LinksOnly
<1> QED BY <1>7 DEF r

\* What the nodes of a scene depend on.
LEMMA DependencyType ==
  ASSUME NEW w, NEW s, Good(s, w)
  PROVE  /\ s \in Scene /\ s.data \in [Nodes -> NodeData] /\ Registered(s) \subseteq Nodes
         /\ \A m \in Nodes :
              /\ s.data[m].dependency_nodes \subseteq Registered(s) \ Controllers
              /\ s.data[m].dependency_nodes_end \subseteq s.data[m].dependency_nodes
<1>1. s \in Scene /\ Linked(s)
  BY DEF Good, Sound
<1> QED BY <1>1, SceneType, ListedType DEF Linked

LEMMA AddDependencyGood ==
  ASSUME NEW w, NEW s, Good(s, w), NEW c \in Nodes, NEW n \in Registered(s) \ Controllers
  PROVE  Good([s EXCEPT !.data[c].dependency_nodes = @ \cup {n},
                        !.data[c].dependency_nodes_end = @ \ {n}], w)
<1> DEFINE links == [s.data EXCEPT ![c].dependency_nodes = @ \cup {n},
                                   ![c].dependency_nodes_end = @ \ {n}]
<1>1. s \in Scene /\ s.data \in [Nodes -> NodeData] /\ n \in Nodes
  BY DependencyType
<1>2. [s EXCEPT !.data[c].dependency_nodes = @ \cup {n},
                !.data[c].dependency_nodes_end = @ \ {n}] = [s EXCEPT !.data = links]
  BY <1>1 DEF Scene
<1>3. ASSUME NEW m \in Nodes
      PROVE  /\ links[m] \in NodeData
             /\ links[m].id = s.data[m].id
             /\ links[m].controlled_by = s.data[m].controlled_by
             /\ links[m].controlled_nodes = s.data[m].controlled_nodes
             /\ links[m].dependency_nodes \subseteq Registered(s) \ Controllers
             /\ links[m].dependency_nodes_end \subseteq links[m].dependency_nodes
  <2> DEFINE old == s.data[m]
             on == old.dependency_nodes \cup {n}
             end == old.dependency_nodes_end \ {n}
  <2>1. links[m] = IF m = c THEN [old EXCEPT !.dependency_nodes = on,
                                             !.dependency_nodes_end = end] ELSE old
    BY <1>1
  <2>2. old \in NodeData
    BY <1>1
  <2>3. /\ old.dependency_nodes \subseteq Registered(s) \ Controllers
        /\ old.dependency_nodes_end \subseteq old.dependency_nodes
    BY DependencyType
  <2>4. on \subseteq Registered(s) \ Controllers /\ end \subseteq on
    BY <2>3
  <2>5. on \subseteq Nodes /\ end \subseteq Nodes
    BY <2>4, DependencyType
  <2> HIDE DEF links, old, on, end
  <2>6. CASE m = c
    <3>1. /\ links[m] \in NodeData /\ links[m].id = old.id
          /\ links[m].controlled_by = old.controlled_by
          /\ links[m].controlled_nodes = old.controlled_nodes
          /\ links[m].dependency_nodes = on /\ links[m].dependency_nodes_end = end
      BY <2>1, <2>2, <2>5, <2>6 DEF NodeData
    <3> QED BY <2>4, <3>1 DEF old
  <2>7. CASE m /= c
    BY <2>1, <2>2, <2>3, <2>7 DEF old
  <2> QED BY <2>6, <2>7
<1>4. links = [m \in Nodes |-> links[m]]
  BY <1>1
<1> HIDE DEF links
<1>5. links \in [Nodes -> NodeData]
  BY <1>3, <1>4
<1>6. Good([s EXCEPT !.data = links], w)
  BY <1>3, <1>5, DependenciesGood
<1> QED BY <1>2, <1>6

LEMMA RemoveDependencyGood ==
  ASSUME NEW w, NEW s, Good(s, w), NEW c \in Nodes, NEW n \in s.data[c].dependency_nodes
  PROVE  Good([s EXCEPT !.data[c].dependency_nodes_end = @ \cup {n}], w)
<1> DEFINE links == [s.data EXCEPT ![c].dependency_nodes_end = @ \cup {n}]
<1>1. s \in Scene /\ s.data \in [Nodes -> NodeData]
  BY DependencyType
<1>2. [s EXCEPT !.data[c].dependency_nodes_end = @ \cup {n}] = [s EXCEPT !.data = links]
  BY <1>1 DEF Scene
<1>3. ASSUME NEW m \in Nodes
      PROVE  /\ links[m] \in NodeData
             /\ links[m].id = s.data[m].id
             /\ links[m].controlled_by = s.data[m].controlled_by
             /\ links[m].controlled_nodes = s.data[m].controlled_nodes
             /\ links[m].dependency_nodes \subseteq Registered(s) \ Controllers
             /\ links[m].dependency_nodes_end \subseteq links[m].dependency_nodes
  <2> DEFINE old == s.data[m]
             end == old.dependency_nodes_end \cup {n}
  <2>1. links[m] = IF m = c THEN [old EXCEPT !.dependency_nodes_end = end] ELSE old
    BY <1>1
  <2>2. old \in NodeData
    BY <1>1
  <2>3. /\ old.dependency_nodes \subseteq Registered(s) \ Controllers
        /\ old.dependency_nodes_end \subseteq old.dependency_nodes
    BY DependencyType
  <2>4. m = c => end \subseteq old.dependency_nodes
    BY <2>3
  <2>5. m = c => end \subseteq Nodes
    BY <2>3, <2>4, DependencyType
  <2> HIDE DEF links, old, end
  <2>6. CASE m = c
    <3>1. /\ links[m] \in NodeData /\ links[m].id = old.id
          /\ links[m].controlled_by = old.controlled_by
          /\ links[m].controlled_nodes = old.controlled_nodes
          /\ links[m].dependency_nodes = old.dependency_nodes
          /\ links[m].dependency_nodes_end = end
      BY <2>1, <2>2, <2>5, <2>6 DEF NodeData
    <3> QED BY <2>3, <2>4, <2>6, <3>1 DEF old
  <2>7. CASE m /= c
    BY <2>1, <2>2, <2>3, <2>7 DEF old
  <2> QED BY <2>6, <2>7
<1>4. links = [m \in Nodes |-> links[m]]
  BY <1>1
<1> HIDE DEF links
<1>5. links \in [Nodes -> NodeData]
  BY <1>3, <1>4
<1>6. Good([s EXCEPT !.data = links], w)
  BY <1>3, <1>5, DependenciesGood
<1> QED BY <1>2, <1>6

LEMMA PurgeGood ==
  ASSUME NEW w, NEW s, Good(s, w)
  PROVE  Good(Purge(s), w)
<1> DEFINE links == [n \in Nodes |->
             [s.data[n] EXCEPT !.dependency_nodes = @ \ s.data[n].dependency_nodes_end,
                               !.dependency_nodes_end = {}]]
<1>1. s.data \in [Nodes -> NodeData]
  BY DependencyType
<1>2. ASSUME NEW m \in Nodes
      PROVE  /\ links[m] \in NodeData
             /\ links[m].id = s.data[m].id
             /\ links[m].controlled_by = s.data[m].controlled_by
             /\ links[m].controlled_nodes = s.data[m].controlled_nodes
             /\ links[m].dependency_nodes \subseteq Registered(s) \ Controllers
             /\ links[m].dependency_nodes_end \subseteq links[m].dependency_nodes
  <2> DEFINE old == s.data[m]
             kept == old.dependency_nodes \ old.dependency_nodes_end
  <2>1. links[m] = [old EXCEPT !.dependency_nodes = kept, !.dependency_nodes_end = {}]
    OBVIOUS
  <2>2. old \in NodeData
    BY <1>1
  <2>3. kept \subseteq Registered(s) \ Controllers /\ kept \subseteq Nodes
    BY DependencyType
  <2> HIDE DEF links, old, kept
  <2>4. /\ links[m] \in NodeData
        /\ links[m].id = old.id
        /\ links[m].controlled_by = old.controlled_by
        /\ links[m].controlled_nodes = old.controlled_nodes
        /\ links[m].dependency_nodes = kept
        /\ links[m].dependency_nodes_end = {}
    BY <2>1, <2>2, <2>3 DEF NodeData
  <2> QED BY <2>3, <2>4 DEF old
<1>3. links = [n \in Nodes |-> links[n]]
  OBVIOUS
<1>4. Purge(s) = [s EXCEPT !.data = links]
  BY DEF Purge
<1> HIDE DEF links
<1>5. links \in [Nodes -> NodeData]
  BY <1>2, <1>3
<1>6. Good([s EXCEPT !.data = links], w)
  BY <1>2, <1>5, DependenciesGood
<1> QED BY <1>4, <1>6

\* A controller that is listed may be reset at any time.
LEMMA SwitchGood ==
  ASSUME NEW s, network \in Networks, Good(s, network), NEW c \in Listed(s)
  PROVE  Good(ResetController([s EXCEPT !.character[c].server_controlled = ~ @], c), network)
<1> DEFINE char == [s.character EXCEPT ![c].server_controlled = ~ @]
           t == [s EXCEPT !.character[c].server_controlled = ~ @]
           r == ResetController(t, c)
<1>1. s \in Scene /\ s.character \in [Controllers -> Character] /\ s.peer_dirty \in BOOLEAN
  BY SceneType DEF Good, Sound
<1>2. c \in Controllers /\ Listed(s) \subseteq Controllers /\ Registered(s) \subseteq Nodes
  BY <1>1, ListedType
<1>3. t = [s EXCEPT !.character = char]
  BY <1>1 DEF Scene
<1>4. char \in [Controllers -> Character]
  BY <1>1, <1>2 DEF Character
<1>5. /\ \A d \in Controllers : d /= c => char[d] = s.character[d]
      /\ char[c].has_scene_synchronizer = s.character[c].has_scene_synchronizer
  BY <1>1, <1>2 DEF Character
<1> HIDE DEF char, t
<1>6. /\ t \in Scene /\ SameMode(t, s) /\ SameLists(t, s) /\ SameIds(t, s)
      /\ t.data = s.data /\ t.skipped = s.skipped /\ t.peer_data = s.peer_data
      /\ t.peer_dirty = s.peer_dirty /\ t.player = s.player /\ t.character = char
  BY <1>1, <1>3, <1>4 DEF Scene, SameMode, SameLists, SameIds
<1> DEFINE type == IF t.in_tree THEN TypeFor(t, c) ELSE "NULL"
<1>7. /\ r \in Scene
      /\ SameMode(r, t) /\ SameLists(r, t) /\ SameIds(r, t)
      /\ r.data = t.data /\ r.skipped = t.skipped /\ r.peer_data = t.peer_data
      /\ r.peer_dirty = (t.peer_dirty \/ t.in_tree)
      /\ \A d \in Controllers : d /= c => r.character[d] = t.character[d]
      /\ r.character[c].has_scene_synchronizer = t.character[c].has_scene_synchronizer
      /\ r.character[c].peers = {}
  BY <1>2, <1>6, ResetControllerFields
<1>8. r.player = PlayerAfterReset(t, c, type) /\ r.character[c].controller_type = type
  BY <1>2, <1>6, ResetControllerFields
<1> HIDE DEF r, type
<1>9. /\ SameMode(r, s) /\ SameLists(r, s) /\ SameIds(r, s)
      /\ r.data = s.data /\ r.skipped = s.skipped /\ r.peer_data = s.peer_data
      /\ r.peer_dirty = (s.peer_dirty \/ s.in_tree)
      /\ \A d \in Controllers : d /= c => r.character[d] = s.character[d]
      /\ r.character[c].has_scene_synchronizer = s.character[c].has_scene_synchronizer
  BY <1>5, <1>6, <1>7 DEF SameMode, SameLists, SameIds
<1>10. /\ Registered(r) = Registered(s) /\ Listed(r) = Listed(s)
       /\ \A i : NodeWithId(r, i) = NodeWithId(s, i)
  BY <1>9 DEF SameLists, SameIds, Registered, Listed, NodeWithId
<1>11. Lists(r) /\ Mutual(r) /\ Linked(r)
  BY <1>9, <1>10 DEF Good, Sound, Lists, SameLists, Mutual, Linked
<1>12. Owned(r)
  BY <1>9, <1>10 DEF Good, Sound, Owned
<1>13. Slotted(r) /\ (r.renamed \/ Named(r)) /\ Numbered(r)
  BY <1>9, <1>10 DEF Good, Sound, Slotted, Named, Numbered, SameIds, SameMode
<1>14. Known(r)
  <2>1. s.player \in Listed(s) \cup {Nobody}
    BY DEF Good, Sound, Known
  <2>2. r.player \in Listed(s) \cup {Nobody}
    BY <1>6, <1>8, <2>1 DEF PlayerAfterReset
  <2> QED BY <1>2, <1>7, <1>9, <1>10, <2>2 DEF Good, Sound, Known
<1>15. Modes(r)
  BY <1>9 DEF Good, Modes, SameMode
<1>16. ServedOn(r, network)
  BY <1>9 DEF ServedOn, SettledOn, SameMode
<1>17. FitOn(r, network)
  <2> SUFFICES ASSUME SettledOn(r, network) PROVE Fit(r, network, Listed(s))
    BY <1>10 DEF FitOn
  <2>1. /\ Fit(s, network, Listed(s) \ {c}) /\ s.in_tree /\ s.synchronizer_type = Kind[network]
        /\ s.player \in Listed(s) \cup {Nobody}
    BY <1>9 DEF Good, Sound, Known, FitOn, Fit, SettledOn, SameMode, Modes
  <2> DEFINE kept == IF s.player = c THEN Nobody ELSE s.player
             C == Listed(s) \ {c}
             u == [t EXCEPT !.player = kept]
  <2>2. /\ u.player = kept /\ u.character = t.character
        /\ u.synchronizer_type = t.synchronizer_type
    BY <1>6 DEF Scene
  <2>3. TypeFor(u, c) = TypeFor(t, c) /\ type = TypeFor(t, c)
    BY <1>6, <2>1, <2>2 DEF TypeFor, type, SameMode
  <2>4. PlayerAfterReset(u, c, type) = PlayerAfterReset(t, c, type)
    <3>1. Nobody /= c
      BY <1>2, NodesAssumption
    <3> QED BY <1>6, <2>2, <3>1 DEF PlayerAfterReset
  <2> HIDE DEF u
  <2>5. u.synchronizer_type = Kind[network] /\ u.player \in C \cup {Nobody}
    BY <1>6, <2>1, <2>2 DEF SameMode
  <2>6. Fit(u, network, C)
    <3>1. \A d \in C : u.character[d] = s.character[d] /\ (u.player = d <=> s.player = d)
      BY <1>2, <1>5, <1>6, <2>2, NodesAssumption
    <3> QED BY <2>1, <3>1 DEF Fit
  <2>7. \A d \in C : d /= c => r.character[d] = u.character[d]
    BY <1>2, <1>6, <1>7, <2>2
  <2>8. Fit(r, network, C \cup {c})
    BY <1>2, <1>8, <2>3, <2>4, <2>5, <2>6, <2>7, ResetFits
  <2>9. C \cup {c} = Listed(s)
    OBVIOUS
  <2> QED BY <2>8, <2>9
<1>18. Good(r, network)
  BY <1>7, <1>11, <1>12, <1>13, <1>14, <1>15, <1>16, <1>17 DEF Good, Sound
<1> QED BY <1>18 DEF r, t


\* u is v with e at place k.
Replaces(u, v, k, e) ==
  /\ Len(u) = Len(v) /\ u[k] = e
  /\ \A j \in 1 .. Len(v) : j /= k => u[j] = v[j]

LEMMA ReplacedElement ==
  ASSUME NEW T, NEW v \in Seq(T), NEW k \in 1 .. Len(v), NEW e \in T
  PROVE  [v EXCEPT ![k] = e] \in Seq(T) /\ Replaces([v EXCEPT ![k] = e], v, k, e)
<1> DEFINE M == Len(v)
           u == [v EXCEPT ![k] = e]
<1>1. M \in Nat /\ v \in [1 .. M -> T]
  OBVIOUS
<1> HIDE DEF M
<1>2. /\ u \in [1 .. M -> T] /\ u[k] = e
      /\ \A j \in 1 .. M : j /= k => u[j] = v[j]
  BY <1>1 DEF M
<1> HIDE DEF u
<1>3. u \in Seq(T) /\ Len(u) = M
  BY <1>1, <1>2
<1> QED BY <1>2, <1>3 DEF u, M, Replaces

\* full is the slots, widened so that there is one for i, with n there; old is
\* what that one held.
Widens(full, slots, i, n, old) ==
  /\ Len(full) = IF Len(slots) <= i THEN i + 1 ELSE Len(slots)
  /\ full[i + 1] = n
  /\ old = IF i + 1 <= Len(slots) THEN slots[i + 1] ELSE Nobody
  /\ \A j \in Nat : j < Len(full) /\ j /= i =>
       full[j + 1] = IF j + 1 <= Len(slots) THEN slots[j + 1] ELSE Nobody

LEMMA WideSlots ==
  ASSUME NEW S, NEW slots \in Seq(S \cup {Nobody}), NEW i \in Nat, NEW n \in S,
         NEW wide, NEW full, full = [wide EXCEPT ![i + 1] = n],
         wide = IF Len(slots) <= i
                  THEN slots \o [k \in 1 .. i + 1 - Len(slots) |-> Nobody] ELSE slots
  PROVE  full \in Seq(S \cup {Nobody}) /\ Widens(full, slots, i, n, wide[i + 1])
<1> DEFINE L == Len(slots)
           M == IF L <= i THEN i + 1 ELSE L
<1>1. L \in Nat /\ M \in Nat /\ i < M
  OBVIOUS
<1>2. /\ wide \in Seq(S \cup {Nobody}) /\ Len(wide) = M
      /\ \A k \in 1 .. M : wide[k] = IF k <= L THEN slots[k] ELSE Nobody
  <2>1. CASE L <= i
    <3> DEFINE more == [k \in 1 .. i + 1 - L |-> Nobody]
    <3>1. /\ more \in Seq(S \cup {Nobody}) /\ Len(more) = i + 1 - L
          /\ \A k \in 1 .. i + 1 - L : more[k] = Nobody
      BY <1>1, <2>1
    <3>2. wide = slots \o more
      BY <2>1
    <3> HIDE DEF more
    <3>3. /\ slots \o more \in Seq(S \cup {Nobody}) /\ Len(slots \o more) = L + Len(more)
          /\ \A k \in 1 .. L + Len(more) :
               (slots \o more)[k] = IF k <= L THEN slots[k] ELSE more[k - L]
      BY <3>1
    <3>4. L + Len(more) = M
      BY <1>1, <2>1, <3>1
    <3>5. \A k \in 1 .. M : ~ k <= L => k - L \in 1 .. i + 1 - L
      BY <1>1, <2>1
    <3> QED BY <3>1, <3>2, <3>3, <3>4, <3>5
  <2>2. CASE ~ L <= i
    BY <1>1, <2>2
  <2> QED BY <2>1, <2>2
<1> HIDE DEF L, M
<1>3. i + 1 \in 1 .. M /\ \A j \in Nat : j < M => j + 1 \in 1 .. M
  BY <1>1
<1>4. /\ full \in Seq(S \cup {Nobody}) /\ Len(full) = M /\ full[i + 1] = n
      /\ \A k \in 1 .. M : k /= i + 1 => full[k] = wide[k]
  <2> DEFINE T == S \cup {Nobody}
  <2>1. wide \in Seq(T) /\ i + 1 \in 1 .. Len(wide) /\ n \in T
    BY <1>2, <1>3
  <2> HIDE DEF T
  <2>2. full \in Seq(T) /\ Replaces(full, wide, i + 1, n)
    BY <2>1, ReplacedElement
  <2> QED BY <1>2, <2>2 DEF T, Replaces
<1>5. ASSUME NEW j \in Nat, j < M, j /= i
      PROVE  full[j + 1] = IF j + 1 <= L THEN slots[j + 1] ELSE Nobody
  <2>1. j + 1 \in 1 .. M /\ j + 1 /= i + 1
    BY <1>3, <1>5
  <2> QED BY <1>2, <1>4, <2>1
<1>6. M = IF L <= i THEN i + 1 ELSE L
  BY DEF M
<1> QED BY <1>2, <1>3, <1>4, <1>5, <1>6 DEF L, Widens

LEMMA SetNodeDataIdGood ==
  ASSUME NEW w, NEW s, Good(s, w), s.synchronizer_type = "CLIENT",
         NEW n \in Registered(s), NEW i \in 0 .. MaxIds
  PROVE  Good(SetNodeDataId(s, n, i), w)
<1> DEFINE slots == s.organized_node_data
           L == Len(slots)
           wide == IF L <= i THEN slots \o [k \in 1 .. i + 1 - L |-> Nobody] ELSE slots
           full == [wide EXCEPT ![i + 1] = n]
           links == [s.data EXCEPT ![n].id = i]
           again == s.renamed \/ s.data[n].id \notin {NoId, i} \/ wide[i + 1] \notin {Nobody, n}
           r == [s EXCEPT !.organized_node_data = full, !.data = links, !.renamed = again]
<1>1. /\ s \in Scene /\ s.data \in [Nodes -> NodeData] /\ s.renamed \in BOOLEAN
      /\ slots \in Seq(Nodes \cup {Nobody})
  BY SceneType DEF Good, Sound
<1>2. n \in Nodes /\ Registered(s) \subseteq Nodes /\ Nobody \notin Nodes /\ i \in Nat
  BY <1>1, ListedType, RegistryBoundsAssumption
<1>3. SetNodeDataId(s, n, i) = r
  BY <1>1 DEF SetNodeDataId, Scene
<1>4. ~ s.generate_id /\ s.synchronizer_type /= "SERVER"
  BY DEF Good, Modes
<1>5. /\ full \in Seq(Nodes \cup {Nobody})
      /\ Len(full) = IF L <= i THEN i + 1 ELSE L
      /\ full[i + 1] = n
      /\ wide[i + 1] = IF i + 1 <= L THEN slots[i + 1] ELSE Nobody
      /\ \A j \in Nat : j < Len(full) /\ j /= i =>
           full[j + 1] = IF j + 1 <= L THEN slots[j + 1] ELSE Nobody
  <2>1. wide = IF Len(slots) <= i
                 THEN slots \o [k \in 1 .. i + 1 - Len(slots) |-> Nobody] ELSE slots
    OBVIOUS
  <2>2. full = [wide EXCEPT ![i + 1] = n]
    OBVIOUS
  <2> HIDE DEF wide, slots, full
  <2>3. full \in Seq(Nodes \cup {Nobody}) /\ Widens(full, slots, i, n, wide[i + 1])
    BY <1>1, <1>2, <2>1, <2>2, WideSlots
  <2> QED BY <2>3 DEF L, Widens
<1>6. L \in Nat /\ L <= MaxIds + 1
  BY <1>1 DEF Good, Sound, Slotted
<1> HIDE DEF full, wide
<1>7. links \in [Nodes -> NodeData] /\ links[n].id = i
  BY <1>1, <1>2 DEF NodeData
<1>8. \A m \in Nodes :
        /\ m /= n => links[m].id = s.data[m].id
        /\ links[m].controlled_by = s.data[m].controlled_by
        /\ links[m].controlled_nodes = s.data[m].controlled_nodes
        /\ links[m].dependency_nodes = s.data[m].dependency_nodes
        /\ links[m].dependency_nodes_end = s.data[m].dependency_nodes_end
  BY <1>1, <1>2 DEF NodeData
<1> HIDE DEF links
<1>9. again \in BOOLEAN
  BY <1>1
<1> HIDE DEF again
<1>10. /\ r \in Scene /\ r.organized_node_data = full /\ r.data = links /\ r.renamed = again
       /\ SameMode(r, s) /\ SameLists(r, s) /\ SameServices(r, s)
       /\ r.skipped = s.skipped
  BY <1>1, <1>5, <1>7, <1>9 DEF Scene, SameMode, SameLists, SameServices
<1> HIDE DEF r
<1>11. Registered(r) = Registered(s) /\ Listed(r) = Listed(s)
  BY <1>10 DEF SameLists, Registered, Listed
<1>12. Lists(r) /\ Owned(r) /\ Known(r)
  BY <1>10, <1>11 DEF Good, Sound, Lists, SameLists, Owned, SameServices, Known
<1>13. Mutual(r)
  <2> SUFFICES ASSUME NEW m \in Nodes, NEW c \in Nodes
               PROVE  links[m].controlled_by = c <=> m \in links[c].controlled_nodes
    BY <1>10 DEF Mutual
  <2>1. s.data[m].controlled_by = c <=> m \in s.data[c].controlled_nodes
    BY DEF Good, Sound, Mutual
  <2>2. /\ links[m].controlled_by = s.data[m].controlled_by
        /\ links[c].controlled_nodes = s.data[c].controlled_nodes
    BY <1>8
  <2> QED BY <2>1, <2>2
<1>14. Linked(r)
  <2> SUFFICES ASSUME NEW m \in Nodes
               PROVE  /\ links[m].controlled_by \in Listed(s) \cup {Nobody}
                      /\ links[m].dependency_nodes \subseteq Registered(s) \ Controllers
                      /\ links[m].controlled_nodes \subseteq Registered(s) \ Controllers
                      /\ links[m].dependency_nodes_end \subseteq links[m].dependency_nodes
    BY <1>10, <1>11 DEF Linked
  <2>1. /\ s.data[m].controlled_by \in Listed(s) \cup {Nobody}
        /\ s.data[m].dependency_nodes \subseteq Registered(s) \ Controllers
        /\ s.data[m].controlled_nodes \subseteq Registered(s) \ Controllers
        /\ s.data[m].dependency_nodes_end \subseteq s.data[m].dependency_nodes
    BY DEF Good, Sound, Linked
  <2> QED BY <1>8, <2>1
<1>15. Slotted(r)
  <2>1. MaxIds \in Nat /\ i <= MaxIds
    BY RegistryBoundsAssumption
  <2>2. Len(full) <= MaxIds + 1
    BY <1>2, <1>5, <1>6, <2>1
  <2> QED BY <1>10, <2>2 DEF Slotted
<1>16. NodeWithId(r, i) = n
  <2>1. i \in 0 .. Len(full) - 1
    BY <1>2, <1>5, <1>6
  <2> QED BY <1>5, <1>10, <2>1 DEF NodeWithId
<1>17. ASSUME NEW j \in 0 .. MaxIds, j /= i PROVE NodeWithId(r, j) = NodeWithId(s, j)
  <2>1. j \in Nat
    BY RegistryBoundsAssumption
  <2>2. j \in 0 .. L - 1 <=> j + 1 <= L
    BY <1>6, <2>1
  <2>3. j \in 0 .. L - 1 => j \in 0 .. Len(full) - 1
    BY <1>2, <1>5, <1>6, <2>1
  <2>4. j \in 0 .. Len(full) - 1 => j < Len(full)
    BY <1>2, <1>5, <1>6, <2>1
  <2>5. CASE j \in 0 .. Len(full) - 1
    BY <1>5, <1>10, <1>17, <2>1, <2>2, <2>4, <2>5 DEF NodeWithId
  <2>6. CASE j \notin 0 .. Len(full) - 1
    BY <1>10, <2>3, <2>6 DEF NodeWithId
  <2> QED BY <2>5, <2>6
<1>18. wide[i + 1] = NodeWithId(s, i)
  <2>1. i \in 0 .. L - 1 <=> i + 1 <= L
    BY <1>2, <1>6
  <2> QED BY <1>5, <2>1 DEF NodeWithId
<1>19. r.renamed \/ Named(r)
  <2> SUFFICES ASSUME ~ again, NEW m \in Nodes, NEW j \in 0 .. MaxIds
               PROVE  NodeWithId(r, j) = m <=> m \in Registered(s) /\ links[m].id = j
    BY <1>10, <1>11 DEF Named
  <2>1. ~ s.renamed /\ s.data[n].id \in {NoId, i} /\ NodeWithId(s, i) \in {Nobody, n}
    BY <1>18 DEF again
  <2>2. \A k \in 0 .. MaxIds : NodeWithId(s, k) = m <=> m \in Registered(s) /\ s.data[m].id = k
    BY <2>1 DEF Good, Sound, Named
  <2>3. CASE j = i
    <3>1. CASE m = n
      BY <1>7, <1>16, <2>3, <3>1
    <3>2. CASE m /= n
      BY <1>2, <1>8, <1>16, <2>1, <2>2, <2>3, <3>2
    <3> QED BY <3>1, <3>2
  <2>4. CASE j /= i
    <3>1. NodeWithId(r, j) = NodeWithId(s, j)
      BY <1>17, <2>4
    <3>2. CASE m = n
      BY <1>7, <2>1, <2>2, <2>4, <3>1, <3>2, IdsAssumption
    <3>3. CASE m /= n
      BY <1>8, <2>2, <3>1, <3>3
    <3> QED BY <3>2, <3>3
  <2> QED BY <2>3, <2>4
<1>20. Numbered(r)
  BY <1>4, <1>10 DEF Numbered, SameMode
<1>21. Modes(r)
  BY <1>10 DEF Good, Modes, SameMode
<1>22. ServedOn(r, w)
  BY <1>4, <1>10 DEF ServedOn, SameMode
<1>23. FitOn(r, w)
  BY <1>10, <1>11 DEF Good, FitOn, Fit, SettledOn, SameMode, SameServices
<1> QED BY <1>3, <1>10, <1>12, <1>13, <1>14, <1>15, <1>19, <1>20, <1>21, <1>22, <1>23
        DEF Good, Sound

-----------------------------------------------------------------------------
(* In the tree and out of it. *)

\* A scene that is cleared, and gets its mode, has no controller to make again.
LEMMA EnterGood ==
  ASSUME NEW s, network \in Networks, Sound(s), NEW P \in SUBSET Peers
  PROVE  Good(Connect(ResetControllers(ResetMode(Clear([s EXCEPT !.in_tree = TRUE]))), P), network)
<1> DEFINE e == [s EXCEPT !.in_tree = TRUE]
           c == Clear(e)
           m == ResetMode(c)
           r == ResetControllers(m)
<1>1. /\ e \in Scene /\ e.in_tree /\ e.skipped = s.skipped /\ e.character = s.character
      /\ SameLists(e, s)
  BY DEF Sound, Scene, SameLists
<1> HIDE DEF e
<1>2. Lists(e) /\ HeldIsListed(e)
  BY <1>1 DEF Sound, Lists, Owned, HeldIsListed, SameLists, Listed, Registered
<1>3. ClearShape(c, e)
  BY <1>1, <1>2, ClearFields
<1> HIDE DEF c
<1>4. Sound(c) /\ Listed(c) = {}
  BY <1>3, ClearSound
<1>5. c.in_tree
  BY <1>1, <1>3 DEF ClearShape, SameMode
<1>6. Good(m, network) /\ SettledOn(m, network) /\ Listed(m) = {}
  BY <1>4, <1>5, ResetModeGood
<1> HIDE DEF m
<1>7. /\ m \in Scene /\ m.in_tree /\ m.synchronizer_type = Kind[network] /\ m.player = Nobody
  BY <1>6 DEF Good, Sound, Known, Modes, SettledOn
<1>8. ResetShape(r, m, {})
  BY <1>6, <1>7, ResetControllersFields
<1> HIDE DEF r
<1>9. /\ r \in Scene /\ SameMode(r, m) /\ SameLists(r, m) /\ SameIds(r, m)
      /\ r.data = m.data /\ r.skipped = m.skipped /\ r.player = Nobody
      /\ \A d \in Controllers :
           r.character[d].has_scene_synchronizer = m.character[d].has_scene_synchronizer
  BY <1>8 DEF ResetShape
<1>10. Registered(r) = Registered(m) /\ Listed(r) = {} /\ \A i : NodeWithId(r, i) = NodeWithId(m, i)
  BY <1>6, <1>9 DEF SameLists, SameIds, Registered, Listed, NodeWithId
<1>11. Sound(r)
  <2>1. Lists(r) /\ Mutual(r) /\ Linked(r) /\ Owned(r)
    BY <1>6, <1>9, <1>10 DEF Good, Sound, Lists, SameLists, Mutual, Linked, Owned
  <2>2. Slotted(r) /\ (r.renamed \/ Named(r)) /\ Numbered(r)
    BY <1>6, <1>9, <1>10 DEF Good, Sound, Slotted, Named, Numbered, SameIds, SameMode
  <2>3. Known(r)
    BY <1>9, <1>10 DEF Known
  <2> QED BY <1>9, <2>1, <2>2, <2>3 DEF Sound
<1>12. Modes(r)
  BY <1>6, <1>9 DEF Good, Modes, SameMode
<1>13. ServedOn(r, network) /\ FitOn(r, network)
  BY <1>10 DEF ServedOn, Served, FitOn, Fit
<1>14. Good(Connect(r, P), network)
  BY <1>11, <1>12, <1>13, ConnectGood DEF Good
<1> QED BY <1>14 DEF r, m, c, e

\* clear_peers changes only what the peers are and what is sent to them.
LEMMA ClearPeersFields ==
  ASSUME NEW s \in Scene
  PROVE  LET r == ClearPeers(s) IN
         /\ r \in Scene /\ SameMode(r, s) /\ SameLists(r, s) /\ r.skipped = s.skipped
         /\ \A c \in Controllers :
              r.character[c].has_scene_synchronizer = s.character[c].has_scene_synchronizer
<1> DEFINE char == [c \in Controllers |->
             IF c \in Listed(s) THEN [s.character[c] EXCEPT !.peers = {}] ELSE s.character[c]]
           r == [s EXCEPT !.peer_data = NoPeerData, !.character = char]
<1>1. s.character \in [Controllers -> Character]
  BY SceneType
<1>2. NoPeerData \in UNION {[P -> PeerData] : P \in SUBSET Peers}
  <2>1. NoPeerData \in [{} -> PeerData]
    BY DEF NoPeerData
  <2> QED BY <2>1
<1>3. ClearPeers(s) = r
  BY DEF ClearPeers
<1>4. ASSUME NEW c \in Controllers
      PROVE  /\ char[c] \in Character
             /\ char[c].has_scene_synchronizer = s.character[c].has_scene_synchronizer
  <2>1. s.character[c] \in Character
    BY <1>1
  <2>2. char[c] \in {s.character[c], [s.character[c] EXCEPT !.peers = {}]}
    OBVIOUS
  <2> HIDE DEF char
  <2> QED BY <2>1, <2>2 DEF Character
<1>5. char = [c \in Controllers |-> char[c]]
  OBVIOUS
<1> HIDE DEF char
<1>6. char \in [Controllers -> Character]
  BY <1>4, <1>5
<1> QED BY <1>2, <1>3, <1>4, <1>6 DEF Scene, SameMode, SameLists

LEMMA ExitGood ==
  ASSUME NEW w, NEW s, Sound(s)
  PROVE  Good([Clear(ClearPeers(s)) EXCEPT !.synchronizer_type = "NULL", !.in_tree = FALSE], w)
<1> DEFINE e == ClearPeers(s)
           c == Clear(e)
           r == [c EXCEPT !.synchronizer_type = "NULL", !.in_tree = FALSE]
<1>1. s \in Scene /\ Lists(s) /\ Owned(s)
  BY DEF Sound
<1>2. /\ e \in Scene /\ e.skipped = s.skipped /\ SameLists(e, s)
      /\ \A d \in Controllers :
           e.character[d].has_scene_synchronizer = s.character[d].has_scene_synchronizer
  BY <1>1, ClearPeersFields
<1> HIDE DEF e
<1>3. Lists(e) /\ HeldIsListed(e)
  BY <1>1, <1>2 DEF Lists, Owned, HeldIsListed, SameLists, Listed, Registered
<1>4. ClearShape(c, e)
  BY <1>2, <1>3, ClearFields
<1> HIDE DEF c
<1>5. Sound(c) /\ Listed(c) = {} /\ Registered(c) = {}
  BY <1>4, ClearSound
<1>6. /\ r \in Scene /\ ~ r.in_tree /\ r.synchronizer_type = "NULL"
      /\ r.generate_id = c.generate_id
      /\ SameLists(r, c) /\ SameIds(r, c)
      /\ r.data = c.data /\ r.character = c.character /\ r.skipped = c.skipped
      /\ r.player = c.player /\ r.peer_data = c.peer_data
  BY <1>5 DEF Sound, Scene, SameLists, SameIds
<1> HIDE DEF r
<1>7. Registered(r) = Registered(c) /\ Listed(r) = Listed(c) /\ \A i : NodeWithId(r, i) = NodeWithId(c, i)
  BY <1>6 DEF SameLists, SameIds, Registered, Listed, NodeWithId
<1>8. Lists(r) /\ Mutual(r) /\ Linked(r) /\ Owned(r) /\ Known(r)
  BY <1>5, <1>6, <1>7 DEF Sound, Lists, SameLists, Mutual, Linked, Owned, Known
<1>9. Slotted(r) /\ (r.renamed \/ Named(r)) /\ Numbered(r)
  BY <1>5, <1>6, <1>7 DEF Sound, Slotted, Named, Numbered, SameIds
<1>10. Modes(r) /\ ServedOn(r, w) /\ FitOn(r, w)
  BY <1>6 DEF Modes, ServedOn, FitOn, SettledOn
<1>11. Good(r, w)
  BY <1>6, <1>8, <1>9, <1>10 DEF Good, Sound
<1> QED BY <1>11 DEF r, c, e

\* At first nothing is registered.
LEMMA InitGood == Init => IInv
<1> SUFFICES ASSUME Init PROVE IInv
  OBVIOUS
<1>1. /\ network = FirstNetwork /\ networks_set = 0 /\ connected = {}
      /\ scene.in_tree = FALSE /\ scene.synchronizer_type = "NULL"
      /\ scene.peer_ptr = FirstNetwork /\ scene.generate_id = FALSE
      /\ scene.node_data = <<>> /\ scene.organized_node_data = <<>>
      /\ scene.node_data_controllers = <<>>
      /\ scene.data = [n \in Nodes |-> NewNodeData]
      /\ scene.peer_data = NoPeerData /\ scene.player = Nobody
      /\ scene.skipped = {} /\ scene.renamed = FALSE
      /\ \A c \in Controllers : ~ scene.character[c].has_scene_synchronizer
  BY DEF Init
<1>2. NewNodeData \in NodeData
  BY DEF NewNodeData, NodeData
<1>3. scene \in Scene
  <2> DEFINE char == [c \in Controllers |->
         [has_scene_synchronizer |-> FALSE, controller_type |-> "NULL",
          server_controlled |-> FALSE, enabled |-> TRUE, peers |-> {}]]
             links == [n \in Nodes |-> NewNodeData]
  <2>1. char \in [Controllers -> Character]
    BY DEF Character
  <2>2. links \in [Nodes -> NodeData]
    BY <1>2
  <2>3. NoPeerData \in UNION {[P -> PeerData] : P \in SUBSET Peers}
    <3>1. NoPeerData \in [{} -> PeerData]
      BY DEF NoPeerData
    <3> QED BY <3>1
  <2>4. <<>> \in Seq(Nodes) /\ <<>> \in Seq(Nodes \cup {Nobody}) /\ <<>> \in Seq(Controllers)
    BY EmptySequence
  <2>5. scene = [
       in_tree |-> FALSE, synchronizer_type |-> "NULL", peer_ptr |-> FirstNetwork,
       generate_id |-> FALSE, node_data |-> <<>>, organized_node_data |-> <<>>,
       node_data_controllers |-> <<>>, data |-> links, character |-> char,
       peer_data |-> NoPeerData, peer_dirty |-> FALSE, player |-> Nobody,
       skipped |-> {}, renamed |-> FALSE]
    BY DEF Init
  <2> HIDE DEF char, links
  <2> QED BY <2>1, <2>2, <2>3, <2>4, <2>5, NetworksAssumption DEF Scene
<1>4. Registered(scene) = {} /\ Listed(scene) = {} /\ Lists(scene)
  BY <1>1, EmptySequence DEF Registered, Listed, Lists
<1>5. \A i : NodeWithId(scene, i) = Nobody
  BY <1>1, EmptySequence DEF NodeWithId
<1>6. Mutual(scene) /\ Linked(scene) /\ Owned(scene)
  BY <1>1, <1>4, NodesAssumption DEF Mutual, Linked, Owned, NewNodeData
<1>7. Slotted(scene) /\ Named(scene) /\ Numbered(scene) /\ Known(scene)
  BY <1>1, <1>4, <1>5, EmptySequence, NodesAssumption, RegistryBoundsAssumption
     DEF Slotted, Named, Numbered, Known
<1>8. Modes(scene) /\ ServedOn(scene, network) /\ FitOn(scene, network)
  BY <1>1 DEF Modes, ServedOn, FitOn, SettledOn
<1>9. TypeOK
  BY <1>1, <1>3, NetworksAssumption, RegistryBoundsAssumption DEF TypeOK
<1> QED BY <1>3, <1>4, <1>6, <1>7, <1>8, <1>9 DEF IInv, Good, Sound

-----------------------------------------------------------------------------
(* The steps. *)

\* A scene whose network is another now is not settled.
LEMMA AnotherNetwork ==
  ASSUME NEW w, NEW v, NEW s, Good(s, w), ~ SettledOn(s, v)
  PROVE  Good(s, v)
BY DEF Good, ServedOn, FitOn

\* What a bound of an action says of the ids.
LEMMA RoomForIds ==
  ASSUME HasRoom, Good(scene, network)
  PROVE  /\ Len(scene.organized_node_data) \in Nat /\ MaxIds \in Nat
         /\ scene.generate_id => /\ Len(scene.organized_node_data) <= MaxIds
                                 /\ Len(scene.organized_node_data) + 1 <= MaxIds
<1>1. Len(scene.organized_node_data) \in Nat /\ MaxIds \in Nat
  BY SlotType, RegistryBoundsAssumption DEF Good, Sound
<1> QED BY <1>1 DEF HasRoom

\* Every step of the game, of the network and of the clock keeps the invariant.
LEMMA NextGood == IInv /\ [Next]_vars => IInv'
<1> SUFFICES ASSUME IInv, [Next]_vars PROVE IInv'
  OBVIOUS
<1>1. /\ network \in Networks /\ networks_set \in 0 .. MaxNetworks /\ connected \subseteq Peers
      /\ Good(scene, network) /\ scene \in Scene
  BY DEF IInv, TypeOK
<1>2. /\ Registered(scene) \subseteq Nodes /\ Listed(scene) \subseteq Controllers
      /\ Controllers \subseteq Nodes
  BY <1>1, ListedType
<1>3. ASSUME network' \in Networks, networks_set' \in 0 .. MaxNetworks, connected' \subseteq Peers,
             Good(scene', network')
      PROVE  IInv'
  BY <1>3 DEF IInv, TypeOK, Good, Sound
<1>4. ASSUME UNCHANGED <<network, networks_set, connected>>, Good(scene', network)
      PROVE  IInv'
  BY <1>1, <1>3, <1>4
<1>5. ASSUME NEW n \in Nodes, RegisterNode(n) PROVE IInv'
  <2>1. scene.generate_id => Len(scene.organized_node_data) <= MaxIds
    BY <1>1, <1>5, RoomForIds DEF RegisterNode
  <2> QED BY <1>1, <1>4, <1>5, <2>1, RegisterGood DEF RegisterNode
<1>6. ASSUME NEW n \in Nodes, UnregisterNode(n) PROVE IInv'
  BY <1>1, <1>4, <1>6, DropGood DEF UnregisterNode
<1>7. ASSUME NEW n \in Nodes, NEW c \in Nodes \cup {Nobody}, SetNodeAsControlledBy(n, c)
      PROVE  IInv'
  <2> DEFINE found == Register(scene, n)
  <2>1. /\ Len(scene.organized_node_data) \in Nat /\ MaxIds \in Nat
        /\ scene.generate_id => /\ Len(scene.organized_node_data) <= MaxIds
                                /\ Len(scene.organized_node_data) + 1 <= MaxIds
    BY <1>1, <1>7, RoomForIds DEF SetNodeAsControlledBy
  <2>2. Good(found, network)
    BY <1>1, <2>1, RegisterGood
  <2>3. found.generate_id = scene.generate_id
    BY <1>1, <2>1, RegisterFields DEF SameMode
  <2>4. Len(found.organized_node_data) <= Len(scene.organized_node_data) + 1
    BY <1>1, <2>1, RegisterKeeps DEF Good
  <2>5. /\ scene' = IF n \in Registered(found) \ Controllers
                      THEN Controlled(found, n, c) ELSE found
        /\ UNCHANGED <<network, networks_set, connected>>
    BY <1>7 DEF SetNodeAsControlledBy
  <2> HIDE DEF found
  <2>6. found.generate_id => Len(found.organized_node_data) <= MaxIds
    <3>1. Len(found.organized_node_data) \in Nat
      BY <2>2, SlotType DEF Good, Sound
    <3> QED BY <2>1, <2>3, <2>4, <3>1
  <2>7. CASE n \in Registered(found) \ Controllers
    <3>1. Good(Controlled(found, n, c), network)
      BY <1>1, <2>2, <2>6, <2>7, ControlledGood
    <3> QED BY <1>4, <2>5, <2>7, <3>1
  <2>8. CASE n \notin Registered(found) \ Controllers
    BY <1>4, <2>2, <2>5, <2>8
  <2> QED BY <2>7, <2>8
<1>8. ASSUME NEW c \in Controllers, NEW n \in Nodes, AddDependency(c, n) PROVE IInv'
  <2>1. c \in Nodes /\ n \in Registered(scene) \ Controllers
    BY <1>2, <1>8 DEF AddDependency, MayDepend
  <2> QED BY <1>1, <1>4, <1>8, <2>1, AddDependencyGood DEF AddDependency
<1>9. ASSUME NEW c \in Controllers, NEW n \in Nodes, RemoveDependency(c, n) PROVE IInv'
  <2>1. c \in Nodes /\ n \in scene.data[c].dependency_nodes
    BY <1>2, <1>9 DEF RemoveDependency
  <2> QED BY <1>1, <1>4, <1>9, <2>1, RemoveDependencyGood DEF RemoveDependency
<1>10. ASSUME ClearScene PROVE IInv'
  BY <1>1, <1>4, <1>10, ClearGood DEF ClearScene
<1>11. ASSUME NEW w \in Networks, SetNetworkPeer(w) PROVE IInv'
  <2>1. networks_set' \in 0 .. MaxNetworks
    <3>1. MaxNetworks \in Nat
      BY RegistryBoundsAssumption
    <3> QED BY <1>1, <1>11, <3>1 DEF SetNetworkPeer
  <2>2. ~ SettledOn(scene, w)
    BY <1>11 DEF SetNetworkPeer, SettledOn
  <2>3. Good(scene, w)
    BY <1>1, <2>2, AnotherNetwork
  <2> QED BY <1>3, <1>11, <2>1, <2>3 DEF SetNetworkPeer
<1>12. ASSUME EnterTree PROVE IInv'
  <2>1. Sound(scene)
    BY <1>1 DEF Good
  <2> QED BY <1>1, <1>4, <1>12, <2>1, EnterGood DEF EnterTree
<1>13. ASSUME ExitTree PROVE IInv'
  <2>1. Sound(scene)
    BY <1>1 DEF Good
  <2> QED BY <1>4, <1>13, <2>1, ExitGood DEF ExitTree
<1>14. ASSUME NEW p \in Peers, PeerConnected(p) PROVE IInv'
  <2>1. Good(Connect(scene, {p}), network)
    BY <1>1, ConnectGood
  <2> QED BY <1>1, <1>3, <1>14, <2>1 DEF PeerConnected
<1>15. ASSUME NEW p \in Peers, PeerDisconnected(p) PROVE IInv'
  <2>1. Good(Disconnect(scene, p), network)
    BY <1>1, DisconnectGood
  <2> QED BY <1>1, <1>3, <1>15, <2>1 DEF PeerDisconnected
<1>16. ASSUME NEW p \in Peers, NEW e \in BOOLEAN, SetPeerNetworkingEnable(p, e) PROVE IInv'
  BY <1>1, <1>4, <1>16, EnableGood DEF SetPeerNetworkingEnable
<1>17. ASSUME NEW c \in Controllers, SetServerControlled(c) PROVE IInv'
  BY <1>1, <1>4, <1>17, SwitchGood DEF SetServerControlled
<1>18. ASSUME NEW i \in 0 .. MaxIds, NEW withPath \in BOOLEAN, ReceiveNode(i, withPath)
       PROVE  IInv'
  <2> DEFINE n == ServerIds[network][i + 1]
             found == Register(scene, n)
  <2>1. n \in Nodes
    <3>1. ServerIds[network] \in Seq(Nodes)
      BY <1>1, NetworksAssumption
    <3>2. i \in 0 .. Len(ServerIds[network]) - 1
      BY <1>18 DEF ReceiveNode
    <3> QED BY <3>1, <3>2
  <2>2. scene.synchronizer_type = "CLIENT" /\ ~ scene.generate_id
    BY <1>1, <1>18 DEF ReceiveNode, Good, Modes
  <2>3. /\ scene' = IF n \in Registered(found) THEN SetNodeDataId(found, n, i) ELSE found
        /\ UNCHANGED <<network, networks_set, connected>>
    BY <1>18 DEF ReceiveNode
  <2> HIDE DEF n
  <2>4. Good(found, network)
    BY <1>1, <2>1, <2>2, RegisterGood
  <2>5. found.synchronizer_type = "CLIENT"
    BY <1>1, <2>1, <2>2, RegisterFields DEF SameMode
  <2> HIDE DEF found
  <2>6. CASE n \in Registered(found)
    <3>1. Good(SetNodeDataId(found, n, i), network)
      BY <2>4, <2>5, <2>6, SetNodeDataIdGood
    <3> QED BY <1>4, <2>3, <2>6, <3>1
  <2>7. CASE n \notin Registered(found)
    BY <1>4, <2>3, <2>4, <2>7
  <2> QED BY <2>6, <2>7
<1>19. ASSUME NEW confirmed \in BOOLEAN, Tick(confirmed) PROVE IInv'
  <2> DEFINE now == IF scene.peer_ptr /= network THEN ResetMode(scene) ELSE scene
  <2>1. Good(now, network) /\ now.in_tree
    <3>1. scene.in_tree /\ Sound(scene)
      BY <1>1, <1>19 DEF Tick, Good
    <3>2. Good(ResetMode(scene), network) /\ SettledOn(ResetMode(scene), network)
      BY <1>1, <3>1, ResetModeGood
    <3> QED BY <1>1, <3>1, <3>2 DEF SettledOn
  <2>2. /\ scene' = CASE now.synchronizer_type = "SERVER" -> UpdatePeers(now)
                      [] now.synchronizer_type = "CLIENT" ->
                           IF confirmed THEN Purge(now) ELSE now
                      [] OTHER -> now
        /\ UNCHANGED <<network, networks_set, connected>>
    BY <1>19 DEF Tick
  <2> HIDE DEF now
  <2>3. CASE now.synchronizer_type = "SERVER"
    BY <1>4, <2>1, <2>2, <2>3, UpdatePeersGood
  <2>4. CASE now.synchronizer_type = "CLIENT"
    BY <1>4, <2>1, <2>2, <2>4, PurgeGood
  <2>5. CASE now.synchronizer_type \notin {"SERVER", "CLIENT"}
    BY <1>4, <2>1, <2>2, <2>5
  <2> QED BY <2>3, <2>4, <2>5
<1>20. ASSUME UNCHANGED vars PROVE IInv'
  BY <1>1, <1>4, <1>20 DEF vars
<1> QED
  BY <1>5, <1>6, <1>7, <1>8, <1>9, <1>10, <1>11, <1>12, <1>13, <1>14, <1>15, <1>16, <1>17,
     <1>18, <1>19, <1>20 DEF Next

\* The invariant holds from the beginning on.
LEMMA Invariant == Spec => []IInv
BY InitGood, NextGood, PTL DEF Spec

-----------------------------------------------------------------------------
(* The theorems. *)

\* The network, the peers and the scene are always what they are declared to
\* be; in particular no id is past the ones there are.  (SceneSynchronizer)
THEOREM TypeCorrect == Spec => []TypeOK
<1>1. IInv => TypeOK
  BY DEF IInv
<1> QED BY <1>1, Invariant, PTL

\* The ids and the nodes name each other, until the server gives a client's
\* node another id; who gives the ids gave every node one.  (register_node,
\* drop_node_data, reset_synchronizer_mode, set_node_data_id)
THEOREM IdsNameTheirNodes == Spec => []IdsNameTheNodes
<1>1. IInv => IdsNameTheNodes
  BY DEF IInv, Good, Sound, Named, Numbered, IdsNameTheNodes
<1> QED BY <1>1, Invariant, PTL

\* Nodes and controllers refer to each other, to nothing that is not
\* registered, and a controller is held by the synchronizer as long as it is
\* listed or was stepped over by a clear.  (set_node_as_controlled_by,
\* drop_node_data, clear, the dependencies)
THEOREM LinksStayMutual == Spec => []LinksAreMutual
<1>1. IInv => LinksAreMutual
  <2> SUFFICES ASSUME IInv PROVE LinksAreMutual
    OBVIOUS
  <2>1. Lists(scene) /\ Mutual(scene) /\ Linked(scene) /\ Owned(scene)
    BY DEF IInv, Good, Sound
  <2>2. \A c \in Controllers : c \in Registered(scene) <=> c \in Listed(scene)
    BY <2>1 DEF Lists
  <2>3. ASSUME NEW n \in Nodes
        PROVE  /\ scene.data[n].controlled_by \in Listed(scene) \cup {Nobody}
               /\ scene.data[n].dependency_nodes \cup scene.data[n].controlled_nodes
                    \subseteq Registered(scene) \ Controllers
               /\ scene.data[n].dependency_nodes_end \subseteq scene.data[n].dependency_nodes
    BY <2>1 DEF Linked
  <2> QED BY <2>1, <2>2, <2>3 DEF Mutual, Owned, LinksAreMutual
<1> QED BY <1>1, Invariant, PTL

\* After a server's update every peer has its own controller, enabled as the
\* peer is, and the others send to exactly the peers that are enabled; nothing
\* is ever sent to a peer that is gone.  (update_peers, reset_controller,
\* _on_peer_connected, _on_peer_disconnected)
THEOREM EveryPeerIsServed == Spec => []PeersAreServed
<1>1. IInv => PeersAreServed
  <2> SUFFICES ASSUME IInv PROVE PeersAreServed
    OBVIOUS
  <2>1. Known(scene) /\ ServedOn(scene, network)
    BY DEF IInv, Good, Sound
  <2>2. ASSUME Settled, scene.synchronizer_type = "SERVER", ~ scene.peer_dirty
        PROVE  Served(scene)
    BY <2>1, <2>2 DEF ServedOn, SettledOn, Settled
  <2> QED BY <2>1, <2>2 DEF Known, Served, PeersAreServed
<1> QED BY <1>1, Invariant, PTL

\* Once the synchronizer has followed the network, every controller is of a
\* kind the network asks for, and the client plays exactly the one it knows
\* as its own.  (reset_controller, on_controller_reset, on_node_removed)
THEOREM ControllersFit == Spec => []ControllersFitTheMode
<1>1. IInv => ControllersFitTheMode
  <2> SUFFICES ASSUME IInv, Settled,
                      NEW c \in Listed(scene), NEW type,
                      type = scene.character[c].controller_type
               PROVE  /\ type \in CASE scene.synchronizer_type = "SERVER" -> ServerTypes
                                    [] scene.synchronizer_type = "CLIENT" -> {"PLAYER", "DOLL"}
                                    [] OTHER -> {"NONETWORK"}
                      /\ type = "PLAYER" <=> scene.player = c
    BY DEF ControllersFitTheMode
  <2>1. Fit(scene, network, Listed(scene)) /\ scene.synchronizer_type = Kind[network]
    BY DEF IInv, Good, FitOn, SettledOn, Settled, Modes
  <2> QED BY <2>1 DEF Fit, TypesOn
<1> QED BY <1>1, Invariant, PTL
=============================================================================
