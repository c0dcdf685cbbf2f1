--------------------------- MODULE Recovery_proofs ---------------------------
(***************************************************************************)
(* Proofs about Recovery, for all worlds, functions of the game, inputs    *)
(* and states of the server: the queues a rewind walks are aligned,        *)
(* END_SYNC tells exactly what a recovery changed, the nodes whose sync    *)
(* is stopped are left alone, the frames follow the server's last state,   *)
(* and a rewind is a replay of the player's frames.                        *)
(***************************************************************************)
EXTENDS Recovery, WellFoundedInduction, TLAPS

-----------------------------------------------------------------------------
(* The inductive invariant. *)

Known == Values \cup {Nil}
Deed == [input : Inputs, meets : SUBSET Dependable, action : Actions \cup {NoAction}]
Frame == [id : Nat \ {0}, input : Inputs, meets : SUBSET Dependable]
ClientSnapshot == [input_id : Nat, values : World, action : Actions \cup {NoAction}]
State == [input_id : Nat, values : [Told -> Values]]

\* What the queues hold; a state is of a frame the player made.
QueuesAreTyped ==
  /\ made \in Seq(Deed) /\ Len(made) <= MaxInput
  /\ frames_snapshot \in Seq(Frame)
  /\ client_snapshots \in Seq(ClientSnapshot)
  /\ server_snapshots \in Seq(State)
  /\ states \in Seq(State)
  /\ \A i \in 1 .. Len(server_snapshots) : server_snapshots[i].input_id \in 1 .. Len(made)
  /\ \A i \in 1 .. Len(states) : states[i].input_id \in 1 .. Len(made)
  /\ dependency_nodes_end \in [dependency_nodes -> Ids \cup {Never}]
  /\ client_snapshots /= <<>> => var_values \in World

\* Only the nodes the game stopped are not synchronized.
OthersStaySynced == Nodes \subseteq sync_enabled \cup stopped

\* The frames and the snapshots of the client are of the last frames made.
Aligned ==
  /\ Len(frames_snapshot) = Len(client_snapshots)
  /\ \A i \in 1 .. Len(frames_snapshot) :
       frames_snapshot[i].id = Len(made) - Len(frames_snapshot) + i
  /\ \A i \in 1 .. Len(client_snapshots) :
       client_snapshots[i].input_id = Len(made) - Len(client_snapshots) + i
  /\ \A i \in 1 .. Len(frames_snapshot) :
       frames_snapshot[i].input = made[frames_snapshot[i].id].input

\* TypeOK without what Aligned says of the queues.
Typed ==
  /\ value \in World /\ server_values \in World
  /\ var_values \in [Vars -> Known]
  /\ sync_enabled \subseteq Nodes /\ stopped \subseteq Stoppable
  /\ dependency_nodes \subseteq Dependable
  /\ \A n \in dependency_nodes : dependency_nodes_end[n] \in Ids \cup {Never}
  /\ current_input_id \in {Len(made), Len(made) + 1}
  /\ Len(frames_snapshot) <= MaxStorage
  /\ \A i, j \in 1 .. Len(server_snapshots) :
       i < j => server_snapshots[i].input_id < server_snapshots[j].input_id
  /\ last_checked_input \in 0 .. Len(made)
  /\ server_input_id \in 0 .. Len(made)

IInv == Typed /\ Aligned /\ QueuesAreTyped /\ OthersStaySynced

-----------------------------------------------------------------------------
(* Induction over the naturals. *)

\* A set with 0, and with n + 1 when it has n, has every natural number.
LEMMA NatSetInduction ==
  ASSUME NEW S, 0 \in S, \A n \in Nat : n \in S => n + 1 \in S
  PROVE  Nat \subseteq S
<1> DEFINE T == Nat \ S
           R == OpToRel(<, Nat)
<1>1. IsWellFoundedOn(R, Nat)
  BY NatLessThanWellFounded
<1>2. SUFFICES ASSUME T # {} PROVE FALSE
  OBVIOUS
<1>3. T \subseteq Nat
  OBVIOUS
<1>4. \A x, y \in Nat : y < x => <<y, x>> \in R
  BY DEF OpToRel
<1> HIDE DEF T, R
<1>5. PICK x \in T : \A y \in T : ~ (<<y, x>> \in R)
  BY <1>1, <1>2, <1>3, WFMin
<1>6. x # 0 /\ x \in Nat
  BY <1>3 DEF T
<1>7. x - 1 \in Nat /\ x - 1 < x /\ (x - 1) + 1 = x
  BY <1>6
<1>8. x - 1 \notin T
  BY <1>4, <1>5, <1>6, <1>7
<1>9. x - 1 \in S
  BY <1>7, <1>8 DEF T
<1>10. x \in S
  BY <1>7, <1>9
<1> QED BY <1>10 DEF T

\* A set of positions that is not empty has a first one.
LEMMA FirstOfPositions ==
  ASSUME NEW N \in Nat, NEW I \in SUBSET (1 .. N), I /= {}
  PROVE  Min(I) \in I /\ \A k \in I : Min(I) <= k
<1> DEFINE R == OpToRel(<, Nat)
<1>1. IsWellFoundedOn(R, Nat)
  BY NatLessThanWellFounded
<1>2. I \subseteq Nat
  OBVIOUS
<1>3. \A x, y \in Nat : y < x => <<y, x>> \in R
  BY DEF OpToRel
<1> HIDE DEF R
<1>4. PICK x \in I : \A y \in I : ~ (<<y, x>> \in R)
  BY <1>1, <1>2, WFMin
<1>5. ASSUME NEW y \in I PROVE x <= y
  <2>1. x \in Nat /\ y \in Nat
    BY <1>2
  <2>2. ~ y < x
    BY <1>3, <1>4, <2>1
  <2> QED BY <2>1, <2>2
<1> QED BY <1>5 DEF Min

\* g has what the first steps of F make of x.
IsIteration(g, N, X, x, F) ==
  /\ g \in [0 .. N -> X]
  /\ g[0] = x /\ \A k \in 1 .. N : g[k] = F[k][g[k - 1]]

\* A function can be applied step after step.
LEMMA IterationExists ==
  ASSUME NEW N \in Nat, NEW X, NEW x \in X, NEW F \in [Nat -> [X -> X]]
  PROVE  \E g : IsIteration(g, N, X, x, F)
<1> DEFINE P(n, g) == g[0] = x /\ \A k \in 1 .. n : g[k] = F[k][g[k - 1]]
           S == {n \in Nat : \E g \in [0 .. n -> X] : P(n, g)}
<1>1. 0 \in S
  <2>1. [k \in 0 .. 0 |-> x] \in [0 .. 0 -> X] /\ P(0, [k \in 0 .. 0 |-> x])
    OBVIOUS
  <2> QED BY <2>1
<1>2. ASSUME NEW n \in Nat, n \in S PROVE n + 1 \in S
  <2>1. PICK g \in [0 .. n -> X] : P(n, g)
    BY <1>2
  <2> DEFINE h == [k \in 0 .. n + 1 |-> IF k = n + 1 THEN F[n + 1][g[n]] ELSE g[k]]
  <2>2. h \in [0 .. n + 1 -> X]
    <3>1. \A k \in 0 .. n + 1 : k = n + 1 \/ k \in 0 .. n
      OBVIOUS
    <3>2. n \in 0 .. n
      OBVIOUS
    <3> QED BY <3>1, <3>2
  <2>3. \A k \in 0 .. n : h[k] = g[k]
    OBVIOUS
  <2>4. h[n + 1] = F[n + 1][g[n]]
    OBVIOUS
  <2> HIDE DEF h
  <2>5. \A k \in 1 .. n + 1 : h[k] = F[k][h[k - 1]]
    <3> SUFFICES ASSUME NEW k \in 1 .. n + 1 PROVE h[k] = F[k][h[k - 1]]
      OBVIOUS
    <3>1. CASE k = n + 1
      <4>1. k - 1 = n /\ n \in 0 .. n
        BY <3>1
      <4> QED BY <2>3, <2>4, <3>1, <4>1
    <3>2. CASE k /= n + 1
      <4>1. k \in 1 .. n /\ k \in 0 .. n /\ k - 1 \in 0 .. n
        BY <3>2
      <4>2. h[k] = g[k] /\ h[k - 1] = g[k - 1]
        BY <2>3, <4>1
      <4> QED BY <2>1, <4>1, <4>2
    <3> QED BY <3>1, <3>2
  <2>6. h[0] = x
    <3>1. 0 \in 0 .. n
      OBVIOUS
    <3> QED BY <2>1, <2>3, <3>1
  <2>7. P(n + 1, h) /\ n + 1 \in Nat
    BY <2>5, <2>6
  <2> QED BY <2>2, <2>7
<1> HIDE DEF S
<1>3. Nat \subseteq S
  BY <1>1, <1>2, NatSetInduction
<1>4. PICK g \in [0 .. N -> X] : P(N, g)
  BY <1>3 DEF S
<1>5. IsIteration(g, N, X, x, F)
  BY <1>4 DEF IsIteration
<1> QED BY <1>5

-----------------------------------------------------------------------------
(* The frames that are left once one is checked. *)

\* The frames after the j-th of a queue of consecutive frames are those behind it.
LEMMA AfterPopsTheFront ==
  ASSUME NEW s \in Seq(Frame), NEW N \in Nat, NEW j \in 1 .. Len(s), NEW id,
         \A i \in 1 .. Len(s) : s[i].id = N - Len(s) + i,
         id = N - Len(s) + j
  PROVE  /\ After(s, id) \in Seq(Frame)
         /\ Len(After(s, id)) = Len(s) - j
         /\ \A i \in 1 .. Len(s) - j : After(s, id)[i] = s[j + i]
<1> DEFINE L == Len(s)
           I == {k \in 1 .. L : s[k].id > id}
           k == SelectInSeq(s, LAMBDA f : f.id > id)
<1>1. L \in Nat /\ j \in 1 .. L
  OBVIOUS
<1>2. After(s, id) = IF k = 0 THEN <<>> ELSE SubSeq(s, k, L)
  BY DEF After, From
<1>3. k = IF I # {} THEN Min(I) ELSE 0
  BY DEF SelectInSeq
<1>4. \A i \in 1 .. L : s[i].id = N - L + i
  OBVIOUS
<1>5. \A i \in 1 .. L : i \in I <=> i > j
  <2>1. \A i \in 1 .. L : N - L + i > N - L + j <=> i > j
    BY <1>1
  <2> HIDE DEF L
  <2> QED BY <1>4, <2>1 DEF L
<1> HIDE DEF k
<1>6. CASE j = L
  <2>1. I = {}
    BY <1>1, <1>5, <1>6
  <2>2. After(s, id) = <<>> /\ L - j = 0
    BY <1>1, <1>2, <1>3, <1>6, <2>1
  <2>3. <<>> \in Seq(Frame) /\ Len(<<>>) = 0 /\ \A i : i \notin 1 .. 0
    OBVIOUS
  <2>4. Len(s) - j = 0
    BY <2>2
  <2> HIDE DEF L
  <2> QED BY <2>2, <2>3, <2>4
<1>7. CASE j < L
  <2>1. j + 1 \in I
    BY <1>1, <1>5, <1>7
  <2>2. Min(I) \in I /\ Min(I) <= j + 1
    BY <1>1, <2>1, FirstOfPositions
  <2>3. k = j + 1
    BY <1>1, <1>3, <1>5, <2>1, <2>2
  <2>4. After(s, id) = SubSeq(s, j + 1, L)
    <3>1. k /= 0
      BY <1>1, <2>3
    <3> QED BY <1>2, <2>3, <3>1
  <2>5. /\ SubSeq(s, j + 1, L) \in Seq(Frame)
        /\ Len(SubSeq(s, j + 1, L)) = L - j
    BY <1>1, <1>7
  <2>6. ASSUME NEW i \in 1 .. L - j PROVE SubSeq(s, j + 1, L)[i] = s[j + i]
    <3>1. (j + 1) + i - 1 = j + i
      BY <1>1
    <3> QED BY <1>1, <1>7, <3>1
  <2> HIDE DEF L
  <2> QED BY <2>4, <2>5, <2>6 DEF L
<1> QED BY <1>1, <1>6, <1>7

-----------------------------------------------------------------------------
(* The worlds the functions of the game make. *)

LEMMA ProcessedIsAWorld ==
  ASSUME NEW w \in World, NEW v \in Vars, NEW times
  PROVE  Processed(NodeOf[v], w, times) \in World
BY GameAssumption DEF Processed, World

\* The nodes together, each as often as it is rewound.
LEMMA NodesMakeAWorld ==
  ASSUME NEW w \in World, NEW nodes
  PROVE  [u \in Vars |-> IF IsSynced(u) THEN Processed(NodeOf[u], w, nodes[NodeOf[u]])[u] ELSE w[u]]
           \in World
<1> DEFINE p == [u \in Vars |->
                  IF IsSynced(u) THEN Processed(NodeOf[u], w, nodes[NodeOf[u]])[u] ELSE w[u]]
<1>1. ASSUME NEW u \in Vars PROVE p[u] \in Values
  <2>1. Processed(NodeOf[u], w, nodes[NodeOf[u]]) \in World
    BY ProcessedIsAWorld
  <2>2. p[u] = IF IsSynced(u) THEN Processed(NodeOf[u], w, nodes[NodeOf[u]])[u] ELSE w[u]
    OBVIOUS
  <2> HIDE DEF p
  <2> QED BY <2>1, <2>2 DEF World
<1>2. p = [u \in Vars |-> p[u]]
  OBVIOUS
<1> HIDE DEF p
<1>3. p \in World
  BY <1>1, <1>2 DEF World
<1> QED BY <1>3 DEF p

LEMMA ActedIsAWorld ==
  ASSUME NEW w \in World, NEW a \in Actions \cup {NoAction}
  PROVE  /\ Acted(a, w) \in World
         /\ \A v \in Vars : NodeOf[v] \notin Targets => Acted(a, w)[v] = w[v]
BY GameAssumption DEF Acted, World

LEMMA PlayIsAWorld ==
  ASSUME NEW w \in World, NEW deed \in Deed
  PROVE  Play(w, deed) \in World
<1> DEFINE processed == [v \in Vars |-> Process(NodeOf[v], w)[v]]
<1>1. processed \in World
  BY GameAssumption DEF World
<1>2. deed.input \in Inputs /\ deed.meets \in SUBSET Dependable /\ deed.action \in Actions \cup {NoAction}
  BY DEF Deed
<1>3. Control(deed.input, deed.meets, processed) \in World
  BY <1>1, <1>2, GameAssumption DEF World
<1> QED BY <1>2, <1>3, ActedIsAWorld DEF Play

-----------------------------------------------------------------------------
(* The rewind. *)

\* A rewind so far: the world, what the synchronizer knows of it, the old values
\* noted and the snapshots rewritten.
RewindState == [
  value : World,
  cached : World,
  events : UNION {[D -> Known] : D \in SUBSET Vars},
  snapshots : Seq(ClientSnapshot)]

\* What is noted is what the synchronizer knew before, of all that changed since.
EventsAreOld(r) ==
  \A v \in Vars : IF v \in DOMAIN r.events THEN r.events[v] = var_values[v]
                  ELSE r.cached[v] = var_values[v]

\* A stopped node that neither an action nor the controller moves.
Rests(v) ==
  /\ NodeOf[v] \notin sync_enabled \cup Targets
  /\ NodeOf[v] \in Own => Controller \notin sync_enabled

\* The synchronizer knows of the stopped nodes what it knew, and they are where they
\* were unless something else moves them.
StoppedAreKept(r) ==
  \A v \in Vars :
    /\ NodeOf[v] \notin sync_enabled => r.cached[v] = var_values[v]
    /\ Rests(v) => r.value[v] = value[v]

\* A snapshot q is that of p's frame, and has what p has of the stopped nodes.
KeepsTheStopped(q, p) ==
  /\ q.input_id = p.input_id
  /\ \A v \in Vars : NodeOf[v] \notin sync_enabled => q.values[v] = p.values[v]

\* One instant.
LEMMA InstantKeeps ==
  ASSUME NEW r \in RewindState, NEW frame \in Frame, NEW snapshot \in ClientSnapshot,
         NEW nodes, NEW controller \in BOOLEAN
  PROVE  LET q == Instant(r, frame, snapshot, nodes, controller) IN
         /\ q \in RewindState
         /\ EventsAreOld(r) => EventsAreOld(q)
         /\ StoppedAreKept(r) => StoppedAreKept(q)
         /\ Len(q.snapshots) = Len(r.snapshots) + 1
         /\ \A k \in 1 .. Len(r.snapshots) : q.snapshots[k] = r.snapshots[k]
         /\ KeepsTheStopped(q.snapshots[Len(r.snapshots) + 1], snapshot)
<1> DEFINE processed == [v \in Vars |->
                 IF IsSynced(v) THEN Processed(NodeOf[v], r.value, nodes[NodeOf[v]])[v]
                                ELSE r.value[v]]
           controlled == IF controller /\ Controller \in sync_enabled
                           THEN Control(frame.input, frame.meets, processed) ELSE processed
           acted == Acted(snapshot.action, controlled)
           pulled == Rewound(nodes)
           changed == Changed(pulled, acted, r.cached)
           cached == [v \in Vars |-> IF v \in changed THEN acted[v] ELSE r.cached[v]]
           new == [v \in changed |-> r.cached[v]]
           events == Noted(r.events, new)
           stored == [snapshot EXCEPT !.values =
                       [v \in Vars |-> IF v \in pulled THEN acted[v] ELSE snapshot.values[v]]]
           snapshots == Append(r.snapshots, stored)
           q == Instant(r, frame, snapshot, nodes, controller)
<1>1. /\ r.value \in World /\ r.cached \in World
      /\ r.events \in UNION {[D -> Known] : D \in SUBSET Vars}
      /\ r.snapshots \in Seq(ClientSnapshot)
  BY DEF RewindState
<1>2. /\ frame.input \in Inputs /\ frame.meets \in SUBSET Dependable
      /\ snapshot.action \in Actions \cup {NoAction} /\ snapshot.values \in World
  BY DEF Frame, ClientSnapshot
<1>3. q = [value |-> acted, cached |-> cached, events |-> events, snapshots |-> snapshots]
  BY DEF Instant
<1>4. q.value = acted /\ q.cached = cached /\ q.events = events /\ q.snapshots = snapshots
  BY <1>3
<1> HIDE DEF q
<1>5. processed \in World /\ \A v \in Vars : ~ IsSynced(v) => processed[v] = r.value[v]
  BY <1>1, NodesMakeAWorld
<1> HIDE DEF processed
<1>6. /\ controlled \in World
      /\ \A v \in Vars : Rests(v) => controlled[v] = processed[v]
  <2>2. CASE controller /\ Controller \in sync_enabled
    <3>1. /\ Control(frame.input, frame.meets, processed) \in World
          /\ \A v \in Vars : NodeOf[v] \notin Controlled \cup {Controller} =>
               Control(frame.input, frame.meets, processed)[v] = processed[v]
      BY <1>2, <1>5, GameAssumption DEF World
    <3> QED BY <2>2, <3>1 DEF Rests, Own
  <2>3. CASE ~ (controller /\ Controller \in sync_enabled)
    BY <1>5, <2>3
  <2> QED BY <2>2, <2>3
<1> HIDE DEF controlled
<1>7. /\ acted \in World
      /\ \A v \in Vars : Rests(v) => acted[v] = r.value[v]
  <2>1. /\ acted \in World
        /\ \A v \in Vars : NodeOf[v] \notin Targets => acted[v] = controlled[v]
    BY <1>2, <1>6, ActedIsAWorld
  <2> QED BY <1>5, <1>6, <2>1 DEF IsSynced, Rests
<1> HIDE DEF acted
<1>8. pulled \subseteq Vars /\ \A v \in pulled : NodeOf[v] \in sync_enabled
  BY DEF Rewound, IsSynced
<1>9. changed \subseteq pulled
  BY DEF Changed
<1> HIDE DEF pulled, changed
<1>10. \A v \in Vars : acted[v] \in Known
  BY <1>7 DEF World, Known
<1>11. cached \in World
  BY <1>1, <1>7 DEF World
<1>12. /\ DOMAIN r.events \subseteq Vars /\ \A v \in DOMAIN r.events : r.events[v] \in Known
       /\ \A v \in Vars : r.cached[v] \in Known
  BY <1>1 DEF World, Known
<1>13. /\ DOMAIN events = DOMAIN r.events \cup changed
       /\ \A v \in DOMAIN r.events \cup changed :
            events[v] = IF v \in DOMAIN r.events THEN r.events[v] ELSE r.cached[v]
       /\ events = [v \in DOMAIN events |-> events[v]]
  <2>1. DOMAIN new = changed /\ \A v \in changed : new[v] = r.cached[v]
    OBVIOUS
  <2> HIDE DEF new
  <2>2. events = [v \in DOMAIN r.events \cup changed |->
                    IF v \in DOMAIN r.events THEN r.events[v] ELSE new[v]]
    BY <2>1 DEF Noted, Over
  <2> HIDE DEF events
  <2>3. DOMAIN events = DOMAIN r.events \cup changed
    BY <2>2
  <2>4. \A v \in DOMAIN r.events \cup changed :
          events[v] = IF v \in DOMAIN r.events THEN r.events[v] ELSE new[v]
    BY <2>2
  <2>5. events = [v \in DOMAIN events |-> events[v]]
    BY <2>2
  <2> QED BY <2>1, <2>3, <2>4, <2>5
<1> HIDE DEF events
<1>14. events \in UNION {[D -> Known] : D \in SUBSET Vars}
  <2>1. DOMAIN events \in SUBSET Vars
    BY <1>8, <1>9, <1>12, <1>13
  <2>2. \A v \in DOMAIN events : events[v] \in Known
    BY <1>1, <1>8, <1>9, <1>12, <1>13
  <2>3. events \in [DOMAIN events -> Known]
    BY <1>13, <2>2
  <2> QED BY <2>1, <2>3
<1>15. stored \in ClientSnapshot /\ KeepsTheStopped(stored, snapshot)
  <2> DEFINE rewritten == [v \in Vars |-> IF v \in pulled THEN acted[v] ELSE snapshot.values[v]]
  <2>1. rewritten \in World
    BY <1>2, <1>7 DEF World
  <2>2. \A v \in Vars : NodeOf[v] \notin sync_enabled => rewritten[v] = snapshot.values[v]
    BY <1>8
  <2> HIDE DEF rewritten
  <2>3. /\ stored \in ClientSnapshot /\ stored.input_id = snapshot.input_id
        /\ stored.values = rewritten
    BY <2>1 DEF ClientSnapshot, rewritten
  <2> QED BY <2>2, <2>3 DEF KeepsTheStopped
<1> HIDE DEF stored
<1>16. /\ snapshots \in Seq(ClientSnapshot)
       /\ Len(snapshots) = Len(r.snapshots) + 1
       /\ \A k \in 1 .. Len(r.snapshots) : snapshots[k] = r.snapshots[k]
       /\ snapshots[Len(r.snapshots) + 1] = stored
  BY <1>1, <1>15
<1> HIDE DEF snapshots
<1>17. q \in RewindState
  BY <1>3, <1>7, <1>11, <1>14, <1>16 DEF RewindState
<1>18. ASSUME EventsAreOld(r) PROVE EventsAreOld(q)
  <2> SUFFICES ASSUME NEW v \in Vars
               PROVE  IF v \in DOMAIN events THEN events[v] = var_values[v]
                      ELSE cached[v] = var_values[v]
    BY <1>4 DEF EventsAreOld
  <2>1. IF v \in DOMAIN r.events THEN r.events[v] = var_values[v] ELSE r.cached[v] = var_values[v]
    BY <1>18 DEF EventsAreOld
  <2> QED BY <1>13, <2>1
<1>19. ASSUME StoppedAreKept(r) PROVE StoppedAreKept(q)
  <2> SUFFICES ASSUME NEW v \in Vars
               PROVE  /\ NodeOf[v] \notin sync_enabled => cached[v] = var_values[v]
                      /\ Rests(v) => acted[v] = value[v]
    BY <1>4 DEF StoppedAreKept
  <2>1. /\ NodeOf[v] \notin sync_enabled => r.cached[v] = var_values[v]
        /\ Rests(v) => r.value[v] = value[v]
    BY <1>19 DEF StoppedAreKept, Rests
  <2>2. NodeOf[v] \notin sync_enabled => v \notin changed
    BY <1>8, <1>9
  <2> QED BY <1>7, <2>1, <2>2
<1> QED BY <1>4, <1>15, <1>16, <1>17, <1>18, <1>19 DEF q

\* Where a rewind is after each of its instants.
IsUnfolded(To, start, frames, snapshots, nodes, controller) ==
  /\ To \in [0 .. Len(frames) -> RewindState]
  /\ To[0] = start
  /\ \A i \in 1 .. Len(frames) :
       To[i] = Instant(To[i - 1], frames[i], snapshots[i], nodes, controller)
  /\ To[Len(frames)] = Rewind(start, frames, snapshots, nodes, controller)

\* A rewind goes instant after instant, when there is a snapshot for each frame.
LEMMA RewindUnfolds ==
  ASSUME NEW start \in RewindState,
         NEW frames \in Seq(Frame), NEW snapshots \in Seq(ClientSnapshot),
         Len(snapshots) = Len(frames), NEW nodes, NEW controller \in BOOLEAN
  PROVE  \E To : IsUnfolded(To, start, frames, snapshots, nodes, controller)
<1> DEFINE N == Len(frames)
           Body(g) == [i \in 0 .. N |->
             IF i = 0 THEN start
             ELSE Instant(g[i - 1], frames[i], snapshots[i], nodes, controller)]
           To == CHOOSE g : g = Body(g)
           F == [i \in Nat |-> [r \in RewindState |->
             IF i \in 1 .. N
               THEN Instant(r, frames[i], snapshots[i], nodes, controller) ELSE start]]
<1>1. N \in Nat /\ \A i \in 1 .. N : frames[i] \in Frame /\ snapshots[i] \in ClientSnapshot
  OBVIOUS
<1>2. Rewind(start, frames, snapshots, nodes, controller) = To[N]
  BY DEF Rewind
<1> HIDE DEF N
<1>3. \A r \in RewindState, i \in 1 .. N :
        Instant(r, frames[i], snapshots[i], nodes, controller) \in RewindState
  BY <1>1, InstantKeeps
<1>4. F \in [Nat -> [RewindState -> RewindState]]
  BY <1>3
<1>5. \A i \in 1 .. N : \A r \in RewindState :
        F[i][r] = Instant(r, frames[i], snapshots[i], nodes, controller)
  BY <1>1
<1> HIDE DEF F
<1>iterated. PICK g : IsIteration(g, N, RewindState, start, F)
  BY <1>1, <1>4, IterationExists
<1>6. /\ g \in [0 .. N -> RewindState]
      /\ g[0] = start /\ \A i \in 1 .. N : g[i] = F[i][g[i - 1]]
  BY <1>iterated DEF IsIteration
<1>7. g = Body(g)
  <2>1. ASSUME NEW i \in 0 .. N
        PROVE  g[i] = IF i = 0 THEN start
                      ELSE Instant(g[i - 1], frames[i], snapshots[i], nodes, controller)
    <3>1. CASE i = 0
      BY <1>6, <3>1
    <3>2. CASE i /= 0
      <4>1. i \in 1 .. N /\ i - 1 \in 0 .. N
        BY <1>1, <3>2
      <4>2. g[i - 1] \in RewindState /\ g[i] = F[i][g[i - 1]]
        BY <4>1, <1>6
      <4> QED BY <1>5, <3>2, <4>1, <4>2
    <3> QED BY <3>1, <3>2
  <2>2. g = [i \in 0 .. N |-> g[i]]
    BY <1>6
  <2>3. Body(g) = [i \in 0 .. N |-> g[i]]
    BY <2>1, Zenon
  <2> QED BY <2>2, <2>3
<1> HIDE DEF Body
<1>8. To = Body(To)
  BY <1>7
<1> HIDE DEF To
<1>9. To[0] = start /\
      \A i \in 1 .. N : To[i] = Instant(To[i - 1], frames[i], snapshots[i], nodes, controller)
  <2>1. 0 \in 0 .. N
    BY <1>1
  <2>2. \A i \in 1 .. N : i \in 0 .. N /\ i /= 0
    BY <1>1
  <2>3. \A i \in 0 .. N : To[i] = IF i = 0 THEN start
                ELSE Instant(To[i - 1], frames[i], snapshots[i], nodes, controller)
    BY <1>8 DEF Body
  <2> QED BY <2>1, <2>2, <2>3
<1> DEFINE S == {i \in Nat : i \in 0 .. N => To[i] \in RewindState}
<1>10. 0 \in S
  BY <1>9
<1>11. ASSUME NEW i \in Nat, i \in S PROVE i + 1 \in S
  <2> SUFFICES ASSUME i + 1 \in 0 .. N PROVE To[i + 1] \in RewindState
    OBVIOUS
  <2>1. i \in 0 .. N /\ i + 1 \in 1 .. N /\ (i + 1) - 1 = i
    BY <1>1
  <2>2. To[i] \in RewindState
    BY <1>11, <2>1
  <2>3. To[i + 1] = Instant(To[i], frames[i + 1], snapshots[i + 1], nodes, controller)
    BY <1>9, <2>1
  <2> QED BY <1>3, <2>1, <2>2, <2>3
<1> HIDE DEF S
<1>12. Nat \subseteq S
  BY <1>10, <1>11, NatSetInduction
<1>13. To = [i \in 0 .. N |-> To[i]]
  BY <1>8 DEF Body
<1>14. To \in [0 .. N -> RewindState]
  <2>1. \A i \in 0 .. N : To[i] \in RewindState
    BY <1>1, <1>12 DEF S
  <2> QED BY <1>13, <2>1
<1>15. IsUnfolded(To, start, frames, snapshots, nodes, controller)
  BY <1>2, <1>9, <1>14 DEF IsUnfolded, N
<1> QED BY <1>15

\* What a rewind has noted, kept and stored after i instants.
HasKept(To, i, snapshots) ==
  /\ EventsAreOld(To[i]) /\ StoppedAreKept(To[i])
  /\ Len(To[i].snapshots) = i
  /\ \A k \in 1 .. i : /\ To[i].snapshots[k] = To[k].snapshots[k]
                       /\ KeepsTheStopped(To[i].snapshots[k], snapshots[k])

LEMMA UnfoldedKeeps ==
  ASSUME NEW start \in RewindState, start.snapshots = <<>>,
         EventsAreOld(start), StoppedAreKept(start),
         NEW frames \in Seq(Frame), NEW snapshots \in Seq(ClientSnapshot),
         Len(snapshots) = Len(frames), NEW nodes, NEW controller \in BOOLEAN,
         NEW To, IsUnfolded(To, start, frames, snapshots, nodes, controller),
         NEW i \in 0 .. Len(frames)
  PROVE  HasKept(To, i, snapshots)
<1> DEFINE N == Len(frames)
           Q(r, k) == /\ r \in RewindState
                      /\ EventsAreOld(r)
                      /\ StoppedAreKept(r)
                      /\ Len(r.snapshots) = k
                      /\ \A l \in 1 .. k : /\ r.snapshots[l] = To[l].snapshots[l]
                                           /\ KeepsTheStopped(r.snapshots[l], snapshots[l])
           S == {k \in Nat : k \in 0 .. N => Q(To[k], k)}
<1>1. N \in Nat /\ \A k \in 1 .. N : frames[k] \in Frame /\ snapshots[k] \in ClientSnapshot
  OBVIOUS
<1>2. /\ To \in [0 .. N -> RewindState]
      /\ To[0] = start
      /\ \A k \in 1 .. N : To[k] = Instant(To[k - 1], frames[k], snapshots[k], nodes, controller)
  BY DEF IsUnfolded
<1>instant. ASSUME NEW r \in RewindState, NEW k \in 1 .. N
            PROVE  LET q == Instant(r, frames[k], snapshots[k], nodes, controller) IN
                   /\ q \in RewindState
                   /\ EventsAreOld(r) => EventsAreOld(q)
                   /\ StoppedAreKept(r) => StoppedAreKept(q)
                   /\ Len(q.snapshots) = Len(r.snapshots) + 1
                   /\ \A l \in 1 .. Len(r.snapshots) : q.snapshots[l] = r.snapshots[l]
                   /\ KeepsTheStopped(q.snapshots[Len(r.snapshots) + 1], snapshots[k])
  BY <1>1, InstantKeeps
<1> HIDE DEF N
<1>3. 0 \in S
  <2>1. Len(<<>>) = 0 /\ \A k : k \notin 1 .. 0
    OBVIOUS
  <2> QED BY <1>2, <2>1
<1>4. ASSUME NEW k \in Nat, k \in S PROVE k + 1 \in S
  <2> SUFFICES ASSUME k + 1 \in 0 .. N PROVE Q(To[k + 1], k + 1)
    OBVIOUS
  <2>1. k \in 0 .. N /\ k + 1 \in 1 .. N /\ (k + 1) - 1 = k
    BY <1>1
  <2>2. Q(To[k], k)
    BY <1>4, <2>1
  <2> DEFINE r == To[k]
             q == Instant(r, frames[k + 1], snapshots[k + 1], nodes, controller)
  <2>3. To[k + 1] = q
    BY <1>2, <2>1
  <2>4. /\ q \in RewindState
        /\ EventsAreOld(r) => EventsAreOld(q)
        /\ StoppedAreKept(r) => StoppedAreKept(q)
        /\ Len(q.snapshots) = Len(r.snapshots) + 1
        /\ \A l \in 1 .. Len(r.snapshots) : q.snapshots[l] = r.snapshots[l]
        /\ KeepsTheStopped(q.snapshots[Len(r.snapshots) + 1], snapshots[k + 1])
    BY <1>instant, <2>1, <2>2
  <2>5. Q(r, k)
    BY <2>2
  <2> HIDE DEF q, r
  <2>6. \A l \in 1 .. k + 1 : l \in 1 .. k \/ l = k + 1
    OBVIOUS
  <2>7. \A l \in 1 .. k + 1 : /\ q.snapshots[l] = To[l].snapshots[l]
                              /\ KeepsTheStopped(q.snapshots[l], snapshots[l])
    BY <2>3, <2>4, <2>5, <2>6
  <2> QED BY <2>3, <2>4, <2>5, <2>7
<1> HIDE DEF S
<1>5. Nat \subseteq S
  BY <1>3, <1>4, NatSetInduction
<1>6. Q(To[i], i)
  <2>1. i \in S /\ i \in 0 .. N
    BY <1>1, <1>5 DEF N
  <2> QED BY <2>1 DEF S
<1> QED BY <1>6 DEF HasKept

\* After each instant one more snapshot is stored, and stays as it is.
StoresOneByOne(To, N) ==
  \A k \in 0 .. N : /\ Len(To[k].snapshots) = k
                    /\ \A l \in 1 .. k : To[k].snapshots[l] = To[l].snapshots[l]

LEMMA RewindStoresOneByOne ==
  ASSUME NEW start \in RewindState, start.snapshots = <<>>,
         EventsAreOld(start), StoppedAreKept(start),
         NEW frames \in Seq(Frame), NEW snapshots \in Seq(ClientSnapshot),
         Len(snapshots) = Len(frames), NEW nodes, NEW controller \in BOOLEAN
  PROVE  \E To : /\ IsUnfolded(To, start, frames, snapshots, nodes, controller)
                 /\ StoresOneByOne(To, Len(frames))
<1>1. PICK To : IsUnfolded(To, start, frames, snapshots, nodes, controller)
  BY RewindUnfolds
<1>2. ASSUME NEW k \in 0 .. Len(frames) PROVE HasKept(To, k, snapshots)
  BY <1>1, UnfoldedKeeps
<1> QED BY <1>1, <1>2 DEF StoresOneByOne, HasKept

\* The same at its end.
LEMMA RewindKeeps ==
  ASSUME NEW start \in RewindState, start.snapshots = <<>>,
         EventsAreOld(start), StoppedAreKept(start),
         NEW frames \in Seq(Frame), NEW snapshots \in Seq(ClientSnapshot),
         Len(snapshots) = Len(frames), NEW nodes, NEW controller \in BOOLEAN
  PROVE  LET q == Rewind(start, frames, snapshots, nodes, controller) IN
         /\ q \in RewindState
         /\ EventsAreOld(q)
         /\ StoppedAreKept(q)
         /\ Len(q.snapshots) = Len(frames)
         /\ \A k \in 1 .. Len(frames) : KeepsTheStopped(q.snapshots[k], snapshots[k])
<1>1. PICK To : IsUnfolded(To, start, frames, snapshots, nodes, controller)
  BY RewindUnfolds
<1>2. Len(frames) \in 0 .. Len(frames)
  OBVIOUS
<1>3. To[Len(frames)] = Rewind(start, frames, snapshots, nodes, controller)
      /\ To[Len(frames)] \in RewindState
  BY <1>1, <1>2 DEF IsUnfolded
<1> DEFINE L == Len(frames)
<1>4. L \in 0 .. Len(frames)
  BY <1>2
<1> HIDE DEF L
<1>5. /\ EventsAreOld(To[L]) /\ StoppedAreKept(To[L]) /\ Len(To[L].snapshots) = L
      /\ \A k \in 1 .. L : /\ To[L].snapshots[k] = To[k].snapshots[k]
                           /\ KeepsTheStopped(To[L].snapshots[k], snapshots[k])
  <2>1. HasKept(To, L, snapshots)
    BY <1>1, <1>4, UnfoldedKeeps
  <2> QED BY <2>1 DEF HasKept
<1> QED BY <1>3, <1>5 DEF L

-----------------------------------------------------------------------------
(* The queues. *)

\* The ids of a queue, which IsConsecutive is told of.
LEMMA IdsOf ==
  ASSUME NEW n \in Nat, NEW g, g = [i \in 1 .. n |-> g[i]]
  PROVE  IsConsecutive(g) <=> \A i \in 1 .. n : g[i] = Len(made) - n + i
<1>1. Len(g) = n
  OBVIOUS
<1> QED BY <1>1 DEF IsConsecutive

LEMMA AlignedAreConsecutive ==
  Aligned /\ QueuesAreTyped =>
    /\ IsConsecutive([i \in 1 .. Len(frames_snapshot) |-> frames_snapshot[i].id])
    /\ IsConsecutive([i \in 1 .. Len(client_snapshots) |-> client_snapshots[i].input_id])
<1> SUFFICES ASSUME Aligned, QueuesAreTyped
             PROVE  /\ IsConsecutive([i \in 1 .. Len(frames_snapshot) |-> frames_snapshot[i].id])
                    /\ IsConsecutive([i \in 1 .. Len(client_snapshots) |->
                                        client_snapshots[i].input_id])
  OBVIOUS
<1> DEFINE f == [i \in 1 .. Len(frames_snapshot) |-> frames_snapshot[i].id]
           c == [i \in 1 .. Len(client_snapshots) |-> client_snapshots[i].input_id]
<1>1. Len(frames_snapshot) \in Nat /\ Len(client_snapshots) \in Nat
  BY DEF QueuesAreTyped
<1>2. IsConsecutive(f)
  <2>1. \A i \in 1 .. Len(frames_snapshot) : f[i] = Len(made) - Len(frames_snapshot) + i
    BY DEF Aligned
  <2>2. f = [i \in 1 .. Len(frames_snapshot) |-> f[i]]
    OBVIOUS
  <2> HIDE DEF f
  <2> QED BY <1>1, <2>1, <2>2, IdsOf
<1>3. IsConsecutive(c)
  <2>1. \A i \in 1 .. Len(client_snapshots) : c[i] = Len(made) - Len(client_snapshots) + i
    BY DEF Aligned
  <2>2. c = [i \in 1 .. Len(client_snapshots) |-> c[i]]
    OBVIOUS
  <2> HIDE DEF c
  <2> QED BY <1>1, <2>1, <2>2, IdsOf
<1> QED BY <1>2, <1>3

LEMMA InvariantTypes == IInv => TypeOK
BY AlignedAreConsecutive DEF IInv, TypeOK, Typed, Known, Aligned

\* A checked state is of a frame that is stored, at j; what is left of both queues is
\* what is behind it.
LEMMA CheckedAligns ==
  ASSUME IInv, NEW i \in 1 .. Len(server_snapshots), Checkable(i)
  PROVE  LET id == server_snapshots[i].input_id
             j == CheckedFrame(i)
             left == SubSeq(client_snapshots, j + 1, Len(client_snapshots))
         IN  /\ id \in 1 .. Len(made)
             /\ j \in 1 .. Len(client_snapshots) /\ client_snapshots[j].input_id = id
             /\ left \in Seq(ClientSnapshot) /\ Len(left) = Len(frames_snapshot) - j
             /\ \A k \in 1 .. Len(left) : /\ left[k].input_id = Len(made) - Len(left) + k
                                           /\ left[k] = client_snapshots[j + k]
             /\ After(frames_snapshot, id) \in Seq(Frame)
             /\ Len(After(frames_snapshot, id)) = Len(frames_snapshot) - j
             /\ \A k \in 1 .. Len(frames_snapshot) - j :
                  After(frames_snapshot, id)[k] = frames_snapshot[j + k]
<1> DEFINE id == server_snapshots[i].input_id
           j == CheckedFrame(i)
           L == Len(client_snapshots)
           M == Len(made)
           left == SubSeq(client_snapshots, j + 1, L)
<1>1. /\ frames_snapshot \in Seq(Frame) /\ client_snapshots \in Seq(ClientSnapshot)
      /\ made \in Seq(Deed) /\ id \in 1 .. M
  BY DEF IInv, QueuesAreTyped
<1>2. j \in 1 .. L /\ client_snapshots[j].input_id = id
  BY DEF Checkable, CheckedFrame
<1>3. /\ Len(frames_snapshot) = L /\ L \in Nat /\ M \in Nat
      /\ \A k \in 1 .. L : frames_snapshot[k].id = M - L + k
      /\ \A k \in 1 .. L : client_snapshots[k].input_id = M - L + k
  <2>1. L \in Nat /\ M \in Nat
    BY <1>1
  <2>2. Aligned
    BY DEF IInv
  <2>3. Len(frames_snapshot) = L
    BY <2>2 DEF Aligned
  <2>4. \A k \in 1 .. L : client_snapshots[k].input_id = M - L + k
    BY <2>2 DEF Aligned
  <2>5. \A k \in 1 .. Len(frames_snapshot) :
          frames_snapshot[k].id = M - Len(frames_snapshot) + k
    BY <2>2 DEF Aligned
  <2> HIDE DEF L, M
  <2> QED BY <2>1, <2>3, <2>4, <2>5
<1> HIDE DEF j, id
<1>4. id = M - L + j
  BY <1>2, <1>3
<1>5. /\ After(frames_snapshot, id) \in Seq(Frame)
      /\ Len(After(frames_snapshot, id)) = L - j
      /\ \A k \in 1 .. L - j : After(frames_snapshot, id)[k] = frames_snapshot[j + k]
  <2> HIDE DEF L, M
  <2>1. /\ j \in 1 .. Len(frames_snapshot) /\ M \in Nat
        /\ \A k \in 1 .. Len(frames_snapshot) : frames_snapshot[k].id = M - Len(frames_snapshot) + k
        /\ id = M - Len(frames_snapshot) + j
    BY <1>2, <1>3, <1>4
  <2>2. /\ After(frames_snapshot, id) \in Seq(Frame)
        /\ Len(After(frames_snapshot, id)) = Len(frames_snapshot) - j
        /\ \A k \in 1 .. Len(frames_snapshot) - j :
             After(frames_snapshot, id)[k] = frames_snapshot[j + k]
    BY <1>1, <2>1, AfterPopsTheFront
  <2> QED BY <1>3, <2>2
<1>6. left \in Seq(ClientSnapshot) /\ Len(left) = L - j
  BY <1>1, <1>2
<1>7. \A k \in 1 .. L - j : left[k] = client_snapshots[j + k]
  <2>1. \A k \in 1 .. L - j : (j + 1) + k - 1 = j + k
    BY <1>2, <1>3
  <2> QED BY <1>1, <1>2, <2>1
<1> HIDE DEF left
<1>8. \A k \in 1 .. Len(left) : left[k].input_id = M - Len(left) + k
  <2> HIDE DEF L, M
  <2>1. \A k \in 1 .. L - j : j + k \in 1 .. L /\ M - L + (j + k) = M - (L - j) + k
    BY <1>2, <1>3
  <2> QED BY <1>3, <1>6, <1>7, <2>1
<1> QED BY <1>1, <1>2, <1>3, <1>5, <1>6, <1>7, <1>8 DEF id, j, left

\* While frames are stored, the synchronizer has a value of every variable.
LEMMA CheckedIsCached ==
  ASSUME IInv, NEW i \in 1 .. Len(server_snapshots), Checkable(i)
  PROVE  var_values \in World
<1>1. client_snapshots \in Seq(ClientSnapshot) /\ \E c \in 1 .. Len(client_snapshots) : TRUE
  BY DEF IInv, QueuesAreTyped, Checkable
<1>2. client_snapshots /= <<>>
  BY <1>1
<1> QED BY <1>2 DEF IInv, QueuesAreTyped

\* What every comparison ends in keeps the invariant, whatever it makes of the values
\* of the snapshots that are left.
LEMMA CheckedKeeps ==
  ASSUME IInv, NEW i \in 1 .. Len(server_snapshots), Checkable(i),
         NEW left \in Seq(ClientSnapshot),
         Len(left) = Len(frames_snapshot) - CheckedFrame(i),
         \A k \in 1 .. Len(left) : left[k].input_id = Len(made) - Len(left) + k,
         value' \in World, var_values' \in World, Checked(i, left)
  PROVE  IInv'
<1> DEFINE id == server_snapshots[i].input_id
           j == CheckedFrame(i)
           frames == After(frames_snapshot, id)
           N == Len(server_snapshots)
<1>1. /\ id \in 1 .. Len(made)
      /\ j \in 1 .. Len(client_snapshots)
      /\ frames \in Seq(Frame)
      /\ Len(frames) = Len(frames_snapshot) - j
      /\ \A k \in 1 .. Len(frames_snapshot) - j : frames[k] = frames_snapshot[j + k]
  BY CheckedAligns
<1>2. /\ server_snapshots' = SubSeq(server_snapshots, i + 1, N)
      /\ client_snapshots' = left
      /\ frames_snapshot' = frames
      /\ last_checked_input' = id
      /\ UNCHANGED <<sync_enabled, stopped, current_input_id, server_values, server_input_id,
                     states, made>>
      /\ Purge
  BY DEF Checked, serverVars, syncVars
<1>3. /\ frames_snapshot \in Seq(Frame) /\ client_snapshots \in Seq(ClientSnapshot)
      /\ server_snapshots \in Seq(State) /\ made \in Seq(Deed)
      /\ QueuesAreTyped /\ Typed /\ Aligned /\ OthersStaySynced
  BY DEF IInv, QueuesAreTyped
<1> HIDE DEF id, j, frames
<1>4. /\ SubSeq(server_snapshots, i + 1, N) \in Seq(State)
      /\ Len(SubSeq(server_snapshots, i + 1, N)) = N - i
      /\ \A k \in 1 .. N - i :
           SubSeq(server_snapshots, i + 1, N)[k] = server_snapshots[i + k]
  <2>1. N \in Nat /\ i \in 1 .. N /\ \A k \in 1 .. N - i : (i + 1) + k - 1 = i + k
    BY <1>3
  <2> QED BY <1>3, <2>1
<1>5. N \in Nat /\ i \in 1 .. N /\ \A k \in 1 .. N - i : i + k \in 1 .. N
  BY <1>3
<1>6. DOMAIN dependency_nodes_end' \subseteq DOMAIN dependency_nodes_end
      /\ dependency_nodes_end' \in [DOMAIN dependency_nodes_end' -> Ids \cup {Never}]
      /\ \A n \in DOMAIN dependency_nodes_end' : dependency_nodes_end'[n] \in Ids \cup {Never}
  BY <1>2, <1>3 DEF Purge, Typed, dependency_nodes
<1>7. Typed'
  <2>1. \A k, l \in 1 .. Len(server_snapshots') :
          k < l => server_snapshots'[k].input_id < server_snapshots'[l].input_id
    <3> SUFFICES ASSUME NEW k \in 1 .. N - i, NEW l \in 1 .. N - i, k < l
                 PROVE  server_snapshots[i + k].input_id < server_snapshots[i + l].input_id
      <4> HIDE DEF N
      <4>1. Len(server_snapshots') = N - i
        BY <1>2, <1>4
      <4>2. \A k \in 1 .. N - i : server_snapshots'[k] = server_snapshots[i + k]
        BY <1>2, <1>4
      <4> QED BY <4>1, <4>2
    <3>1. i + k < i + l
      BY <1>5
    <3> HIDE DEF N
    <3> QED BY <1>3, <1>5, <3>1 DEF Typed, N
  <2>2. Len(frames_snapshot') <= MaxStorage
    <3>1. Len(frames_snapshot) <= MaxStorage /\ Len(frames_snapshot) \in Nat /\ j \in Nat
      BY <1>1, <1>3 DEF Typed
    <3> QED BY <1>1, <1>2, <3>1, BoundsAssumption
  <2>3. last_checked_input' \in 0 .. Len(made')
    BY <1>1, <1>2, <1>3
  <2>4. dependency_nodes' \subseteq Dependable
        /\ \A n \in dependency_nodes' : dependency_nodes_end'[n] \in Ids \cup {Never}
    BY <1>3, <1>6 DEF Typed, dependency_nodes
  <2>5. value' \in World /\ var_values' \in [Vars -> Known]
    BY DEF World, Known
  <2> QED BY <1>2, <1>3, <2>1, <2>2, <2>3, <2>4, <2>5 DEF Typed, dependency_nodes, World, Ids, Never
<1>8. Aligned'
  <2> DEFINE L == Len(frames_snapshot)
             M == Len(made)
  <2>1. L \in Nat /\ M \in Nat /\ j \in 1 .. L
    BY <1>1, <1>3 DEF Aligned
  <2>2. Len(frames) = L - j /\ Len(left) = L - j
    BY <1>1 DEF j
  <2>3. \A k \in 1 .. L - j : left[k].input_id = M - (L - j) + k
    BY <2>2
  <2>4. \A k \in 1 .. L : /\ frames_snapshot[k].id = M - L + k
                          /\ frames_snapshot[k].input = made[frames_snapshot[k].id].input
    BY <1>3 DEF Aligned
  <2>5. \A k \in 1 .. L - j : frames[k] = frames_snapshot[j + k]
    BY <1>1
  <2> HIDE DEF L
  <2>6. \A k \in 1 .. L - j : j + k \in 1 .. L
    BY <2>1
  <2>7. \A k \in 1 .. L - j : /\ frames[k].id = M - (L - j) + k
                              /\ frames[k].input = made[frames[k].id].input
    <3> HIDE DEF M
    <3>1. \A k \in 1 .. L - j : M - L + (j + k) = M - (L - j) + k
      BY <2>1
    <3> QED BY <2>4, <2>5, <2>6, <3>1
  <2> HIDE DEF M
  <2> QED BY <1>2, <2>2, <2>3, <2>7 DEF Aligned, M
<1>9. QueuesAreTyped'
  <2>1. \A k \in 1 .. Len(server_snapshots') : server_snapshots'[k].input_id \in 1 .. Len(made')
    <3> HIDE DEF N
    <3>1. \A k \in 1 .. N : server_snapshots[k].input_id \in 1 .. Len(made)
      BY <1>3 DEF QueuesAreTyped, N
    <3> QED BY <1>2, <1>4, <1>5, <3>1
  <2>2. dependency_nodes_end' \in [dependency_nodes' -> Ids \cup {Never}]
    BY <1>6 DEF dependency_nodes
  <2> QED BY <1>1, <1>2, <1>3, <1>4, <2>1, <2>2 DEF QueuesAreTyped
<1>10. OthersStaySynced'
  BY <1>2, <1>3 DEF OthersStaySynced, Nodes
<1> QED BY <1>7, <1>8, <1>9, <1>10 DEF IInv

-----------------------------------------------------------------------------
(* The recoveries: what each tells, and what it leaves. *)

TellsTheDifference ==
  end_sync' = [v \in {u \in Vars : var_values'[u] /= var_values[u]} |-> var_values[v]]

LeavesTheStopped ==
  \A v \in Vars :
    /\ NodeOf[v] \notin sync_enabled => var_values'[v] = var_values[v]
    /\ Rests(v) => value'[v] = value[v]

\* The snapshots of the frames that are left have what they had of the stopped nodes.
LeavesTheirSnapshots ==
  \A k \in DOMAIN client_snapshots', l \in DOMAIN client_snapshots :
    client_snapshots'[k].input_id = client_snapshots[l].input_id =>
      KeepsTheStopped(client_snapshots'[k], client_snapshots[l])

\* They do when each is rewritten where it is, behind the frame that was checked.
LEMMA RewrittenSnapshots ==
  ASSUME IInv, NEW left \in Seq(ClientSnapshot), NEW j \in Nat,
         Len(left) = Len(client_snapshots) - j,
         \A k \in 1 .. Len(left) : left[k] = client_snapshots[j + k],
         client_snapshots' \in Seq(ClientSnapshot), Len(client_snapshots') = Len(left),
         \A k \in 1 .. Len(left) : KeepsTheStopped(client_snapshots'[k], left[k])
  PROVE  LeavesTheirSnapshots
<1> DEFINE L == Len(client_snapshots)
           M == Len(made)
<1> SUFFICES ASSUME NEW k \in DOMAIN client_snapshots', NEW l \in DOMAIN client_snapshots,
                    client_snapshots'[k].input_id = client_snapshots[l].input_id
             PROVE  KeepsTheStopped(client_snapshots'[k], client_snapshots[l])
  BY DEF LeavesTheirSnapshots
<1>1. client_snapshots \in Seq(ClientSnapshot) /\ made \in Seq(Deed) /\ Aligned
  BY DEF IInv, QueuesAreTyped
<1>2. L \in Nat /\ M \in Nat /\ \A n \in 1 .. L : client_snapshots[n].input_id = M - L + n
  BY <1>1 DEF Aligned
<1>3. DOMAIN client_snapshots' = 1 .. Len(left) /\ DOMAIN client_snapshots = 1 .. L
  BY <1>1
<1>4. /\ k \in 1 .. L - j /\ l \in 1 .. L
      /\ KeepsTheStopped(client_snapshots'[k], client_snapshots[j + k])
  BY <1>3
<1> HIDE DEF L, M
<1>5. j + k \in 1 .. L
  BY <1>2, <1>4
<1>6. client_snapshots[j + k].input_id = client_snapshots[l].input_id
  BY <1>4 DEF KeepsTheStopped
<1>7. j + k = l
  <2>1. /\ client_snapshots[j + k].input_id = M - L + (j + k)
        /\ client_snapshots[l].input_id = M - L + l
    BY <1>2, <1>4, <1>5
  <2>2. M - L + (j + k) = M - L + l
    BY <1>6, <2>1
  <2>3. j + k \in Int /\ l \in Int
    BY <1>4
  <2> QED BY <1>2, <2>2, <2>3
<1> QED BY <1>4, <1>7

\* END_SYNC tells exactly what differs when what was noted is old and the rest did
\* not change.
LEMMA EndSyncOfOld ==
  ASSUME NEW events, DOMAIN events \subseteq Vars,
         \A v \in DOMAIN events : events[v] = var_values[v],
         \A v \in Vars \ DOMAIN events : var_values'[v] = var_values[v],
         end_sync' = EndSync(events)
  PROVE  TellsTheDifference
<1>1. {u \in DOMAIN events : var_values'[u] /= events[u]}
        = {u \in Vars : var_values'[u] /= var_values[u]}
  OBVIOUS
<1>2. \A v \in {u \in Vars : var_values'[u] /= var_values[u]} : events[v] = var_values[v]
  BY <1>1
<1> QED BY <1>1, <1>2 DEF EndSync, TellsTheDifference

LEMMA ResetStarts ==
  ASSUME IInv, var_values \in World, NEW s \in [Told -> Values], NEW nodes
  PROVE  LET r == Reset(s, nodes) IN
         /\ r \in RewindState
         /\ r.snapshots = <<>>
         /\ EventsAreOld(r)
         /\ StoppedAreKept(r)
<1> DEFINE set == Rewound(nodes) \cap Told
           world == [v \in Vars |-> IF v \in set THEN s[v] ELSE value[v]]
           cached == [v \in Vars |-> IF v \in set THEN s[v] ELSE var_values[v]]
           events == [v \in set |-> var_values[v]]
           r == Reset(s, nodes)
<1>1. value \in [Vars -> Values] /\ var_values \in [Vars -> Known]
  BY DEF IInv, Typed, World
<1>2. set \subseteq Vars /\ set \subseteq Told /\ \A v \in set : NodeOf[v] \in sync_enabled
  BY DEF Rewound, IsSynced
<1>3. r = [value |-> world, cached |-> cached, events |-> events, snapshots |-> <<>>]
  BY DEF Reset
<1> HIDE DEF set, r
<1>4. world \in [Vars -> Values] /\ cached \in [Vars -> Values]
  BY <1>1, <1>2 DEF World
<1>5. events \in [set -> Known] /\ set \in SUBSET Vars
  BY <1>1, <1>2
<1>6. EventsAreOld(r) /\ StoppedAreKept(r)
  BY <1>2, <1>3 DEF EventsAreOld, StoppedAreKept, Rests
<1>7. r \in RewindState
  <2> HIDE DEF world, cached, events
  <2>1. events \in UNION {[D -> Known] : D \in SUBSET Vars}
    BY <1>5
  <2>2. <<>> \in Seq(ClientSnapshot)
    OBVIOUS
  <2> QED BY <1>3, <1>4, <2>1, <2>2 DEF RewindState, World
<1>8. r.snapshots = <<>>
  BY <1>3
<1> QED BY <1>6, <1>7, <1>8 DEF r

LEMMA RewindStep ==
  ASSUME IInv, NEW i \in 1 .. Len(server_snapshots), RecoverRewind(i)
  PROVE  IInv' /\ TellsTheDifference /\ LeavesTheStopped /\ LeavesTheirSnapshots
<1> DEFINE s == server_snapshots[i].values
           id == server_snapshots[i].input_id
           j == CheckedFrame(i)
           c == client_snapshots[j].values
           nodes == NodesToRecover(s, c)
           left == SubSeq(client_snapshots, j + 1, Len(client_snapshots))
           frames == After(frames_snapshot, id)
           start == Reset(s, nodes)
           with == RecoverController(s, c)
           r == Rewind(start, frames, left, nodes, with)
<1>1. /\ Checkable(i)
      /\ value' = r.value
      /\ var_values' = r.cached
      /\ end_sync' = EndSync(r.events)
      /\ Checked(i, r.snapshots)
  BY DEF RecoverRewind
<1>2. /\ left \in Seq(ClientSnapshot) /\ Len(left) = Len(frames_snapshot) - j
      /\ \A k \in 1 .. Len(left) : left[k].input_id = Len(made) - Len(left) + k
      /\ \A k \in 1 .. Len(left) : left[k] = client_snapshots[j + k]
      /\ frames \in Seq(Frame)
      /\ Len(frames) = Len(frames_snapshot) - j
  BY <1>1, CheckedAligns
<1>3. s \in [Told -> Values]
  <2>1. server_snapshots \in Seq(State)
    BY DEF IInv, QueuesAreTyped
  <2>2. server_snapshots[i] \in State
    BY <2>1
  <2> QED BY <2>2 DEF State
<1>4. with \in BOOLEAN
  BY DEF RecoverController
<1>cached. var_values \in World
  BY <1>1, CheckedIsCached
<1> HIDE DEF s, id, j, c, nodes, left, frames, with
<1>5. /\ start \in RewindState /\ start.snapshots = <<>>
      /\ EventsAreOld(start) /\ StoppedAreKept(start)
  BY <1>3, <1>cached, ResetStarts
<1> HIDE DEF start
<1>6. /\ r \in RewindState
      /\ EventsAreOld(r)
      /\ StoppedAreKept(r)
      /\ Len(r.snapshots) = Len(frames)
      /\ \A k \in 1 .. Len(frames) : KeepsTheStopped(r.snapshots[k], left[k])
  BY <1>2, <1>4, <1>5, RewindKeeps
<1> HIDE DEF r
<1>7. /\ r.value \in World /\ r.cached \in World
      /\ r.events \in UNION {[D -> Known] : D \in SUBSET Vars}
      /\ r.snapshots \in Seq(ClientSnapshot)
  BY <1>6 DEF RewindState
<1>8. IInv'
  <2>1. Len(r.snapshots) = Len(frames_snapshot) - CheckedFrame(i)
    BY <1>2, <1>6 DEF j
  <2>2. \A k \in 1 .. Len(r.snapshots) :
          r.snapshots[k].input_id = Len(made) - Len(r.snapshots) + k
    BY <1>2, <1>6 DEF KeepsTheStopped
  <2>3. value' \in World /\ var_values' \in World
    BY <1>1, <1>7
  <2> QED BY <1>1, <1>7, <2>1, <2>2, <2>3, CheckedKeeps
<1>9. TellsTheDifference
  <2>1. DOMAIN r.events \subseteq Vars
    BY <1>7
  <2>2. /\ \A v \in DOMAIN r.events : r.events[v] = var_values[v]
        /\ \A v \in Vars \ DOMAIN r.events : var_values'[v] = var_values[v]
    BY <1>1, <1>6, <2>1 DEF EventsAreOld
  <2> QED BY <1>1, <2>1, <2>2, EndSyncOfOld
<1>10. LeavesTheStopped
  BY <1>1, <1>6 DEF StoppedAreKept, LeavesTheStopped, Rests
<1>11. LeavesTheirSnapshots
  <2>1. client_snapshots' = r.snapshots
    BY <1>1 DEF Checked
  <2>2. j \in Nat /\ Len(frames_snapshot) = Len(client_snapshots)
    BY <1>1, CheckedAligns DEF j, IInv, Aligned
  <2> QED BY <1>2, <1>6, <1>7, <2>1, <2>2, RewrittenSnapshots
<1> QED BY <1>8, <1>9, <1>10, <1>11

LEMMA NoRewindStep ==
  ASSUME IInv, NEW i \in 1 .. Len(server_snapshots), RecoverNoRewind(i)
  PROVE  IInv' /\ TellsTheDifference /\ LeavesTheStopped /\ LeavesTheirSnapshots
<1> DEFINE s == server_snapshots[i].values
           j == CheckedFrame(i)
           c == client_snapshots[j].values
           set == DifferentVars(s, c)
           waiting == Postponed(s, c)
           left == SubSeq(client_snapshots, j + 1, Len(client_snapshots))
           L == Len(left)
           last == [v \in Vars |-> IF NodeOf[v] \in waiting
                                     THEN var_values'[v] ELSE left[L].values[v]]
           kept == IF left = <<>> THEN left ELSE [left EXCEPT ![L].values = last]
<1>1. /\ Checkable(i)
      /\ value' = [v \in Vars |-> IF v \in set THEN s[v] ELSE value[v]]
      /\ var_values' = [v \in Vars |-> IF v \in set THEN s[v] ELSE var_values[v]]
      /\ end_sync' = EndSync([v \in set |-> var_values[v]])
      /\ Checked(i, kept)
  BY DEF RecoverNoRewind
<1>2. /\ left \in Seq(ClientSnapshot) /\ L = Len(frames_snapshot) - j
      /\ \A k \in 1 .. L : left[k].input_id = Len(made) - L + k
      /\ \A k \in 1 .. L : left[k] = client_snapshots[j + k]
  BY <1>1, CheckedAligns
<1>3. s \in [Told -> Values]
  <2>1. server_snapshots \in Seq(State)
    BY DEF IInv, QueuesAreTyped
  <2>2. server_snapshots[i] \in State
    BY <2>1
  <2> QED BY <2>2 DEF State
<1>4. value \in [Vars -> Values] /\ var_values \in [Vars -> Values]
  BY <1>1, CheckedIsCached DEF IInv, Typed, World
<1>5. set \subseteq Vars /\ set \subseteq Told /\ \A v \in set : NodeOf[v] \in sync_enabled
  BY WorldAssumption DEF DifferentVars, IsSynced
<1>waiting. \A n \in waiting : n \in sync_enabled
  BY DEF Postponed, DifferentVars, IsSynced
<1> HIDE DEF s, j, c, set, left, waiting
<1>6. value' \in World /\ var_values' \in World
  BY <1>1, <1>3, <1>4, <1>5 DEF World
<1>7. kept \in Seq(ClientSnapshot) /\ Len(kept) = L
      /\ \A k \in 1 .. L : KeepsTheStopped(kept[k], left[k])
  <2>1. CASE left = <<>>
    BY <1>2, <2>1
  <2>2. CASE left /= <<>>
    <3>1. L \in 1 .. L /\ left[L] \in ClientSnapshot
      BY <1>2, <2>2
    <3>2. last \in World
      BY <1>6, <3>1 DEF ClientSnapshot, World
    <3>kept. \A v \in Vars : NodeOf[v] \notin sync_enabled => last[v] = left[L].values[v]
      BY <1>waiting
    <3> HIDE DEF last
    <3>3. [left[L] EXCEPT !.values = last] \in ClientSnapshot
          /\ [left[L] EXCEPT !.values = last].input_id = left[L].input_id
          /\ [left[L] EXCEPT !.values = last].values = last
      BY <3>1, <3>2 DEF ClientSnapshot
    <3>rewritten. KeepsTheStopped([left[L] EXCEPT !.values = last], left[L])
      BY <3>kept, <3>3 DEF KeepsTheStopped
    <3>others. \A k \in 1 .. L : KeepsTheStopped(left[k], left[k])
      BY DEF KeepsTheStopped
    <3>4. kept = [left EXCEPT ![L] = [left[L] EXCEPT !.values = last]]
      BY <2>2
    <3>5. /\ kept \in Seq(ClientSnapshot) /\ Len(kept) = L
          /\ \A k \in 1 .. L : kept[k] = IF k = L THEN [left[L] EXCEPT !.values = last] ELSE left[k]
      <4> HIDE DEF kept, L
      <4> QED BY <1>2, <3>1, <3>3, <3>4 DEF L
    <3> HIDE DEF kept, L
    <3> QED BY <3>5, <3>rewritten, <3>others
  <2> QED BY <2>1, <2>2
<1> HIDE DEF kept
<1>8. IInv'
  <2>1. Len(kept) = Len(frames_snapshot) - CheckedFrame(i)
    BY <1>2, <1>7 DEF j
  <2>2. \A k \in 1 .. Len(kept) : kept[k].input_id = Len(made) - Len(kept) + k
    BY <1>2, <1>7 DEF KeepsTheStopped
  <2> QED BY <1>1, <1>6, <1>7, <2>1, <2>2, CheckedKeeps
<1>9. TellsTheDifference
  <2> DEFINE events == [v \in set |-> var_values[v]]
  <2>1. DOMAIN events = set /\ \A v \in set : events[v] = var_values[v]
    OBVIOUS
  <2>2. \A v \in Vars \ set : var_values'[v] = var_values[v]
    BY <1>1
  <2>3. end_sync' = EndSync(events)
    BY <1>1
  <2> HIDE DEF events
  <2> QED BY <1>5, <2>1, <2>2, <2>3, EndSyncOfOld
<1>10. LeavesTheStopped
  BY <1>1, <1>5 DEF LeavesTheStopped, Rests
<1>11. LeavesTheirSnapshots
  <2>1. client_snapshots' = kept
    BY <1>1 DEF Checked
  <2>2. j \in Nat /\ Len(frames_snapshot) = Len(client_snapshots)
    BY <1>1, CheckedAligns DEF j, IInv, Aligned
  <2> QED BY <1>2, <1>7, <2>1, <2>2, RewrittenSnapshots
<1> QED BY <1>8, <1>9, <1>10, <1>11

\* The recovery of a stream that is paused.
LEMMA PausedStep ==
  ASSUME IInv, RecoverPaused
  PROVE  IInv' /\ TellsTheDifference /\ LeavesTheStopped /\ LeavesTheirSnapshots
<1> DEFINE N == Len(server_snapshots)
           s == Last(server_snapshots).values
           of(v) == IF v \in Told THEN s[v] ELSE Nil
           Different == {v \in Vars : IsSynced(v) /\ var_values[v] /= of(v)}
           events == [v \in Different |-> var_values[v]]
<1>1. /\ server_snapshots /= <<>> /\ client_snapshots = <<>>
      /\ var_values' = [v \in Vars |-> IF v \in Different THEN of(v) ELSE var_values[v]]
      /\ value' = [v \in Vars |-> IF v \in Different \cap Told THEN s[v] ELSE value[v]]
      /\ end_sync' = EndSync(events)
      /\ server_snapshots' = <<>>
      /\ UNCHANGED <<sync_enabled, stopped, frameVars, last_checked_input, serverVars, made>>
      /\ Purge
  BY DEF RecoverPaused, syncVars
<1>2. Typed /\ Aligned /\ QueuesAreTyped /\ OthersStaySynced
  BY DEF IInv
<1>3. s \in [Told -> Values]
  <2>1. server_snapshots \in Seq(State)
    BY <1>2 DEF QueuesAreTyped
  <2>2. N \in 1 .. N
    BY <1>1, <2>1
  <2>3. Last(server_snapshots) \in State
    BY <2>1, <2>2 DEF Last
  <2> QED BY <2>3 DEF State
<1>4. value \in [Vars -> Values] /\ var_values \in [Vars -> Known]
  BY <1>2 DEF Typed, World
<1>5. \A v \in Vars : of(v) \in Known
  BY <1>3 DEF Known
<1>6. Different \subseteq Vars /\ \A v \in Different : NodeOf[v] \in sync_enabled
  BY DEF IsSynced
<1> HIDE DEF s, Different, of
<1>7. value' \in World /\ var_values' \in [Vars -> Known]
  BY <1>1, <1>3, <1>4, <1>5 DEF World
<1>8. IInv'
  <2>1. /\ dependency_nodes' \subseteq Dependable
        /\ \A n \in dependency_nodes' : dependency_nodes_end'[n] \in Ids \cup {Never}
        /\ dependency_nodes_end' \in [dependency_nodes' -> Ids \cup {Never}]
    BY <1>1, <1>2 DEF Purge, Typed, dependency_nodes
  <2>2. Len(<<>>) = 0 /\ <<>> \in Seq(State) /\ \A k : k \notin 1 .. 0
    OBVIOUS
  <2>3. Typed'
    BY <1>1, <1>2, <1>7, <2>1, <2>2 DEF Typed, frameVars, serverVars, Ids, Never
  <2>4. Aligned'
    BY <1>1, <1>2 DEF Aligned, frameVars
  <2>5. QueuesAreTyped'
    BY <1>1, <1>2, <2>1, <2>2 DEF QueuesAreTyped, World, worldVars, frameVars, serverVars, Ids, Never
  <2>6. OthersStaySynced'
    BY <1>1, <1>2 DEF OthersStaySynced, Nodes
  <2> QED BY <2>3, <2>4, <2>5, <2>6 DEF IInv
<1>9. TellsTheDifference
  <2>1. DOMAIN events = Different /\ \A v \in Different : events[v] = var_values[v]
    OBVIOUS
  <2>2. \A v \in Vars \ Different : var_values'[v] = var_values[v]
    BY <1>1
  <2>3. end_sync' = EndSync(events)
    BY <1>1
  <2> HIDE DEF events
  <2> QED BY <1>6, <2>1, <2>2, <2>3, EndSyncOfOld
<1>10. LeavesTheStopped
  BY <1>1, <1>6 DEF LeavesTheStopped, Rests
<1>11. LeavesTheirSnapshots
  BY <1>1 DEF LeavesTheirSnapshots, frameVars
<1> QED BY <1>8, <1>9, <1>10, <1>11

\* A tick that has nothing to compare.
LEMMA NothingStep ==
  ASSUME IInv, RecoverNothing
  PROVE  IInv' /\ server_snapshots' = server_snapshots
<1>1. /\ UNCHANGED <<value, var_values, sync_enabled, stopped, frameVars, checkVars, serverVars,
                     made>>
      /\ Purge
  BY DEF RecoverNothing, worldVars, syncVars
<1>2. Typed /\ Aligned /\ QueuesAreTyped /\ OthersStaySynced
  BY DEF IInv
<1>3. /\ dependency_nodes' \subseteq Dependable
      /\ \A n \in dependency_nodes' : dependency_nodes_end'[n] \in Ids \cup {Never}
      /\ dependency_nodes_end' \in [dependency_nodes' -> Ids \cup {Never}]
  BY <1>1, <1>2 DEF Purge, Typed, dependency_nodes
<1>4. Typed'
  BY <1>1, <1>2, <1>3 DEF Typed, frameVars, checkVars, serverVars, Ids, Never
<1>5. Aligned'
  BY <1>1, <1>2 DEF Aligned, frameVars
<1>6. QueuesAreTyped'
  BY <1>1, <1>2, <1>3 DEF QueuesAreTyped, World, worldVars, frameVars, checkVars, serverVars, Ids, Never
<1>7. OthersStaySynced'
  BY <1>1, <1>2 DEF OthersStaySynced, Nodes
<1> QED BY <1>1, <1>4, <1>5, <1>6, <1>7 DEF IInv, checkVars

-----------------------------------------------------------------------------
(* The other steps. *)

\* Appending to a sequence.
LEMMA Appended ==
  ASSUME NEW S, NEW q \in Seq(S), NEW x \in S
  PROVE  /\ Append(q, x) \in Seq(S) /\ Len(Append(q, x)) = Len(q) + 1
         /\ \A k \in 1 .. Len(q) : Append(q, x)[k] = q[k]
         /\ Append(q, x)[Len(q) + 1] = x
OBVIOUS

LEMMA StreamStep ==
  ASSUME IInv, NEW deed \in Deeds, SubTickStream(deed)
  PROVE  IInv' /\ server_snapshots' = server_snapshots
<1> DEFINE M == Len(made)
           L == Len(frames_snapshot)
           frame == [id |-> current_input_id', input |-> deed.input, meets |-> deed.meets]
           snapshot == [input_id |-> current_input_id', values |-> var_values',
                        action |-> deed.action]
<1>1. /\ L < MaxStorage /\ M + 1 <= MaxInput
      /\ current_input_id' = M + 1
      /\ value' = Play(value, deed) /\ var_values' = value'
      /\ frames_snapshot' = Append(frames_snapshot, frame)
      /\ client_snapshots' = Append(client_snapshots, snapshot)
      /\ made' = Append(made, deed)
      /\ UNCHANGED <<gameVars, checkVars, serverVars>>
  BY DEF SubTickStream, can_accept_new_inputs, input_buffers_counter
<1>2. Typed /\ Aligned /\ QueuesAreTyped /\ OthersStaySynced
  BY DEF IInv
<1>3. /\ made \in Seq(Deed) /\ frames_snapshot \in Seq(Frame)
      /\ client_snapshots \in Seq(ClientSnapshot) /\ server_snapshots \in Seq(State)
      /\ states \in Seq(State)
  BY <1>2 DEF QueuesAreTyped
<1>4. deed \in Deed /\ deed.input \in Inputs /\ deed.meets \in SUBSET Dependable
      /\ deed.action \in Actions \cup {NoAction}
  BY DeedsAssumption DEF Deed
<1>5. M \in Nat /\ L \in Nat /\ Len(client_snapshots) = L
  BY <1>2, <1>3 DEF Aligned
<1>6. value' \in World /\ var_values' \in World /\ var_values' \in [Vars -> Known]
  <2>1. value' \in World
    BY <1>1, <1>2, <1>4, PlayIsAWorld DEF Typed
  <2> QED BY <1>1, <2>1 DEF World, Known
<1>7. frame \in Frame /\ snapshot \in ClientSnapshot
      /\ frame.id = M + 1 /\ frame.input = deed.input /\ snapshot.input_id = M + 1
  BY <1>1, <1>4, <1>5, <1>6 DEF Frame, ClientSnapshot
<1> HIDE DEF frame, snapshot
<1>8. /\ frames_snapshot' \in Seq(Frame) /\ Len(frames_snapshot') = L + 1
      /\ \A k \in 1 .. L : frames_snapshot'[k] = frames_snapshot[k]
      /\ frames_snapshot'[L + 1] = frame
  BY <1>1, <1>3, <1>7, Appended
<1>9. /\ client_snapshots' \in Seq(ClientSnapshot) /\ Len(client_snapshots') = L + 1
      /\ \A k \in 1 .. L : client_snapshots'[k] = client_snapshots[k]
      /\ client_snapshots'[L + 1] = snapshot
  <2>1. /\ client_snapshots' \in Seq(ClientSnapshot)
        /\ Len(client_snapshots') = Len(client_snapshots) + 1
        /\ \A k \in 1 .. Len(client_snapshots) : client_snapshots'[k] = client_snapshots[k]
        /\ client_snapshots'[Len(client_snapshots) + 1] = snapshot
    BY <1>1, <1>3, <1>7, Appended
  <2> QED BY <1>5, <2>1
<1>10. /\ made' \in Seq(Deed) /\ Len(made') = M + 1
       /\ \A k \in 1 .. M : made'[k] = made[k]
       /\ made'[M + 1] = deed
  BY <1>1, <1>3, <1>4, Appended
<1>11. Typed'
  BY <1>1, <1>2, <1>5, <1>6, <1>8, <1>10, BoundsAssumption
     DEF Typed, gameVars, syncVars, checkVars, serverVars, dependency_nodes, Ids, Never
<1>12. Aligned'
  <2>1. \A k \in 1 .. L : /\ frames_snapshot[k].id = M - L + k
                          /\ client_snapshots[k].input_id = M - L + k
                          /\ frames_snapshot[k].input = made[frames_snapshot[k].id].input
    BY <1>2, <1>5 DEF Aligned
  <2>2. L <= M
    <3>1. CASE L = 0
      BY <1>5, <3>1
    <3>2. CASE L > 0
      <4>1. 1 \in 1 .. L /\ frames_snapshot[1] \in Frame
        BY <1>3, <1>5, <3>2
      <4>2. frames_snapshot[1].id = M - L + 1 /\ frames_snapshot[1].id \in Nat
        BY <2>1, <4>1 DEF Frame
      <4>3. frames_snapshot[1].id >= 1
        BY <4>1 DEF Frame
      <4> QED BY <1>5, <4>2, <4>3
    <3> QED BY <1>5, <3>1, <3>2
  <2>3. \A k \in 1 .. L + 1 : k \in 1 .. L \/ k = L + 1
    BY <1>5
  <2>4. \A k \in 1 .. L : M - L + k \in 1 .. M /\ M - L + k = (M + 1) - (L + 1) + k
    BY <1>5, <2>2
  <2>5. (M + 1) - (L + 1) + (L + 1) = M + 1
    BY <1>5
  <2> HIDE DEF M, L
  <2>6. \A k \in 1 .. L : /\ frames_snapshot'[k].id = (M + 1) - (L + 1) + k
                          /\ client_snapshots'[k].input_id = (M + 1) - (L + 1) + k
                          /\ frames_snapshot'[k].input = made'[frames_snapshot'[k].id].input
    BY <1>8, <1>9, <1>10, <2>1, <2>4
  <2>7. /\ frames_snapshot'[L + 1].id = (M + 1) - (L + 1) + (L + 1)
        /\ client_snapshots'[L + 1].input_id = (M + 1) - (L + 1) + (L + 1)
        /\ frames_snapshot'[L + 1].input = made'[frames_snapshot'[L + 1].id].input
    BY <1>7, <1>8, <1>9, <1>10, <2>5
  <2>8. \A k \in 1 .. L + 1 : /\ frames_snapshot'[k].id = (M + 1) - (L + 1) + k
                              /\ client_snapshots'[k].input_id = (M + 1) - (L + 1) + k
                              /\ frames_snapshot'[k].input = made'[frames_snapshot'[k].id].input
    BY <2>3, <2>6, <2>7
  <2> QED BY <1>8, <1>9, <1>10, <2>8 DEF Aligned
<1>13. QueuesAreTyped'
  <2>1. \A k : k \in 1 .. M => k \in 1 .. M + 1
    BY <1>5
  <2> QED BY <1>1, <1>2, <1>6, <1>8, <1>9, <1>10, <2>1
          DEF QueuesAreTyped, World, worldVars, gameVars, syncVars, checkVars, serverVars, dependency_nodes, Ids, Never
<1>14. OthersStaySynced'
  BY <1>1, <1>2 DEF OthersStaySynced, Nodes, gameVars, syncVars
<1> QED BY <1>1, <1>11, <1>12, <1>13, <1>14 DEF IInv, checkVars

LEMMA IdleStep ==
  ASSUME IInv, NEW deed \in Deeds, SubTickIdle(deed.meets)
  PROVE  IInv' /\ server_snapshots' = server_snapshots
<1> DEFINE L == Len(frames_snapshot)
           full == [input |-> Last(frames_snapshot).input, meets |-> deed.meets,
                    action |-> NoAction]
           paused == [input |-> Void, meets |-> deed.meets, action |-> NoAction]
<1>1. /\ \/ current_input_id' = Len(made) + 1 /\ value' = Play(value, paused)
         \/ L >= MaxStorage /\ UNCHANGED current_input_id /\ value' = Play(value, full)
      /\ var_values' = value'
      /\ UNCHANGED <<gameVars, frames_snapshot, client_snapshots, checkVars, serverVars, made>>
  <2>1. L \in Nat
    BY DEF IInv, QueuesAreTyped
  <2> QED BY <2>1, BoundsAssumption DEF SubTickIdle, can_accept_new_inputs, input_buffers_counter
<1>2. Typed /\ Aligned /\ QueuesAreTyped /\ OthersStaySynced
  BY DEF IInv
<1>3. deed.meets \in SUBSET Dependable
  BY DeedsAssumption
<1>4. value' \in World
  <2>1. CASE value' = Play(value, paused)
    <3>1. paused \in Deed
      BY <1>3, DeedsAssumption DEF Deed
    <3> HIDE DEF paused
    <3> QED BY <1>2, <2>1, <3>1, PlayIsAWorld DEF Typed
  <2>2. CASE L >= MaxStorage /\ value' = Play(value, full)
    <3>1. frames_snapshot \in Seq(Frame) /\ L \in 1 .. L
      BY <1>2, <2>2, BoundsAssumption DEF QueuesAreTyped
    <3>2. Last(frames_snapshot) \in Frame
      BY <3>1 DEF Last
    <3>3. full \in Deed
      BY <1>3, <3>2 DEF Deed, Frame
    <3> HIDE DEF full
    <3> QED BY <1>2, <2>2, <3>3, PlayIsAWorld DEF Typed
  <2> QED BY <1>1, <2>1, <2>2
<1>5. var_values' \in World /\ var_values' \in [Vars -> Known]
  BY <1>1, <1>4 DEF World, Known
<1>6. current_input_id' \in {Len(made), Len(made) + 1}
  BY <1>1, <1>2 DEF Typed
<1>7. Typed'
  BY <1>1, <1>2, <1>4, <1>5, <1>6
     DEF Typed, gameVars, syncVars, checkVars, serverVars, dependency_nodes, Ids, Never
<1>8. Aligned'
  BY <1>1, <1>2 DEF Aligned
<1>9. QueuesAreTyped'
  BY <1>1, <1>2, <1>5
     DEF QueuesAreTyped, World, worldVars, gameVars, syncVars, checkVars, serverVars, dependency_nodes, Ids, Never
<1>10. OthersStaySynced'
  BY <1>1, <1>2 DEF OthersStaySynced, Nodes, gameVars, syncVars
<1> QED BY <1>1, <1>7, <1>8, <1>9, <1>10 DEF IInv, checkVars

LEMMA ReceiveStep ==
  ASSUME IInv, ReceiveState
  PROVE  IInv' /\ Len(server_snapshots') >= Len(server_snapshots)
<1> DEFINE N == Len(server_snapshots)
           s == Head(states)
<1>1. /\ states /= <<>> /\ states' = Tail(states)
      /\ UNCHANGED <<worldVars, gameVars, frameVars, last_checked_input, server_values,
                     server_input_id, made>>
      /\ \/ N = 0 /\ server_snapshots' = Append(server_snapshots, s)
         \/ N /= 0 /\ s.input_id > server_snapshots[N].input_id
            /\ server_snapshots' = Append(server_snapshots, s)
         \/ N /= 0 /\ s.input_id = server_snapshots[N].input_id
            /\ server_snapshots' = [server_snapshots EXCEPT ![N] = s]
         \/ UNCHANGED server_snapshots
  BY DEF ReceiveState
<1>2. Typed /\ Aligned /\ QueuesAreTyped /\ OthersStaySynced
  BY DEF IInv
<1>3. /\ states \in Seq(State) /\ server_snapshots \in Seq(State) /\ N \in Nat
      /\ \A i \in 1 .. Len(states) : states[i].input_id \in 1 .. Len(made)
      /\ \A i \in 1 .. N : server_snapshots[i].input_id \in 1 .. Len(made)
      /\ Len(made) \in Nat
  BY <1>2 DEF QueuesAreTyped
<1>4. /\ \A i, j \in 1 .. N : i < j => server_snapshots[i].input_id < server_snapshots[j].input_id
  BY <1>2 DEF Typed
<1>5. s \in State /\ s.input_id \in 1 .. Len(made)
  <2>1. s = states[1] /\ 1 \in 1 .. Len(states)
    BY <1>1, <1>3
  <2>2. states[1] \in State /\ states[1].input_id \in 1 .. Len(made)
    BY <1>3, <2>1
  <2> HIDE DEF s
  <2> QED BY <2>1, <2>2
<1>6. /\ states' \in Seq(State)
      /\ \A i \in 1 .. Len(states') : states'[i].input_id \in 1 .. Len(made)
  <2>1. /\ states' \in Seq(State) /\ Len(states') = Len(states) - 1
        /\ \A i \in 1 .. Len(states) - 1 : states'[i] = states[i + 1]
    BY <1>1, <1>3
  <2>2. \A i \in 1 .. Len(states) - 1 : i + 1 \in 1 .. Len(states)
    BY <1>3
  <2> QED BY <1>3, <2>1, <2>2
<1> HIDE DEF s
<1>7. /\ server_snapshots' \in Seq(State) /\ Len(server_snapshots') >= N
      /\ \A i \in 1 .. Len(server_snapshots') : server_snapshots'[i].input_id \in 1 .. Len(made)
      /\ \A i, j \in 1 .. Len(server_snapshots') :
           i < j => server_snapshots'[i].input_id < server_snapshots'[j].input_id
  <2>1. CASE /\ server_snapshots' = Append(server_snapshots, s)
             /\ N = 0 \/ s.input_id > server_snapshots[N].input_id
    <3>1. /\ server_snapshots' \in Seq(State) /\ Len(server_snapshots') = N + 1
          /\ \A k \in 1 .. N : server_snapshots'[k] = server_snapshots[k]
          /\ server_snapshots'[N + 1] = s
      BY <1>3, <1>5, <2>1, Appended
    <3>2. \A k \in 1 .. N + 1 : k \in 1 .. N \/ k = N + 1
      BY <1>3
    <3>3. ASSUME NEW k \in 1 .. N PROVE server_snapshots[k].input_id < s.input_id
      <4>1. N \in 1 .. N /\ N /= 0 /\ (k < N \/ k = N)
        BY <1>3
      <4>2. /\ server_snapshots[k].input_id \in Nat /\ server_snapshots[N].input_id \in Nat
            /\ s.input_id \in Nat
        BY <1>3, <1>5, <4>1
      <4>3. server_snapshots[k].input_id <= server_snapshots[N].input_id
        BY <1>4, <4>1, <4>2
      <4> QED BY <2>1, <4>1, <4>2, <4>3
    <3> HIDE DEF N
    <3>4. \A i, j \in 1 .. N + 1 :
            i < j => server_snapshots'[i].input_id < server_snapshots'[j].input_id
      <4> SUFFICES ASSUME NEW i \in 1 .. N + 1, NEW j \in 1 .. N + 1, i < j
                   PROVE  server_snapshots'[i].input_id < server_snapshots'[j].input_id
        OBVIOUS
      <4>1. i \in 1 .. N
        BY <1>3
      <4>2. CASE j \in 1 .. N
        BY <1>4, <3>1, <4>1, <4>2
      <4>3. CASE j = N + 1
        BY <3>1, <3>3, <4>1, <4>3
      <4> QED BY <3>2, <4>2, <4>3
    <3> QED BY <1>3, <1>5, <3>1, <3>2, <3>4
  <2>2. CASE /\ server_snapshots' = [server_snapshots EXCEPT ![N] = s]
             /\ N /= 0 /\ s.input_id = server_snapshots[N].input_id
    <3>1. /\ server_snapshots' \in Seq(State) /\ Len(server_snapshots') = N
          /\ \A k \in 1 .. N : server_snapshots'[k].input_id = server_snapshots[k].input_id
      BY <1>3, <1>5, <2>2
    <3> HIDE DEF N
    <3> QED BY <1>3, <1>4, <3>1
  <2>3. CASE UNCHANGED server_snapshots
    BY <1>3, <1>4, <2>3
  <2> QED BY <1>1, <2>1, <2>2, <2>3
<1>8. Typed'
  BY <1>1, <1>2, <1>7 DEF Typed, worldVars, gameVars, syncVars, frameVars, dependency_nodes, Ids, Never
<1>9. Aligned'
  BY <1>1, <1>2 DEF Aligned, frameVars
<1>10. QueuesAreTyped'
  BY <1>1, <1>2, <1>6, <1>7 DEF QueuesAreTyped, World, worldVars, gameVars, syncVars, frameVars, dependency_nodes, Ids, Never
<1>11. OthersStaySynced'
  BY <1>1, <1>2 DEF OthersStaySynced, Nodes, gameVars, syncVars
<1> QED BY <1>7, <1>8, <1>9, <1>10, <1>11 DEF IInv

LEMMA GameStep ==
  ASSUME IInv,
         \/ \E n \in Stoppable : StartNodeSync(n) \/ StopNodeSync(n)
         \/ \E n \in Dependable : AddDependency(n) \/ RemoveDependency(n)
  PROVE  IInv' /\ server_snapshots' = server_snapshots /\ stopped \subseteq stopped'
<1>1. UNCHANGED <<worldVars, frameVars, checkVars, serverVars, made>>
  BY DEF StartNodeSync, StopNodeSync, AddDependency, RemoveDependency
<1>2. Typed /\ Aligned /\ QueuesAreTyped /\ OthersStaySynced
  BY DEF IInv
<1>3. /\ sync_enabled' \subseteq Nodes /\ stopped' \subseteq Stoppable /\ stopped \subseteq stopped'
      /\ OthersStaySynced'
  BY <1>2, GameAssumption
     DEF StartNodeSync, StopNodeSync, AddDependency, RemoveDependency, syncVars, Typed, Nodes,
         OthersStaySynced
<1>4. /\ DOMAIN dependency_nodes_end' \subseteq Dependable
      /\ dependency_nodes_end' \in [DOMAIN dependency_nodes_end' -> Ids \cup {Never}]
  <2>1. /\ DOMAIN dependency_nodes_end \subseteq Dependable
        /\ dependency_nodes_end \in [DOMAIN dependency_nodes_end -> Ids \cup {Never}]
    BY <1>2 DEF Typed, QueuesAreTyped, dependency_nodes
  <2>2. CASE dependency_nodes_end' = dependency_nodes_end
    BY <2>1, <2>2
  <2>3. CASE \E n \in Dependable : AddDependency(n)
    BY <2>1, <2>3 DEF AddDependency, dependency_nodes
  <2>4. CASE \E n \in Dependable : RemoveDependency(n)
    <3>1. PICK n \in Dependable : RemoveDependency(n)
      BY <2>4
    <3>2. DependencyEnd \in Ids \cup {Never}
      <4>1. current_input_id \in {Len(made), Len(made) + 1} /\ Len(made) \in Nat
            /\ Len(made) <= MaxInput
        BY <1>2 DEF Typed, QueuesAreTyped
      <4> QED BY <4>1, BoundsAssumption DEF DependencyEnd, Ids, Never
    <3>3. dependency_nodes_end' = [dependency_nodes_end EXCEPT ![n] = DependencyEnd]
      BY <3>1 DEF RemoveDependency
    <3> HIDE DEF DependencyEnd
    <3> QED BY <2>1, <3>2, <3>3
  <2> QED BY <2>2, <2>3, <2>4 DEF StartNodeSync, StopNodeSync
<1>5. \A n \in DOMAIN dependency_nodes_end' : dependency_nodes_end'[n] \in Ids \cup {Never}
  BY <1>4
<1>6. Typed'
  BY <1>1, <1>2, <1>3, <1>4, <1>5
     DEF Typed, worldVars, frameVars, checkVars, serverVars, dependency_nodes, Ids, Never
<1>7. Aligned'
  BY <1>1, <1>2 DEF Aligned, frameVars
<1>8. QueuesAreTyped'
  BY <1>1, <1>2, <1>4
     DEF QueuesAreTyped, World, worldVars, frameVars, checkVars, serverVars, dependency_nodes, Ids, Never
<1> QED BY <1>1, <1>3, <1>6, <1>7, <1>8 DEF IInv, checkVars

LEMMA ServerStep ==
  ASSUME IInv, NEW k \in Ids, NEW touched \in Touches \cup {Nothing}, NEW notify \in BOOLEAN,
         ServerProcess(k, touched, notify)
  PROVE  IInv' /\ server_snapshots' = server_snapshots
<1> DEFINE world == Play(server_values, made[k])
           state == [input_id |-> k, values |-> [v \in Told |-> server_values'[v]]]
<1>1. /\ k \in server_input_id .. Len(made) /\ k > 0
      /\ server_values' = Over(touched, world)
      /\ server_input_id' = k
      /\ states' = Append(states, state) \/ states' = states
      /\ UNCHANGED <<worldVars, gameVars, frameVars, checkVars, made>>
  BY DEF ServerProcess
<1>2. Typed /\ Aligned /\ QueuesAreTyped /\ OthersStaySynced
  BY DEF IInv
<1>3. k \in 1 .. Len(made) /\ Len(made) \in Nat /\ made[k] \in Deed
  <2>1. made \in Seq(Deed) /\ server_input_id \in 0 .. Len(made)
    BY <1>2 DEF QueuesAreTyped, Typed
  <2>2. k \in 1 .. Len(made)
    BY <1>1, <2>1
  <2> QED BY <2>1, <2>2
<1>4. world \in [Vars -> Values]
  BY <1>2, <1>3, PlayIsAWorld DEF Typed, World
<1>5. DOMAIN touched \subseteq Vars /\ \A v \in DOMAIN touched : touched[v] \in Values
  BY DeedsAssumption DEF Nothing
<1> HIDE DEF world
<1>6. server_values' \in [Vars -> Values]
  BY <1>1, <1>4, <1>5 DEF Over
<1>7. state \in State
  BY <1>3, <1>6, WorldAssumption DEF State
<1> HIDE DEF state
<1>8. /\ states' \in Seq(State)
      /\ \A i \in 1 .. Len(states') : states'[i].input_id \in 1 .. Len(made)
  <2>1. /\ states \in Seq(State)
        /\ \A i \in 1 .. Len(states) : states[i].input_id \in 1 .. Len(made)
    BY <1>2 DEF QueuesAreTyped
  <2>2. CASE states' = Append(states, state)
    <3>1. /\ states' \in Seq(State) /\ Len(states') = Len(states) + 1
          /\ \A i \in 1 .. Len(states) : states'[i] = states[i]
          /\ states'[Len(states) + 1] = state
      BY <1>7, <2>1, <2>2, Appended
    <3>2. \A i \in 1 .. Len(states) + 1 : i \in 1 .. Len(states) \/ i = Len(states) + 1
      BY <2>1
    <3>3. state.input_id = k
      BY DEF state
    <3> QED BY <1>3, <2>1, <3>1, <3>2, <3>3
  <2>3. CASE states' = states
    BY <2>1, <2>3
  <2> QED BY <1>1, <2>2, <2>3
<1>9. Typed'
  BY <1>1, <1>2, <1>3, <1>6
     DEF Typed, World, worldVars, gameVars, syncVars, frameVars, checkVars, dependency_nodes, Ids, Never
<1>10. Aligned'
  BY <1>1, <1>2 DEF Aligned, frameVars
<1>11. QueuesAreTyped'
  BY <1>1, <1>2, <1>8 DEF QueuesAreTyped, World, worldVars, gameVars, syncVars, frameVars, checkVars, dependency_nodes, Ids, Never
<1>12. OthersStaySynced'
  BY <1>1, <1>2 DEF OthersStaySynced, Nodes, gameVars, syncVars
<1> QED BY <1>1, <1>9, <1>10, <1>11, <1>12 DEF IInv, checkVars

-----------------------------------------------------------------------------
(* What a frame makes of a node depends on the nodes it has to do with. *)

\* The nodes that the values of v after a frame depend on.
Reach(v, meets) == IF NodeOf[v] \in Own THEN Own \cup meets ELSE {NodeOf[v]}

\* Two worlds have the same values of K on some nodes.
Agree(w1, w2, K, nodes) == \A u \in K : NodeOf[u] \in nodes => w1[u] = w2[u]

LEMMA AgreeingAreOne ==
  ASSUME NEW w1, NEW w2, NEW K, NEW nodes, Agree(w1, w2, K, nodes)
  PROVE  Only(w1, K, nodes) = Only(w2, K, nodes)
BY DEF Agree, Only

LEMMA ProcessReads ==
  ASSUME NEW w1 \in World, NEW w2 \in World, NEW K \in {Vars, Told}, NEW v \in K,
         Agree(w1, w2, K, {NodeOf[v]})
  PROVE  Process(NodeOf[v], w1)[v] = Process(NodeOf[v], w2)[v]
<1>1. Only(w1, K, {NodeOf[v]}) = Only(w2, K, {NodeOf[v]})
  BY AgreeingAreOne
<1>2. /\ Process(NodeOf[v], w1)[v] = Process(NodeOf[v], Only(w1, K, {NodeOf[v]}))[v]
      /\ Process(NodeOf[v], w2)[v] = Process(NodeOf[v], Only(w2, K, {NodeOf[v]}))[v]
  BY ReadsAssumption DEF World
<1> QED BY <1>1, <1>2

LEMMA ControlReads ==
  ASSUME NEW w1 \in World, NEW w2 \in World, NEW K \in {Vars, Told}, NEW v \in K,
         NEW input \in Inputs, NEW meets \in SUBSET Dependable,
         Agree(w1, w2, K, Reach(v, meets))
  PROVE  Control(input, meets, w1)[v] = Control(input, meets, w2)[v]
<1>1. CASE NodeOf[v] \in Own
  <2>1. Reach(v, meets) = Own \cup meets
    BY <1>1 DEF Reach
  <2>2. Only(w1, K, Own \cup meets) = Only(w2, K, Own \cup meets)
    BY <2>1, AgreeingAreOne
  <2>3. /\ Control(input, meets, w1)[v] = Control(input, meets, Only(w1, K, Own \cup meets))[v]
        /\ Control(input, meets, w2)[v] = Control(input, meets, Only(w2, K, Own \cup meets))[v]
    BY <1>1, ReadsAssumption DEF World
  <2> QED BY <2>2, <2>3
<1>2. CASE NodeOf[v] \notin Own
  <2>1. v \in Vars
    BY WorldAssumption
  <2>2. Control(input, meets, w1)[v] = w1[v] /\ Control(input, meets, w2)[v] = w2[v]
    BY <1>2, <2>1, GameAssumption DEF World, Own
  <2>3. w1[v] = w2[v]
    BY <1>2 DEF Agree, Reach
  <2> QED BY <2>2, <2>3
<1> QED BY <1>1, <1>2

\* An action reads what it acts on, which only the world as a whole tells.
LEMMA ActedReads ==
  ASSUME NEW w1 \in World, NEW w2 \in World, NEW K \in {Vars, Told}, NEW v \in K,
         K = Vars \/ NodeOf[v] \notin Targets,
         NEW a \in Actions \cup {NoAction},
         Agree(w1, w2, K, {NodeOf[v]})
  PROVE  Acted(a, w1)[v] = Acted(a, w2)[v]
<1>1. w1[v] = w2[v]
  BY DEF Agree
<1>2. v \in Vars
  BY WorldAssumption
<1>3. CASE a = NoAction
  BY <1>1, <1>3 DEF Acted
<1>4. CASE a /= NoAction /\ NodeOf[v] \notin Targets
  <2>1. Act(a, w1)[v] = w1[v] /\ Act(a, w2)[v] = w2[v]
    BY <1>2, <1>4, GameAssumption DEF World
  <2> QED BY <1>1, <1>4, <2>1 DEF Acted
<1>5. CASE a /= NoAction /\ K = Vars
  <2>1. Only(w1, Vars, {NodeOf[v]}) = Only(w2, Vars, {NodeOf[v]})
    BY <1>5, AgreeingAreOne
  <2>2. /\ Act(a, w1)[v] = Act(a, Only(w1, Vars, {NodeOf[v]}))[v]
        /\ Act(a, w2)[v] = Act(a, Only(w2, Vars, {NodeOf[v]}))[v]
    BY <1>2, <1>5, ReadsAssumption DEF World
  <2> QED BY <1>5, <2>1, <2>2 DEF Acted
<1> QED BY <1>3, <1>4, <1>5

LEMMA ReachesItself ==
  ASSUME NEW v \in Vars, NEW meets
  PROVE  NodeOf[v] \in Reach(v, meets)
BY DEF Reach

\* After the nodes, the controller and the action.
LEMMA ControlActedReads ==
  ASSUME NEW w1 \in World, NEW w2 \in World, NEW K \in {Vars, Told}, NEW v \in K,
         K = Vars \/ NodeOf[v] \notin Targets,
         NEW input \in Inputs, NEW meets \in SUBSET Dependable,
         NEW a \in Actions \cup {NoAction},
         Agree(w1, w2, K, Reach(v, meets)),
         NEW c1 \in World,
         c1 = Control(input, meets, w1) \/ (NodeOf[v] \notin Own /\ c1 = w1)
  PROVE  Acted(a, c1)[v] = Acted(a, Control(input, meets, w2))[v]
<1> DEFINE c2 == Control(input, meets, w2)
<1>1. K \subseteq Vars
  BY WorldAssumption
<1>2. c2 \in World
  BY GameAssumption DEF World
<1>3. Agree(c1, c2, K, {NodeOf[v]})
  <2> SUFFICES ASSUME NEW u \in K, NodeOf[u] = NodeOf[v] PROVE c1[u] = c2[u]
    BY DEF Agree
  <2>1. Reach(u, meets) = Reach(v, meets)
    BY DEF Reach
  <2>2. CASE c1 = Control(input, meets, w1)
    BY <2>1, <2>2, ControlReads
  <2>3. CASE NodeOf[v] \notin Own /\ c1 = w1
    <3>1. c2[u] = w2[u]
      BY <1>1, <2>3, GameAssumption DEF World, Own
    <3>2. w1[u] = w2[u]
      BY <2>3 DEF Agree, Reach
    <3> QED BY <2>3, <3>1, <3>2
  <2> QED BY <2>2, <2>3
<1> HIDE DEF c2
<1>4. Acted(a, c1)[v] = Acted(a, c2)[v]
  BY <1>2, <1>3, ActedReads
<1> QED BY <1>4 DEF c2

\* A frame makes the same of worlds that agree on what reaches a variable.
LEMMA PlayReads ==
  ASSUME NEW w1 \in World, NEW w2 \in World, NEW K \in {Vars, Told}, NEW v \in K,
         K = Vars \/ NodeOf[v] \notin Targets,
         NEW deed \in Deed, Agree(w1, w2, K, Reach(v, deed.meets))
  PROVE  Play(w1, deed)[v] = Play(w2, deed)[v]
<1> DEFINE processed(w) == [u \in Vars |-> Process(NodeOf[u], w)[u]]
           p1 == processed(w1)
           p2 == processed(w2)
<1>1. p1 \in World /\ p2 \in World
  BY GameAssumption DEF World
<1>2. deed.input \in Inputs /\ deed.meets \in SUBSET Dependable /\ deed.action \in Actions \cup {NoAction}
  BY DEF Deed
<1>3. Agree(p1, p2, K, Reach(v, deed.meets))
  <2> SUFFICES ASSUME NEW u \in K, NodeOf[u] \in Reach(v, deed.meets) PROVE p1[u] = p2[u]
    BY DEF Agree
  <2>1. Agree(w1, w2, K, {NodeOf[u]})
    BY DEF Agree
  <2>2. u \in Vars
    BY WorldAssumption
  <2> QED BY <2>1, <2>2, ProcessReads
<1>4. Control(deed.input, deed.meets, p1) \in World
  BY <1>1, <1>2, GameAssumption DEF World
<1>5. Play(w1, deed) = Acted(deed.action, Control(deed.input, deed.meets, p1))
      /\ Play(w2, deed) = Acted(deed.action, Control(deed.input, deed.meets, p2))
  BY DEF Play
<1> HIDE DEF p1, p2
<1>6. Acted(deed.action, Control(deed.input, deed.meets, p1))[v]
        = Acted(deed.action, Control(deed.input, deed.meets, p2))[v]
  BY <1>1, <1>2, <1>3, <1>4, ControlActedReads
<1> QED BY <1>5, <1>6

-----------------------------------------------------------------------------
(* The nodes a rewind takes together. *)

\* What reaches a variable the server decides alone is decided alone, and is rewound
\* with its group.
LEMMA DecidedIsClosed ==
  ASSUME NEW v \in Decided, NEW meets \in SUBSET Dependable, NEW u \in Told,
         NodeOf[u] \in Reach(v, meets)
  PROVE  u \in Decided
BY DEF Decided, Reach, Group, Family

LEMMA DecidedAreWhole ==
  ASSUME NEW v \in Decided
  PROVE  /\ v \in Whole /\ v \in Told /\ v \in Vars
         /\ NodeOf[v] \notin Targets \cup stopped \cup Skipping
<1>1. v \in Told /\ v \in Vars /\ Group(v) \cap (Skipping \cup stopped \cup Targets) = {}
  BY WorldAssumption DEF Decided
<1>2. NodeOf[v] \in Group(v)
  BY DEF Group
<1>3. NodeOf[v] \in Family => Group(v) = Family
  BY DEF Group
<1> QED BY <1>1, <1>2, <1>3 DEF Whole

\* Once a node is stopped, its group is neither decided alone nor rewound as a whole.
LEMMA StoppingShrinks ==
  ASSUME stopped \subseteq stopped'
  PROVE  Decided' \subseteq Decided /\ Whole' \subseteq Whole
BY DEF Decided, Whole, Group, Family, Own, Skipping

\* A node whose variables all rewind it is not postponed.
LEMMA NotSkippingIsNotPostponed ==
  ASSUME NEW s, NEW c, NEW n, n \notin Skipping
  PROVE  /\ n \notin Postponed(s, c)
         /\ \A v \in DifferentVars(s, c) : NodeOf[v] = n => n \in NeedRewind(s, c)
BY DEF Skipping, Postponed, NeedRewind

\* How often a node is rewound.
LEMMA TimesRewound ==
  ASSUME NEW s, NEW c, NEW n \in Nodes
  PROVE  NodesToRecover(s, c)[n]
           = Once(n \in NeedRewind(s, c) \ ControllerNodes)
             + Once(n \in Postponed(s, c))
             + Once(RecoverController(s, c) /\ n \in ControllerNodes)
BY DEF NodesToRecover

\* A variable whose group is rewound as a whole: its node is rewound at most once, and
\* with it all that reaches it.
LEMMA RewoundIsClosed ==
  ASSUME OthersStaySynced, dependency_nodes \subseteq Dependable, NEW s, NEW c,
         NEW v \in Whole, v \in Rewound(NodesToRecover(s, c)),
         NEW meets \in SUBSET dependency_nodes,
         NEW u \in Vars, NodeOf[u] \in Reach(v, meets)
  PROVE  /\ u \in Whole /\ u \in Rewound(NodesToRecover(s, c)) /\ IsSynced(u)
         /\ NodesToRecover(s, c)[NodeOf[u]] = 1
         /\ NodeOf[v] \in Own => RecoverController(s, c) /\ Controller \in sync_enabled
<1> DEFINE nodes == NodesToRecover(s, c)
<1>1. v \in Vars /\ IsSynced(v) /\ nodes[NodeOf[v]] > 0 /\ NodeOf[v] \in Nodes /\ NodeOf[u] \in Nodes
  BY DEF Whole, Rewound, Nodes
<1>2. /\ nodes[NodeOf[v]] = Once(NodeOf[v] \in NeedRewind(s, c) \ ControllerNodes)
           + Once(NodeOf[v] \in Postponed(s, c))
           + Once(RecoverController(s, c) /\ NodeOf[v] \in ControllerNodes)
      /\ nodes[NodeOf[u]] = Once(NodeOf[u] \in NeedRewind(s, c) \ ControllerNodes)
           + Once(NodeOf[u] \in Postponed(s, c))
           + Once(RecoverController(s, c) /\ NodeOf[u] \in ControllerNodes)
  BY <1>1, TimesRewound
<1>3. ControllerNodes \subseteq Family /\ Own \subseteq ControllerNodes
      /\ dependency_nodes \subseteq ControllerNodes
  BY DEF ControllerNodes, Family, Own
<1> HIDE DEF nodes
<1>4. CASE NodeOf[v] \in Family
  <2>1. Family \cap (Skipping \cup stopped) = {}
    BY <1>4 DEF Whole
  <2>controller. Controller \in sync_enabled
    BY <2>1 DEF OthersStaySynced, Nodes, Family, Own
  <2>2. NodeOf[u] \in Family
    BY <1>3, <1>4 DEF Reach
  <2>3. u \in Whole
    BY <2>1 DEF Whole
  <2>4. IsSynced(u)
    BY <1>1, <2>1, <2>2 DEF OthersStaySynced, IsSynced
  <2>5. NodeOf[v] \notin Postponed(s, c) /\ NodeOf[u] \notin Postponed(s, c)
    BY <1>4, <2>1, <2>2, NotSkippingIsNotPostponed
  <2>6. CASE NodeOf[v] \in Own
    <3>1. NodeOf[v] \in ControllerNodes /\ NodeOf[u] \in ControllerNodes
      BY <1>3, <2>6 DEF Reach
    <3>2. RecoverController(s, c)
      BY <1>1, <1>2, <2>5, <3>1 DEF Once
    <3>3. nodes[NodeOf[u]] = 1
      BY <1>2, <2>5, <3>1, <3>2 DEF Once
    <3> QED BY <2>3, <2>4, <2>controller, <3>2, <3>3 DEF Rewound, nodes
  <2>7. CASE NodeOf[v] \notin Own
    <3>1. NodeOf[u] = NodeOf[v]
      BY <2>7 DEF Reach
    <3>2. nodes[NodeOf[u]] = 1
      BY <1>1, <1>2, <2>5, <3>1 DEF Once
    <3> QED BY <2>3, <2>4, <2>7, <3>2 DEF Rewound, nodes
  <2> QED BY <2>6, <2>7
<1>5. CASE NodeOf[v] \notin Family
  <2>1. NodeOf[u] = NodeOf[v] /\ NodeOf[v] \notin Own
    BY <1>5 DEF Reach, Family
  <2>2. u \in Whole /\ IsSynced(u)
    BY <1>1, <1>5, <2>1 DEF Whole, IsSynced
  <2>3. NodeOf[v] \notin ControllerNodes
    BY <1>3, <1>5
  <2>4. ~ (NodeOf[v] \in NeedRewind(s, c) /\ NodeOf[v] \in Postponed(s, c))
    BY DEF Postponed
  <2>5. nodes[NodeOf[u]] = 1
    BY <1>1, <1>2, <2>1, <2>3, <2>4 DEF Once
  <2> QED BY <2>1, <2>2, <2>5 DEF Rewound, nodes
<1> QED BY <1>4, <1>5

\* A variable that is not rewound: if the server decides it alone, neither is anything
\* that reaches it, and the server does not differ there.
LEMMA LeftIsClosed ==
  ASSUME OthersStaySynced, dependency_nodes \subseteq Dependable, NEW s, NEW c,
         NEW v \in Decided, v \notin Rewound(NodesToRecover(s, c)),
         NEW meets \in SUBSET dependency_nodes,
         NEW u \in Told, NodeOf[u] \in Reach(v, meets)
  PROVE  /\ u \in Decided /\ u \notin Rewound(NodesToRecover(s, c)) /\ s[u] = c[u]
<1> DEFINE nodes == NodesToRecover(s, c)
<1>1. v \in Vars /\ u \in Vars /\ u \in Decided
  BY WorldAssumption, DecidedIsClosed DEF Decided
<1>2. NodeOf[v] \notin stopped \cup Skipping /\ NodeOf[u] \notin stopped \cup Skipping
  BY <1>1, DecidedAreWhole
<1>3. IsSynced(v) /\ IsSynced(u) /\ NodeOf[v] \in Nodes /\ NodeOf[u] \in Nodes
  BY <1>1, <1>2 DEF OthersStaySynced, IsSynced, Nodes
<1>4. NodeOf[v] \notin Postponed(s, c) /\ NodeOf[u] \notin Postponed(s, c)
  BY <1>2, NotSkippingIsNotPostponed
<1>5. /\ nodes[NodeOf[v]] = Once(NodeOf[v] \in NeedRewind(s, c) \ ControllerNodes)
           + Once(NodeOf[v] \in Postponed(s, c))
           + Once(RecoverController(s, c) /\ NodeOf[v] \in ControllerNodes)
      /\ nodes[NodeOf[u]] = Once(NodeOf[u] \in NeedRewind(s, c) \ ControllerNodes)
           + Once(NodeOf[u] \in Postponed(s, c))
           + Once(RecoverController(s, c) /\ NodeOf[u] \in ControllerNodes)
  BY <1>3, TimesRewound
<1>6. ~ (nodes[NodeOf[v]] > 0)
  BY <1>1, <1>3 DEF Rewound
<1>7. Own \subseteq ControllerNodes /\ dependency_nodes \subseteq ControllerNodes
  BY DEF ControllerNodes, Own
<1> HIDE DEF nodes
<1>8. nodes[NodeOf[u]] = 0
  <2>1. CASE NodeOf[v] \in Own
    <3>1. NodeOf[v] \in ControllerNodes /\ NodeOf[u] \in ControllerNodes
      BY <1>7, <2>1 DEF Reach
    <3>2. ~ RecoverController(s, c)
      BY <1>5, <1>6, <3>1, <1>4 DEF Once
    <3> QED BY <1>4, <1>5, <3>1, <3>2 DEF Once
  <2>2. CASE NodeOf[v] \notin Own
    <3>1. NodeOf[u] = NodeOf[v]
      BY <2>2 DEF Reach
    <3> QED BY <1>4, <1>5, <1>6, <3>1 DEF Once
  <2> QED BY <2>1, <2>2
<1>9. u \notin Rewound(NodesToRecover(s, c))
  BY <1>8 DEF Rewound, nodes
<1>10. NodeOf[u] \notin NeedRewind(s, c)
  <2>1. SUFFICES ASSUME NodeOf[u] \in NeedRewind(s, c) PROVE FALSE
    OBVIOUS
  <2>2. CASE NodeOf[u] \in ControllerNodes
    <3>1. RecoverController(s, c)
      BY <2>1, <2>2 DEF RecoverController
    <3> QED BY <1>4, <1>5, <1>8, <2>2, <3>1 DEF Once
  <2>3. CASE NodeOf[u] \notin ControllerNodes
    BY <1>4, <1>5, <1>8, <2>1, <2>3 DEF Once
  <2> QED BY <2>2, <2>3
<1>11. u \notin DifferentVars(s, c)
  BY <1>2, <1>10, NotSkippingIsNotPostponed
<1> QED BY <1>1, <1>3, <1>9, <1>11 DEF DifferentVars

\* What is left of the controller's is left with it.
LEMMA LeftWithoutController ==
  ASSUME OthersStaySynced, NEW s, NEW c,
         NEW v \in Whole, v \notin Rewound(NodesToRecover(s, c))
  PROVE  /\ IsSynced(v) => NodesToRecover(s, c)[NodeOf[v]] = 0
         /\ NodeOf[v] \in Own => ~ RecoverController(s, c)
<1> DEFINE nodes == NodesToRecover(s, c)
<1>1. nodes[NodeOf[v]] = Once(NodeOf[v] \in NeedRewind(s, c) \ ControllerNodes)
           + Once(NodeOf[v] \in Postponed(s, c))
           + Once(RecoverController(s, c) /\ NodeOf[v] \in ControllerNodes)
  BY TimesRewound DEF Whole, Nodes
<1>2. NodeOf[v] \in Own => NodeOf[v] \in ControllerNodes /\ IsSynced(v)
  BY DEF ControllerNodes, Own, Family, Whole, OthersStaySynced, Nodes, IsSynced
<1>3. IsSynced(v) => ~ (nodes[NodeOf[v]] > 0)
  BY DEF Whole, Rewound
<1> HIDE DEF nodes
<1>4. IsSynced(v) => nodes[NodeOf[v]] = 0
  BY <1>1, <1>3 DEF Once
<1>5. NodeOf[v] \in Own => ~ RecoverController(s, c)
  BY <1>1, <1>2, <1>3 DEF Once
<1> QED BY <1>4, <1>5 DEF nodes

-----------------------------------------------------------------------------
(* What an instant of a rewind makes of a variable. *)

\* r, as the instant finds it, agrees with the world w on what reaches v, all of which
\* is rewound once: v becomes what a frame makes of it in w.
LEMMA InstantPlays ==
  ASSUME NEW r \in RewindState, NEW w \in World, NEW K \in {Vars, Told}, NEW v \in K,
         K = Vars \/ NodeOf[v] \notin Targets,
         NEW frame \in Frame, NEW snapshot \in ClientSnapshot, NEW deed \in Deed,
         deed.input = frame.input, deed.meets = frame.meets, deed.action = snapshot.action,
         NEW nodes, NEW controller \in BOOLEAN,
         NodeOf[v] \in Own => controller /\ Controller \in sync_enabled,
         \A u \in Vars : NodeOf[u] \in Reach(v, deed.meets) => IsSynced(u) /\ nodes[NodeOf[u]] = 1,
         Agree(r.value, w, K, Reach(v, deed.meets))
  PROVE  Instant(r, frame, snapshot, nodes, controller).value[v] = Play(w, deed)[v]
<1> DEFINE p1 == [u \in Vars |->
                   IF IsSynced(u) THEN Processed(NodeOf[u], r.value, nodes[NodeOf[u]])[u]
                                  ELSE r.value[u]]
           c1 == IF controller /\ Controller \in sync_enabled
                   THEN Control(frame.input, frame.meets, p1) ELSE p1
           p2 == [u \in Vars |-> Process(NodeOf[u], w)[u]]
<1>1. r.value \in World
  BY DEF RewindState
<1>2. deed.input \in Inputs /\ deed.meets \in SUBSET Dependable /\ deed.action \in Actions \cup {NoAction}
  BY DEF Deed
<1>3. Instant(r, frame, snapshot, nodes, controller).value = Acted(snapshot.action, c1)
  BY DEF Instant
<1>4. Play(w, deed) = Acted(deed.action, Control(deed.input, deed.meets, p2))
  BY DEF Play
<1>5. p1 \in World
  BY <1>1, NodesMakeAWorld
<1>6. p2 \in World
  BY GameAssumption DEF World
<1>7. Agree(p1, p2, K, Reach(v, deed.meets))
  <2> SUFFICES ASSUME NEW u \in K, NodeOf[u] \in Reach(v, deed.meets) PROVE p1[u] = p2[u]
    BY DEF Agree
  <2>1. u \in Vars
    BY WorldAssumption
  <2>2. IsSynced(u) /\ nodes[NodeOf[u]] = 1
    BY <2>1
  <2>3. p1[u] = Processed(NodeOf[u], r.value, nodes[NodeOf[u]])[u]
    BY <2>1, <2>2
  <2>4. p2[u] = Process(NodeOf[u], w)[u]
    BY <2>1
  <2> HIDE DEF p1, p2
  <2>5. p1[u] = Process(NodeOf[u], r.value)[u]
    BY <2>2, <2>3 DEF Processed
  <2>6. Agree(r.value, w, K, {NodeOf[u]})
    BY DEF Agree
  <2> QED BY <1>1, <2>4, <2>5, <2>6, ProcessReads
<1> HIDE DEF p1, p2
<1>8. /\ c1 = Control(deed.input, deed.meets, p1) \/ (NodeOf[v] \notin Own /\ c1 = p1)
      /\ c1 \in World
  <2>1. Control(deed.input, deed.meets, p1) \in World
    BY <1>2, <1>5, GameAssumption DEF World
  <2> QED BY <1>5, <2>1
<1> HIDE DEF c1
<1>9. Acted(deed.action, c1)[v] = Acted(deed.action, Control(deed.input, deed.meets, p2))[v]
  BY <1>2, <1>5, <1>6, <1>7, <1>8, ControlActedReads
<1> QED BY <1>3, <1>4, <1>9

\* What an instant does with the variables that are rewound: the synchronizer knows
\* what they became and the snapshot stores it.
LEMMA InstantPulls ==
  ASSUME NEW r \in RewindState, NEW frame, NEW snapshot \in ClientSnapshot,
         NEW nodes, NEW controller, NEW v \in Rewound(nodes)
  PROVE  LET q == Instant(r, frame, snapshot, nodes, controller) IN
         /\ q.cached[v] = q.value[v]
         /\ q.snapshots[Len(r.snapshots) + 1].values[v] = q.value[v]
<1> DEFINE q == Instant(r, frame, snapshot, nodes, controller)
           values == [u \in Vars |-> IF u \in Rewound(nodes) THEN q.value[u] ELSE snapshot.values[u]]
<1>1. v \in Vars
  BY DEF Rewound
<1>2. q.cached = [u \in Vars |-> IF u \in Changed(Rewound(nodes), q.value, r.cached)
                                   THEN q.value[u] ELSE r.cached[u]]
  BY DEF Instant
<1>3. q.snapshots = Append(r.snapshots, [snapshot EXCEPT !.values = values])
  BY DEF Instant
<1> HIDE DEF q
<1>4. q.cached[v] = q.value[v]
  BY <1>1, <1>2 DEF Changed
<1>5. q.snapshots[Len(r.snapshots) + 1] = [snapshot EXCEPT !.values = values]
  <2> HIDE DEF values
  <2>1. r.snapshots \in Seq(ClientSnapshot)
    BY DEF RewindState
  <2> QED BY <1>3, <2>1
<1>6. values[v] = q.value[v]
  BY <1>1
<1>7. [snapshot EXCEPT !.values = values].values = values
  <2> HIDE DEF values
  <2> QED BY DEF ClientSnapshot
<1> HIDE DEF values
<1> QED BY <1>4, <1>5, <1>6, <1>7 DEF q

\* And with those that are not rewound, if no action acts on them.
LEMMA InstantLeaves ==
  ASSUME NEW r \in RewindState, NEW frame \in Frame, NEW snapshot \in ClientSnapshot,
         NEW nodes, NEW controller \in BOOLEAN,
         NEW v \in Vars, v \notin Rewound(nodes), NodeOf[v] \notin Targets,
         IsSynced(v) => nodes[NodeOf[v]] = 0,
         NodeOf[v] \in Own => ~ controller
  PROVE  LET q == Instant(r, frame, snapshot, nodes, controller) IN
         /\ q.value[v] = r.value[v]
         /\ q.cached[v] = r.cached[v]
         /\ q.snapshots[Len(r.snapshots) + 1].values[v] = snapshot.values[v]
<1> DEFINE p1 == [u \in Vars |->
                   IF IsSynced(u) THEN Processed(NodeOf[u], r.value, nodes[NodeOf[u]])[u]
                                  ELSE r.value[u]]
           c1 == IF controller /\ Controller \in sync_enabled
                   THEN Control(frame.input, frame.meets, p1) ELSE p1
           q == Instant(r, frame, snapshot, nodes, controller)
           values == [u \in Vars |-> IF u \in Rewound(nodes) THEN q.value[u] ELSE snapshot.values[u]]
<1>1. /\ q.value = Acted(snapshot.action, c1)
      /\ q.cached = [u \in Vars |-> IF u \in Changed(Rewound(nodes), q.value, r.cached)
                                      THEN q.value[u] ELSE r.cached[u]]
      /\ q.snapshots = Append(r.snapshots, [snapshot EXCEPT !.values = values])
  BY DEF Instant
<1>2. r.value \in World /\ r.snapshots \in Seq(ClientSnapshot)
  BY DEF RewindState
<1>3. /\ frame.input \in Inputs /\ frame.meets \in SUBSET Dependable
      /\ snapshot.action \in Actions \cup {NoAction}
  BY DEF Frame, ClientSnapshot
<1>4. p1 \in World
  BY <1>2, NodesMakeAWorld
<1>5. p1[v] = r.value[v]
  BY DEF Processed
<1> HIDE DEF p1, q
<1>6. c1 \in World /\ c1[v] = p1[v]
  <2>1. CASE controller /\ Controller \in sync_enabled
    <3>1. NodeOf[v] \notin Controlled \cup {Controller}
      BY <2>1 DEF Own
    <3> QED BY <1>3, <1>4, <2>1, <3>1, GameAssumption DEF World
  <2>2. CASE ~ (controller /\ Controller \in sync_enabled)
    BY <1>4, <2>2
  <2> QED BY <2>1, <2>2
<1> HIDE DEF c1
<1>7. q.value[v] = r.value[v]
  BY <1>1, <1>3, <1>5, <1>6, ActedIsAWorld
<1>8. q.cached[v] = r.cached[v]
  BY <1>1 DEF Changed
<1>9. q.snapshots[Len(r.snapshots) + 1] = [snapshot EXCEPT !.values = values]
  <2> HIDE DEF values
  <2>1. Len(r.snapshots) \in Nat
    BY <1>2
  <2> QED BY <1>1, <2>1
<1>10. values[v] = snapshot.values[v]
  OBVIOUS
<1>11. [snapshot EXCEPT !.values = values].values = values
  <2> HIDE DEF values
  <2> QED BY DEF ClientSnapshot
<1> HIDE DEF values
<1> QED BY <1>7, <1>8, <1>9, <1>10, <1>11 DEF q

-----------------------------------------------------------------------------
(* The invariant behind FramesFollowTheServer. *)

\* A frame and its snapshot have what the player did in it.
StoredAsMade ==
  /\ \A k \in 1 .. Len(frames_snapshot) :
       frames_snapshot[k].meets = made[frames_snapshot[k].id].meets
  /\ \A k \in 1 .. Len(client_snapshots) :
       client_snapshots[k].action = made[client_snapshots[k].input_id].action

\* The frames that are stored are those after the last that was checked.
StoredSinceChecked == last_checked_input + Len(frames_snapshot) = Len(made)

\* What a stored frame met is a dependency still, until that frame at least.
DependenciesAreKept ==
  \A k \in 1 .. Len(frames_snapshot) : \A n \in frames_snapshot[k].meets :
    n \in dependency_nodes /\ dependency_nodes_end[n] >= frames_snapshot[k].id

\* The synchronizer knows the world, except for what no state told it, what is rewound
\* without its group and what actions change.
KnowsTheWorld ==
  \A v \in Whole : NodeOf[v] \notin Targets /\ (v \in Told \/ client_snapshots /= <<>>) =>
    var_values[v] = value[v]

\* The server's state, and the frames after it.
AtFrame(k) == IF k = 0 THEN base ELSE client_snapshots[k].values
FrameFollows(k) ==
  client_snapshots[k].input_id \notin idle =>
    \A v \in Decided : AtFrame(k)[v] = Play(AtFrame(k - 1), made[client_snapshots[k].input_id])[v]
LastIsCurrent ==
  Len(made) + 1 \notin idle =>
    \A v \in Decided : var_values[v] = AtFrame(Len(client_snapshots))[v]
Followed ==
  /\ base \in World
  /\ \A k \in 1 .. Len(client_snapshots) : FrameFollows(k)
  /\ LastIsCurrent

FollowInv ==
  /\ IInv
  /\ StoredAsMade /\ StoredSinceChecked /\ DependenciesAreKept /\ KnowsTheWorld /\ Followed

LEMMA FollowedFollow == Followed => FramesFollowTheServer
BY DEF Followed, FramesFollowTheServer, AtFrame, FrameFollows, LastIsCurrent, input_buffers_counter

-----------------------------------------------------------------------------
(* The frames that a checked state leaves. *)

ServerValues(i) == server_snapshots[i].values
ClientValues(i) == client_snapshots[CheckedFrame(i)].values
LeftFrames(i) == After(frames_snapshot, server_snapshots[i].input_id)
LeftSnapshots(i) == SubSeq(client_snapshots, CheckedFrame(i) + 1, Len(client_snapshots))

\* The k-th is the k-th frame after the one that is checked, as the player made it.
LEMMA LeftAreMade ==
  ASSUME IInv, StoredAsMade, StoredSinceChecked, DependenciesAreKept,
         NEW i \in 1 .. Len(server_snapshots), Checkable(i)
  PROVE  LET id == server_snapshots[i].input_id
             N == Len(LeftFrames(i))
             j == CheckedFrame(i)
         IN  /\ N \in Nat /\ id \in Nat /\ id + N = Len(made)
             /\ LeftFrames(i) \in Seq(Frame) /\ LeftSnapshots(i) \in Seq(ClientSnapshot)
             /\ Len(LeftSnapshots(i)) = N
             /\ j \in Nat /\ j \in 1 .. Len(client_snapshots) /\ j + N = Len(client_snapshots)
             /\ \A k \in 1 .. N :
                  LET frame == LeftFrames(i)[k]
                      snapshot == LeftSnapshots(i)[k]
                      deed == made[id + k]
                  IN  /\ snapshot = client_snapshots[j + k] /\ snapshot.input_id = id + k
                      /\ frame = frames_snapshot[j + k] /\ frame.id = id + k
                      /\ frame \in Frame /\ snapshot \in ClientSnapshot /\ deed \in Deed
                      /\ deed.input = frame.input /\ deed.meets = frame.meets
                      /\ deed.action = snapshot.action
                      /\ deed.meets \subseteq dependency_nodes
<1> DEFINE id == server_snapshots[i].input_id
           j == CheckedFrame(i)
           frames == LeftFrames(i)
           left == LeftSnapshots(i)
           N == Len(frames)
           L == Len(client_snapshots)
           M == Len(made)
<1>1. /\ id \in 1 .. M
      /\ j \in 1 .. L /\ client_snapshots[j].input_id = id
      /\ left \in Seq(ClientSnapshot) /\ Len(left) = Len(frames_snapshot) - j
      /\ frames \in Seq(Frame) /\ N = Len(frames_snapshot) - j
      /\ \A k \in 1 .. Len(frames_snapshot) - j : frames[k] = frames_snapshot[j + k]
  BY CheckedAligns DEF LeftFrames, LeftSnapshots
<1>2. /\ frames_snapshot \in Seq(Frame) /\ client_snapshots \in Seq(ClientSnapshot)
      /\ made \in Seq(Deed) /\ Len(frames_snapshot) = L
      /\ M \in Nat /\ L \in Nat
  BY DEF IInv, QueuesAreTyped, Aligned
<1>3. /\ \A k \in 1 .. L : client_snapshots[k].input_id = M - L + k
      /\ \A k \in 1 .. L : frames_snapshot[k].id = M - L + k
      /\ \A k \in 1 .. L : frames_snapshot[k].input = made[frames_snapshot[k].id].input
  <2>1. Aligned /\ Len(frames_snapshot) = L
    BY <1>2 DEF IInv
  <2> HIDE DEF L, M
  <2> QED BY <2>1 DEF Aligned, L, M
<1>4. id = M - L + j /\ N = L - j /\ id + N = M
  <2> HIDE DEF id, j, N, L, M
  <2>1. client_snapshots[j].input_id = M - L + j
    BY <1>1, <1>3
  <2>2. id = M - L + j
    BY <1>1, <2>1
  <2>3. N = L - j
    BY <1>1, <1>2
  <2>4. j \in 1 .. L
    BY <1>1
  <2> QED BY <1>2, <2>2, <2>3, <2>4
<1>numbers. L \in Nat /\ M \in Nat /\ j \in 1 .. L /\ id \in 1 .. M
  BY <1>1, <1>2
<1>5. \A k \in 1 .. N : left[k] = client_snapshots[j + k]
  <2> SUFFICES ASSUME NEW k \in 1 .. N PROVE left[k] = client_snapshots[j + k]
    OBVIOUS
  <2>1. left = SubSeq(client_snapshots, j + 1, L)
    BY DEF LeftSnapshots
  <2> HIDE DEF id, j, N, L, M, left
  <2>2. (j + 1) + k - 1 = j + k /\ k \in 1 .. L - (j + 1) + 1 /\ j + 1 \in 1 .. L
    BY <1>numbers, <1>4
  <2>3. SubSeq(client_snapshots, j + 1, L)[k] = client_snapshots[(j + 1) + k - 1]
    BY <1>2, <2>2 DEF L
  <2> QED BY <2>1, <2>2, <2>3
<1>6. ASSUME NEW k \in 1 .. N
      PROVE  /\ left[k] = client_snapshots[j + k] /\ left[k].input_id = id + k
             /\ frames[k] = frames_snapshot[j + k] /\ frames[k].id = id + k
             /\ frames[k] \in Frame /\ left[k] \in ClientSnapshot /\ made[id + k] \in Deed
             /\ made[id + k].input = frames[k].input /\ made[id + k].meets = frames[k].meets
             /\ made[id + k].action = left[k].action
             /\ made[id + k].meets \subseteq dependency_nodes
  <2> HIDE DEF id, j, N, L, M, left, frames
  <2>1. /\ j + k \in 1 .. L /\ M - L + (j + k) = id + k /\ id + k \in 1 .. M
        /\ k \in 1 .. Len(frames_snapshot) - j /\ j + k \in 1 .. Len(frames_snapshot)
    <3>1. /\ j + k \in 1 .. L /\ M - L + (j + k) = id + k /\ id + k \in 1 .. M
          /\ k \in 1 .. L - j
      BY <1>numbers, <1>4
    <3> QED BY <1>2, <3>1
  <2>2. left[k] = client_snapshots[j + k] /\ frames[k] = frames_snapshot[j + k]
    BY <1>1, <1>5, <2>1
  <2>3. frames_snapshot[j + k].id = id + k /\ client_snapshots[j + k].input_id = id + k
    BY <1>3, <2>1
  <2>4. /\ frames_snapshot[j + k] \in Frame /\ client_snapshots[j + k] \in ClientSnapshot
        /\ made[id + k] \in Deed
    BY <1>2, <2>1 DEF L, M
  <2>5. /\ frames_snapshot[j + k].input = made[id + k].input
        /\ frames_snapshot[j + k].meets = made[id + k].meets
    BY <1>3, <2>1, <2>3 DEF StoredAsMade
  <2>6. client_snapshots[j + k].action = made[id + k].action
    BY <2>1, <2>3 DEF StoredAsMade, L
  <2>7. frames_snapshot[j + k].meets \subseteq dependency_nodes
    BY <2>1 DEF DependenciesAreKept
  <2> QED BY <2>2, <2>3, <2>4, <2>5, <2>6, <2>7
<1> HIDE DEF left, frames, L, M
<1>7. N \in Nat /\ id \in Nat /\ j \in Nat /\ j + N = L /\ Len(left) = N
  <2> HIDE DEF id, j, N
  <2>1. N \in Nat /\ id \in Nat /\ j \in Nat /\ j + N = L
    BY <1>numbers, <1>4
  <2>2. Len(left) = N
    BY <1>1 DEF N
  <2> QED BY <2>1, <2>2
<1> QED BY <1>1, <1>4, <1>6, <1>7 DEF left, frames, L, M

-----------------------------------------------------------------------------
(* The rewind to a state, instant by instant. *)

NodesOf(i) == NodesToRecover(ServerValues(i), ClientValues(i))
WithController(i) == RecoverController(ServerValues(i), ClientValues(i))

\* To tells where the rewind to state i is after each instant.
IsRewind(To, i) ==
  /\ IsUnfolded(To, Reset(ServerValues(i), NodesOf(i)), LeftFrames(i), LeftSnapshots(i),
                NodesOf(i), WithController(i))
  /\ StoresOneByOne(To, Len(LeftFrames(i)))

LEMMA RewindTo ==
  ASSUME IInv, NEW i \in 1 .. Len(server_snapshots), RecoverRewind(i)
  PROVE  \E To :
           LET N == Len(LeftFrames(i)) IN
           /\ IsRewind(To, i)
           /\ N \in Nat /\ To[N] \in RewindState
           /\ value' = To[N].value /\ var_values' = To[N].cached
           /\ client_snapshots' = To[N].snapshots /\ Len(client_snapshots') = N
           /\ \A k \in 1 .. N : client_snapshots'[k] = To[k].snapshots[k]
<1> DEFINE s == ServerValues(i)
           nodes == NodesOf(i)
           start == Reset(s, nodes)
           controller == WithController(i)
           frames == LeftFrames(i)
           left == LeftSnapshots(i)
           N == Len(frames)
           r == Rewind(start, frames, left, nodes, controller)
<1>1. /\ Checkable(i)
      /\ value' = r.value /\ var_values' = r.cached
      /\ Checked(i, r.snapshots)
  BY DEF RecoverRewind, ServerValues, ClientValues, NodesOf, WithController, LeftFrames,
         LeftSnapshots
<1>2. /\ frames \in Seq(Frame) /\ left \in Seq(ClientSnapshot) /\ Len(left) = N
  BY <1>1, CheckedAligns DEF LeftFrames, LeftSnapshots
<1>3. s \in [Told -> Values]
  <2>1. server_snapshots[i] \in State
    BY DEF IInv, QueuesAreTyped
  <2> QED BY <2>1 DEF State, ServerValues
<1>4. OthersStaySynced /\ controller \in BOOLEAN
  BY DEF IInv, WithController, RecoverController
<1> HIDE DEF s, frames, left, nodes, controller
<1>5. /\ start \in RewindState /\ start.snapshots = <<>>
      /\ EventsAreOld(start) /\ StoppedAreKept(start)
  BY <1>1, <1>3, CheckedIsCached, ResetStarts
<1> HIDE DEF start
<1>6. PICK To : IsUnfolded(To, start, frames, left, nodes, controller) /\ StoresOneByOne(To, N)
  BY <1>2, <1>4, <1>5, RewindStoresOneByOne
<1>8. IsRewind(To, i)
  BY <1>6 DEF IsRewind, start, frames, left, s, nodes, controller
<1>9. N \in Nat /\ N \in 0 .. N
  BY <1>2
<1>10. To[N] = r /\ To[N] \in RewindState
  BY <1>6, <1>9 DEF IsUnfolded
<1>11. client_snapshots' = To[N].snapshots
  BY <1>1, <1>10 DEF Checked
<1>12. Len(client_snapshots') = N
       /\ \A k \in 1 .. N : client_snapshots'[k] = To[k].snapshots[k]
  BY <1>6, <1>9, <1>11 DEF StoresOneByOne
<1> QED BY <1>1, <1>8, <1>9, <1>10, <1>11, <1>12 DEF frames

\* The k-th instant of a rewind, as InstantPlays, InstantPulls and InstantLeaves take it.
LEMMA InstantOfRewind ==
  ASSUME NEW i, NEW To, IsRewind(To, i), NEW k \in 1 .. Len(LeftFrames(i)),
         Len(LeftFrames(i)) \in Nat
  PROVE  /\ To[k - 1] \in RewindState /\ To[k] \in RewindState
         /\ To[k] = Instant(To[k - 1], LeftFrames(i)[k], LeftSnapshots(i)[k], NodesOf(i),
                            WithController(i))
         /\ Len(To[k - 1].snapshots) + 1 = k
<1>1. k \in 0 .. Len(LeftFrames(i)) /\ k - 1 \in 0 .. Len(LeftFrames(i)) /\ (k - 1) + 1 = k
  OBVIOUS
<1>2. Len(To[k - 1].snapshots) = k - 1
  BY <1>1 DEF IsRewind, StoresOneByOne
<1> QED BY <1>1, <1>2 DEF IsRewind, IsUnfolded

\* What is rewound plays the frames that were made.
LEMMA RewoundPlays ==
  ASSUME IInv, StoredAsMade, StoredSinceChecked, DependenciesAreKept,
         NEW i \in 1 .. Len(server_snapshots), Checkable(i),
         NEW To, IsRewind(To, i), NEW k \in 1 .. Len(LeftFrames(i)),
         NEW K \in {Vars, Told}, NEW v \in K, K = Vars \/ NodeOf[v] \notin Targets,
         v \in Whole, v \in Rewound(NodesOf(i)),
         NEW w \in World,
         Agree(To[k - 1].value, w, K, Reach(v, made[server_snapshots[i].input_id + k].meets))
  PROVE  To[k].value[v] = Play(w, made[server_snapshots[i].input_id + k])[v]
<1> DEFINE frame == LeftFrames(i)[k]
           snapshot == LeftSnapshots(i)[k]
           deed == made[server_snapshots[i].input_id + k]
           nodes == NodesOf(i)
           controller == WithController(i)
<1>1. /\ Len(LeftFrames(i)) \in Nat
      /\ frame \in Frame /\ snapshot \in ClientSnapshot /\ deed \in Deed
      /\ deed.input = frame.input /\ deed.meets = frame.meets
      /\ deed.action = snapshot.action
      /\ deed.meets \subseteq dependency_nodes
  BY LeftAreMade
<1>2. /\ To[k - 1] \in RewindState
      /\ To[k] = Instant(To[k - 1], frame, snapshot, nodes, controller)
  BY <1>1, InstantOfRewind
<1>3. /\ OthersStaySynced /\ dependency_nodes \subseteq Dependable
      /\ controller \in BOOLEAN
  BY DEF IInv, Typed, WithController, RecoverController
<1>4. ASSUME NEW u \in Vars, NodeOf[u] \in Reach(v, deed.meets)
      PROVE  IsSynced(u) /\ nodes[NodeOf[u]] = 1
  BY <1>1, <1>3, <1>4, RewoundIsClosed DEF NodesOf
<1>5. NodeOf[v] \in Own => controller /\ Controller \in sync_enabled
  <2>1. v \in Vars /\ NodeOf[v] \in Reach(v, deed.meets)
    BY ReachesItself DEF Whole
  <2> QED BY <1>1, <1>3, <2>1, RewoundIsClosed DEF NodesOf, WithController
<1> HIDE DEF frame, snapshot, nodes, controller
<1>6. Agree(To[k - 1].value, w, K, Reach(v, deed.meets))
  OBVIOUS
<1> HIDE DEF deed
<1>7. Instant(To[k - 1], frame, snapshot, nodes, controller).value[v] = Play(w, deed)[v]
  BY <1>1, <1>2, <1>3, <1>4, <1>5, <1>6, InstantPlays
<1> QED BY <1>2, <1>7 DEF deed

\* It is stored, and the synchronizer knows it.
LEMMA RewoundIsStored ==
  ASSUME IInv, StoredAsMade, StoredSinceChecked, DependenciesAreKept,
         NEW i \in 1 .. Len(server_snapshots), Checkable(i),
         NEW To, IsRewind(To, i), NEW k \in 1 .. Len(LeftFrames(i)),
         NEW v \in Rewound(NodesOf(i))
  PROVE  To[k].cached[v] = To[k].value[v] /\ To[k].snapshots[k].values[v] = To[k].value[v]
<1> DEFINE frame == LeftFrames(i)[k]
           snapshot == LeftSnapshots(i)[k]
<1>1. Len(LeftFrames(i)) \in Nat /\ snapshot \in ClientSnapshot
  BY LeftAreMade
<1>2. /\ To[k - 1] \in RewindState
      /\ To[k] = Instant(To[k - 1], frame, snapshot, NodesOf(i), WithController(i))
      /\ Len(To[k - 1].snapshots) + 1 = k
  BY <1>1, InstantOfRewind
<1> HIDE DEF frame, snapshot
<1> DEFINE q == Instant(To[k - 1], frame, snapshot, NodesOf(i), WithController(i))
<1>3. /\ q.cached[v] = q.value[v]
      /\ q.snapshots[Len(To[k - 1].snapshots) + 1].values[v] = q.value[v]
  BY <1>1, <1>2, InstantPulls
<1> HIDE DEF q
<1> QED BY <1>2, <1>3 DEF q

\* The rest stays as it is.
LEMMA LeftStays ==
  ASSUME IInv, StoredAsMade, StoredSinceChecked, DependenciesAreKept,
         NEW i \in 1 .. Len(server_snapshots), Checkable(i),
         NEW To, IsRewind(To, i),
         NEW v \in Whole, v \notin Rewound(NodesOf(i)), NodeOf[v] \notin Targets
  PROVE  /\ \A k \in 1 .. Len(LeftFrames(i)) :
              To[k].snapshots[k].values[v] = LeftSnapshots(i)[k].values[v]
         /\ \A k \in 0 .. Len(LeftFrames(i)) :
              To[k].value[v] = value[v] /\ To[k].cached[v] = var_values[v]
<1> DEFINE N == Len(LeftFrames(i))
           S == {k \in Nat : k \in 0 .. N => To[k].value[v] = value[v] /\ To[k].cached[v] = var_values[v]}
<1>1. N \in Nat /\ \A k \in 1 .. N : LeftFrames(i)[k] \in Frame /\ LeftSnapshots(i)[k] \in ClientSnapshot
  BY LeftAreMade
<1>var. v \in Vars
  BY DEF Whole
<1>2. ASSUME NEW k \in 1 .. N
      PROVE  /\ To[k].value[v] = To[k - 1].value[v]
             /\ To[k].cached[v] = To[k - 1].cached[v]
             /\ To[k].snapshots[k].values[v] = LeftSnapshots(i)[k].values[v]
  <2> DEFINE frame == LeftFrames(i)[k]
             snapshot == LeftSnapshots(i)[k]
             controller == WithController(i)
             q == Instant(To[k - 1], frame, snapshot, NodesOf(i), controller)
  <2>1. frame \in Frame /\ snapshot \in ClientSnapshot
    BY <1>1
  <2>2. /\ To[k - 1] \in RewindState /\ To[k] = q
        /\ Len(To[k - 1].snapshots) + 1 = k
    BY <1>1, InstantOfRewind
  <2>3. /\ IsSynced(v) => NodesOf(i)[NodeOf[v]] = 0
        /\ NodeOf[v] \in Own => ~ controller
    BY LeftWithoutController DEF IInv, NodesOf, WithController
  <2>4. controller \in BOOLEAN
    BY DEF WithController, RecoverController
  <2> HIDE DEF frame, snapshot, controller
  <2>5. /\ q.value[v] = To[k - 1].value[v]
        /\ q.cached[v] = To[k - 1].cached[v]
        /\ q.snapshots[Len(To[k - 1].snapshots) + 1].values[v] = snapshot.values[v]
    BY <1>var, <2>1, <2>2, <2>3, <2>4, InstantLeaves
  <2> HIDE DEF q
  <2> QED BY <2>2, <2>5 DEF snapshot
<1>3. To[0].value[v] = value[v] /\ To[0].cached[v] = var_values[v]
  BY <1>var DEF IsRewind, IsUnfolded, Reset
<1> HIDE DEF N
<1>4. 0 \in S
  BY <1>3
<1>5. ASSUME NEW k \in Nat, k \in S PROVE k + 1 \in S
  <2> SUFFICES ASSUME k + 1 \in 0 .. N
               PROVE  To[k + 1].value[v] = value[v] /\ To[k + 1].cached[v] = var_values[v]
    OBVIOUS
  <2>1. k \in 0 .. N /\ k + 1 \in 1 .. N /\ (k + 1) - 1 = k
    BY <1>1
  <2>2. To[k].value[v] = value[v] /\ To[k].cached[v] = var_values[v]
    BY <1>5, <2>1
  <2>3. To[k + 1].value[v] = To[k].value[v] /\ To[k + 1].cached[v] = To[k].cached[v]
    BY <1>2, <2>1
  <2> QED BY <2>2, <2>3
<1> HIDE DEF S
<1>6. Nat \subseteq S
  BY <1>4, <1>5, NatSetInduction
<1>7. \A k \in 0 .. N : To[k].value[v] = value[v] /\ To[k].cached[v] = var_values[v]
  BY <1>1, <1>6 DEF S
<1> QED BY <1>2, <1>7 DEF N

-----------------------------------------------------------------------------
(* The frames still follow the server after a comparison. *)

\* AtFrame after the step.
NextAt(k) == IF k = 0 THEN base' ELSE client_snapshots'[k].values

LEMMA FollowedNext ==
  ASSUME stopped \subseteq stopped', base' \in World,
         \A k \in 1 .. Len(client_snapshots') :
           client_snapshots'[k].input_id \notin idle' =>
             \A v \in Decided :
               NextAt(k)[v] = Play(NextAt(k - 1), made'[client_snapshots'[k].input_id])[v],
         Len(made') + 1 \notin idle' =>
           \A v \in Decided : var_values'[v] = NextAt(Len(client_snapshots'))[v]
  PROVE  Followed'
<1>1. Decided' \subseteq Decided
  BY StoppingShrinks
<1> QED BY <1>1 DEF Followed, FrameFollows, AtFrame, LastIsCurrent, NextAt, World

\* The base is the state.
LEMMA BaseIsTheState ==
  ASSUME IInv, NEW i \in 1 .. Len(server_snapshots), NEW left, Checked(i, left), value' \in World
  PROVE  base' \in World /\ \A u \in Told : base'[u] = ServerValues(i)[u]
<1>1. server_snapshots[i] \in State
  BY DEF IInv, QueuesAreTyped
<1>2. ServerValues(i) \in [Told -> Values]
  BY <1>1 DEF State, ServerValues
<1>3. base' = Over(ServerValues(i), value')
  BY DEF Checked, ServerValues
<1> QED BY <1>2, <1>3, WorldAssumption DEF Over, World

\* What is left is as it was made, and its dependencies are kept.
LEMMA CheckedStores ==
  ASSUME FollowInv, NEW i \in 1 .. Len(server_snapshots), Checkable(i),
         NEW left \in Seq(ClientSnapshot), Checked(i, left), Len(left) = Len(LeftFrames(i)),
         \A k \in 1 .. Len(left) : /\ left[k].input_id = LeftSnapshots(i)[k].input_id
                                   /\ left[k].action = LeftSnapshots(i)[k].action
  PROVE  StoredAsMade' /\ StoredSinceChecked' /\ DependenciesAreKept'
<1> DEFINE id == server_snapshots[i].input_id
           frames == LeftFrames(i)
           N == Len(frames)
           j == CheckedFrame(i)
<1>1. /\ frames_snapshot' = frames /\ client_snapshots' = left
      /\ last_checked_input' = id /\ made' = made /\ Purge
  BY DEF Checked, LeftFrames
<1>2. IInv /\ StoredAsMade /\ StoredSinceChecked /\ DependenciesAreKept
  BY DEF FollowInv
<1>3. N \in Nat /\ id \in Nat /\ id + N = Len(made)
  BY <1>2, LeftAreMade
<1>4. ASSUME NEW k \in 1 .. N
      PROVE  /\ frames[k] = frames_snapshot[j + k] /\ frames[k].id = id + k
             /\ LeftSnapshots(i)[k].input_id = id + k
             /\ made[id + k].meets = frames[k].meets
             /\ made[id + k].action = LeftSnapshots(i)[k].action
             /\ j + k \in 1 .. Len(frames_snapshot)
  <2>1. /\ frames[k] = frames_snapshot[j + k] /\ frames[k].id = id + k
        /\ LeftSnapshots(i)[k].input_id = id + k
        /\ made[id + k].meets = frames[k].meets
        /\ made[id + k].action = LeftSnapshots(i)[k].action
    BY <1>2, LeftAreMade
  <2>2. j \in Nat /\ j + N = Len(client_snapshots)
    BY <1>2, LeftAreMade
  <2>3. Len(frames_snapshot) = Len(client_snapshots)
    BY <1>2 DEF IInv, Aligned
  <2> QED BY <1>3, <2>1, <2>2, <2>3
<1> HIDE DEF id, frames, N, j
<1>5. StoredAsMade'
  BY <1>1, <1>4 DEF StoredAsMade, N, frames
<1>6. StoredSinceChecked'
  BY <1>1, <1>3 DEF StoredSinceChecked, N
<1>7. DependenciesAreKept'
  <2> SUFFICES ASSUME NEW k \in 1 .. N, NEW n \in frames[k].meets
               PROVE  n \in DOMAIN dependency_nodes_end' /\ dependency_nodes_end'[n] >= frames[k].id
    BY <1>1 DEF DependenciesAreKept, dependency_nodes, N
  <2>1. n \in dependency_nodes /\ dependency_nodes_end[n] >= id + k
    BY <1>2, <1>4 DEF DependenciesAreKept
  <2>2. dependency_nodes_end[n] \in Nat
    <3>1. dependency_nodes_end[n] \in Ids \cup {Never}
      BY <1>2, <2>1 DEF IInv, QueuesAreTyped
    <3> QED BY <3>1, BoundsAssumption DEF Ids, Never
  <2>3. dependency_nodes_end[n] >= id
    BY <1>3, <2>1, <2>2
  <2> QED BY <1>1, <1>4, <2>1, <2>3 DEF Purge
<1> QED BY <1>5, <1>6, <1>7

\* A frame that is left, of a variable whose surroundings the comparison leaves.
LEMMA LeftFollows ==
  ASSUME FollowInv, NEW i \in 1 .. Len(server_snapshots), Checkable(i),
         \A u \in Told : base'[u] = ServerValues(i)[u],
         \A k \in 0 .. Len(LeftFrames(i)) : NextAt(k) \in World,
         NEW k \in 1 .. Len(LeftFrames(i)), server_snapshots[i].input_id + k \notin idle,
         NEW v \in Decided,
         \A u \in Told :
           NodeOf[u] \in Reach(v, made[server_snapshots[i].input_id + k].meets) =>
             /\ ServerValues(i)[u] = ClientValues(i)[u]
             /\ \A l \in 1 .. Len(LeftFrames(i)) : NextAt(l)[u] = LeftSnapshots(i)[l].values[u]
  PROVE  NextAt(k)[v] = Play(NextAt(k - 1), made[server_snapshots[i].input_id + k])[v]
<1> DEFINE id == server_snapshots[i].input_id
           j == CheckedFrame(i)
           N == Len(LeftFrames(i))
           deed == made[id + k]
           L == Len(client_snapshots)
<1>1. IInv /\ StoredAsMade /\ StoredSinceChecked /\ DependenciesAreKept /\ Followed
  BY DEF FollowInv
<1>2. /\ N \in Nat /\ j \in Nat /\ j \in 1 .. L /\ j + N = L
      /\ \A l \in 1 .. N : /\ LeftSnapshots(i)[l] = client_snapshots[j + l]
                           /\ LeftSnapshots(i)[l].input_id = id + l
      /\ deed \in Deed
  BY <1>1, LeftAreMade
<1>3. v \in Told /\ NodeOf[v] \notin Targets /\ NodeOf[v] \in Reach(v, deed.meets) /\ Told \in {Vars, Told}
  BY DecidedAreWhole, ReachesItself
<1>4. client_snapshots \in Seq(ClientSnapshot)
  BY <1>1 DEF IInv, QueuesAreTyped
<1> HIDE DEF id, j, N, deed, L
<1>5. j + k \in 1 .. L /\ (j + k) - 1 \in 0 .. L /\ k - 1 \in 0 .. N /\ k \in 0 .. N
      /\ j + k /= 0 /\ k /= 0
  BY <1>2 DEF N
<1>6. AtFrame((j + k) - 1) \in World
  <2>1. ASSUME NEW l \in 1 .. L PROVE client_snapshots[l].values \in World
    <3>1. client_snapshots[l] \in ClientSnapshot
      BY <1>4 DEF L
    <3> QED BY <3>1 DEF ClientSnapshot
  <2>2. (j + k) - 1 = 0 \/ (j + k) - 1 \in 1 .. L
    BY <1>2, <1>5 DEF N
  <2> QED BY <1>1, <2>1, <2>2 DEF AtFrame, Followed
<1>7. AtFrame(j + k)[v] = Play(AtFrame((j + k) - 1), deed)[v]
  <2>1. client_snapshots[j + k].input_id = id + k
    BY <1>2 DEF N
  <2>2. FrameFollows(j + k)
    BY <1>1, <1>5 DEF Followed, L
  <2> QED BY <2>1, <2>2 DEF FrameFollows, deed, id
<1>8. AtFrame(j + k)[v] = NextAt(k)[v]
  <2>1. NextAt(k)[v] = LeftSnapshots(i)[k].values[v]
    BY <1>3 DEF deed, id
  <2> QED BY <1>2, <1>5, <2>1 DEF AtFrame, N
<1>9. Agree(AtFrame((j + k) - 1), NextAt(k - 1), Told, Reach(v, deed.meets))
  <2> SUFFICES ASSUME NEW u \in Told, NodeOf[u] \in Reach(v, deed.meets)
               PROVE  AtFrame((j + k) - 1)[u] = NextAt(k - 1)[u]
    BY DEF Agree
  <2>1. /\ ServerValues(i)[u] = ClientValues(i)[u]
        /\ \A l \in 1 .. N : NextAt(l)[u] = LeftSnapshots(i)[l].values[u]
    BY DEF deed, id, N
  <2>2. CASE k = 1
    <3>1. (j + k) - 1 = j /\ j /= 0 /\ k - 1 = 0
      BY <1>2, <2>2
    <3>2. AtFrame(j)[u] = ClientValues(i)[u]
      BY <3>1 DEF AtFrame, ClientValues, j
    <3>3. NextAt(0)[u] = ServerValues(i)[u]
      BY DEF NextAt
    <3> QED BY <2>1, <3>1, <3>2, <3>3
  <2>3. CASE k /= 1
    <3>1. k - 1 \in 1 .. N /\ (j + k) - 1 = j + (k - 1) /\ j + (k - 1) /= 0
      BY <1>2, <2>3 DEF N
    <3>2. AtFrame(j + (k - 1)) = LeftSnapshots(i)[k - 1].values
      BY <1>2, <3>1 DEF AtFrame
    <3> QED BY <2>1, <3>1, <3>2
  <2> QED BY <2>2, <2>3
<1>10. NextAt(k - 1) \in World
  BY <1>5 DEF N
<1>11. Play(AtFrame((j + k) - 1), deed)[v] = Play(NextAt(k - 1), deed)[v]
  BY <1>2, <1>3, <1>6, <1>9, <1>10, PlayReads
<1> QED BY <1>7, <1>8, <1>11 DEF deed, id

\* And the last one.
LEMMA LeftIsCurrent ==
  ASSUME FollowInv, NEW i \in 1 .. Len(server_snapshots), Checkable(i),
         \A u \in Told : base'[u] = ServerValues(i)[u],
         Len(made) + 1 \notin idle,
         NEW v \in Decided,
         ServerValues(i)[v] = ClientValues(i)[v],
         \A l \in 1 .. Len(LeftFrames(i)) : NextAt(l)[v] = LeftSnapshots(i)[l].values[v]
  PROVE  var_values[v] = NextAt(Len(LeftFrames(i)))[v]
<1> DEFINE j == CheckedFrame(i)
           N == Len(LeftFrames(i))
           L == Len(client_snapshots)
<1>1. IInv /\ StoredAsMade /\ StoredSinceChecked /\ DependenciesAreKept /\ Followed
  BY DEF FollowInv
<1>2. /\ N \in Nat /\ j \in Nat /\ j \in 1 .. L /\ j + N = L
      /\ \A l \in 1 .. N : LeftSnapshots(i)[l] = client_snapshots[j + l]
  BY <1>1, LeftAreMade
<1>3. v \in Told
  BY DecidedAreWhole
<1>4. var_values[v] = AtFrame(L)[v]
  BY <1>1 DEF Followed, LastIsCurrent
<1> HIDE DEF j, N, L
<1>5. AtFrame(L) = client_snapshots[L].values
  BY <1>2 DEF AtFrame
<1>6. CASE N = 0
  <2>1. L = j
    BY <1>2, <1>6
  <2>2. NextAt(N)[v] = ServerValues(i)[v]
    BY <1>3, <1>6 DEF NextAt
  <2>3. client_snapshots[L].values[v] = ClientValues(i)[v]
    BY <2>1 DEF ClientValues, j
  <2> QED BY <1>4, <1>5, <2>2, <2>3 DEF N
<1>7. CASE N /= 0
  <2>1. N \in 1 .. N
    BY <1>2, <1>7
  <2>2. NextAt(N)[v] = client_snapshots[L].values[v]
    BY <1>2, <2>1 DEF N
  <2> QED BY <1>4, <1>5, <2>2 DEF N
<1> QED BY <1>6, <1>7

-----------------------------------------------------------------------------
(* The recoveries keep FollowInv. *)

\* What the snapshots of a rewind have besides the values.
LEMMA RewindStores ==
  ASSUME IInv, StoredAsMade, StoredSinceChecked, DependenciesAreKept,
         NEW i \in 1 .. Len(server_snapshots), Checkable(i),
         NEW To, IsRewind(To, i), NEW k \in 1 .. Len(LeftFrames(i))
  PROVE  /\ To[k].snapshots[k] \in ClientSnapshot
         /\ To[k].snapshots[k].input_id = LeftSnapshots(i)[k].input_id
         /\ To[k].snapshots[k].action = LeftSnapshots(i)[k].action
<1> DEFINE frame == LeftFrames(i)[k]
           snapshot == LeftSnapshots(i)[k]
           q == Instant(To[k - 1], frame, snapshot, NodesOf(i), WithController(i))
           values == [u \in Vars |-> IF u \in Rewound(NodesOf(i)) THEN q.value[u] ELSE snapshot.values[u]]
<1>1. Len(LeftFrames(i)) \in Nat /\ snapshot \in ClientSnapshot
  BY LeftAreMade
<1>2. /\ To[k - 1] \in RewindState /\ To[k] \in RewindState
      /\ To[k] = q
      /\ Len(To[k - 1].snapshots) + 1 = k
  BY <1>1, InstantOfRewind
<1>3. q.snapshots = Append(To[k - 1].snapshots, [snapshot EXCEPT !.values = values])
  BY DEF Instant
<1> HIDE DEF frame, snapshot, q, values
<1>4. To[k - 1].snapshots \in Seq(ClientSnapshot) /\ To[k].snapshots \in Seq(ClientSnapshot)
  BY <1>2 DEF RewindState
<1>5. Len(To[k].snapshots) = k
  BY <1>2, <1>3, <1>4
<1>6. k \in 1 .. k
  BY <1>1
<1>7. To[k].snapshots[k] \in ClientSnapshot
  BY <1>4, <1>5, <1>6
<1>8. To[k].snapshots[k] = [snapshot EXCEPT !.values = values]
  BY <1>2, <1>3, <1>4
<1>9. /\ [snapshot EXCEPT !.values = values].input_id = snapshot.input_id
      /\ [snapshot EXCEPT !.values = values].action = snapshot.action
  BY <1>1 DEF ClientSnapshot
<1> QED BY <1>7, <1>8, <1>9 DEF snapshot

LEMMA RewindFollows ==
  ASSUME FollowInv, NEW i \in 1 .. Len(server_snapshots), RecoverRewind(i)
  PROVE  FollowInv'
<1> DEFINE id == server_snapshots[i].input_id
           N == Len(LeftFrames(i))
           s == ServerValues(i)
           c == ClientValues(i)
<1>1. IInv /\ StoredAsMade /\ StoredSinceChecked /\ DependenciesAreKept /\ KnowsTheWorld /\ Followed
  BY DEF FollowInv
<1>2. IInv'
  BY <1>1, RewindStep
<1>3. PICK To :
        /\ IsRewind(To, i)
        /\ N \in Nat /\ To[N] \in RewindState
        /\ value' = To[N].value /\ var_values' = To[N].cached
        /\ client_snapshots' = To[N].snapshots /\ Len(client_snapshots') = N
        /\ \A k \in 1 .. N : client_snapshots'[k] = To[k].snapshots[k]
  BY <1>1, RewindTo
<1>4. Checkable(i)
  BY DEF RecoverRewind
<1>5. Checked(i, To[N].snapshots)
  <2>1. PICK left : Checked(i, left)
    BY DEF RecoverRewind
  <2>2. client_snapshots' = left
    BY <2>1 DEF Checked
  <2> QED BY <1>3, <2>1, <2>2
<1>6. /\ base' \in World /\ \A u \in Told : base'[u] = s[u]
  <2>1. value' \in World
    BY <1>3 DEF RewindState
  <2> QED BY <1>1, <1>5, <2>1, BaseIsTheState
<1>7. made' = made /\ idle' = idle /\ stopped' = stopped
  BY <1>5 DEF Checked, syncVars
<1>8. \A k \in 1 .. N : /\ LeftSnapshots(i)[k].input_id = id + k
                        /\ made[id + k].meets \subseteq dependency_nodes
                        /\ made[id + k] \in Deed
  BY <1>1, <1>4, LeftAreMade
<1>9. \A k \in 1 .. N : /\ client_snapshots'[k] \in ClientSnapshot
                        /\ client_snapshots'[k].input_id = id + k
                        /\ client_snapshots'[k].input_id = LeftSnapshots(i)[k].input_id
                        /\ client_snapshots'[k].action = LeftSnapshots(i)[k].action
  BY <1>1, <1>3, <1>4, <1>8, RewindStores
<1>10. \A k \in 0 .. N : NextAt(k) \in World
  <2> SUFFICES ASSUME NEW k \in 0 .. N PROVE NextAt(k) \in World
    OBVIOUS
  <2>1. CASE k = 0
    BY <1>6, <2>1 DEF NextAt
  <2>2. CASE k /= 0
    <3>1. k \in 1 .. N
      BY <1>3, <2>2
    <3> QED BY <1>9, <2>2, <3>1 DEF NextAt, ClientSnapshot
  <2> QED BY <2>1, <2>2
<1>11. OthersStaySynced /\ dependency_nodes \subseteq Dependable
  BY <1>1 DEF IInv, Typed
<1> HIDE DEF id, N, s, c
\* What is rewound is stored.
<1>12. ASSUME NEW v \in Rewound(NodesOf(i)), NEW k \in 1 .. N
       PROVE  NextAt(k)[v] = To[k].value[v] /\ To[k].cached[v] = To[k].value[v]
  <2>1. To[k].cached[v] = To[k].value[v] /\ To[k].snapshots[k].values[v] = To[k].value[v]
    BY <1>1, <1>3, <1>4, RewoundIsStored DEF N
  <2>2. k /= 0
    BY <1>3
  <2> QED BY <1>3, <2>1, <2>2 DEF NextAt
<1>13. ASSUME NEW v \in Rewound(NodesOf(i)), v \in Told
       PROVE  NextAt(0)[v] = To[0].value[v] /\ To[0].cached[v] = To[0].value[v]
  <2>1. To[0] = Reset(s, NodesOf(i)) /\ v \in Vars
    BY <1>3 DEF IsRewind, IsUnfolded, s, Rewound
  <2>2. To[0].value[v] = s[v] /\ To[0].cached[v] = s[v]
    BY <1>13, <2>1 DEF Reset
  <2> QED BY <1>6, <1>13, <2>2 DEF NextAt
\* What is left is left.
<1>14. ASSUME NEW v \in Whole, v \notin Rewound(NodesOf(i)), NodeOf[v] \notin Targets
       PROVE  /\ \A k \in 1 .. N : NextAt(k)[v] = LeftSnapshots(i)[k].values[v]
              /\ value'[v] = value[v] /\ var_values'[v] = var_values[v]
  <2>1. /\ \A k \in 1 .. N : To[k].snapshots[k].values[v] = LeftSnapshots(i)[k].values[v]
        /\ \A k \in 0 .. N : To[k].value[v] = value[v] /\ To[k].cached[v] = var_values[v]
    BY <1>1, <1>3, <1>4, <1>14, LeftStays DEF N
  <2>2. N \in 0 .. N /\ \A k \in 1 .. N : k /= 0
    BY <1>3
  <2> QED BY <1>3, <2>1, <2>2 DEF NextAt
<1>15. ASSUME NEW k \in 1 .. N, id + k \notin idle, NEW v \in Decided
       PROVE  NextAt(k)[v] = Play(NextAt(k - 1), made[id + k])[v]
  <2>1. /\ v \in Whole /\ v \in Told /\ v \in Vars
        /\ NodeOf[v] \notin Targets
    BY DecidedAreWhole
  <2>2. made[id + k].meets \subseteq dependency_nodes /\ made[id + k].meets \in SUBSET Dependable
    BY <1>8, <1>11
  <2>3. CASE v \in Rewound(NodesOf(i))
    <3>1. Agree(To[k - 1].value, NextAt(k - 1), Told, Reach(v, made[id + k].meets))
      <4> SUFFICES ASSUME NEW u \in Told, NodeOf[u] \in Reach(v, made[id + k].meets)
                   PROVE  To[k - 1].value[u] = NextAt(k - 1)[u]
        BY DEF Agree
      <4>1. u \in Rewound(NodesOf(i))
        <5>1. u \in Vars
          BY WorldAssumption
        <5> QED BY <1>11, <2>1, <2>2, <2>3, <5>1, RewoundIsClosed DEF NodesOf
      <4>2. CASE k = 1
        BY <1>13, <4>1, <4>2
      <4>3. CASE k /= 1
        <5>1. k - 1 \in 1 .. N
          BY <1>3, <4>3
        <5> QED BY <1>12, <4>1, <5>1
      <4> QED BY <4>2, <4>3
    <3>2. NextAt(k - 1) \in World
      <4>1. k - 1 \in 0 .. N
        BY <1>3
      <4> QED BY <1>10, <4>1
    <3>3. To[k].value[v] = Play(NextAt(k - 1), made[id + k])[v]
      BY <1>1, <1>3, <1>4, <2>1, <2>3, <3>1, <3>2, RewoundPlays DEF id, N
    <3> QED BY <1>12, <2>3, <3>3
  <2>4. CASE v \notin Rewound(NodesOf(i))
    <3>1. ASSUME NEW u \in Told, NodeOf[u] \in Reach(v, made[id + k].meets)
          PROVE  /\ s[u] = c[u]
                 /\ \A l \in 1 .. N : NextAt(l)[u] = LeftSnapshots(i)[l].values[u]
      <4>1. /\ u \in Decided /\ u \notin Rewound(NodesOf(i))
            /\ s[u] = c[u]
        BY <1>11, <2>2, <2>4, <3>1, LeftIsClosed DEF NodesOf, s, c
      <4>2. u \in Whole /\ NodeOf[u] \notin Targets
        BY <4>1, DecidedAreWhole
      <4> QED BY <1>14, <4>1, <4>2
    <3> QED BY <1>4, <1>6, <1>10, <1>15, <3>1, LeftFollows DEF id, N, s, c
  <2> QED BY <2>3, <2>4
<1>16. ASSUME Len(made) + 1 \notin idle, NEW v \in Decided
       PROVE  var_values'[v] = NextAt(N)[v]
  <2>1. /\ v \in Whole /\ v \in Told /\ v \in Vars /\ NodeOf[v] \notin Targets
    BY DecidedAreWhole
  <2>2. CASE v \in Rewound(NodesOf(i))
    <3>1. N = 0 \/ N \in 1 .. N
      BY <1>3
    <3> QED BY <1>3, <1>12, <1>13, <2>1, <2>2, <3>1
  <2>3. CASE v \notin Rewound(NodesOf(i))
    <3>1. s[v] = c[v]
      <4>1. {} \in SUBSET dependency_nodes /\ NodeOf[v] \in Reach(v, {})
        BY <2>1, ReachesItself
      <4> QED BY <1>11, <2>1, <2>3, <4>1, LeftIsClosed DEF NodesOf, s, c
    <3>2. /\ \A k \in 1 .. N : NextAt(k)[v] = LeftSnapshots(i)[k].values[v]
          /\ var_values'[v] = var_values[v]
      BY <1>14, <2>1, <2>3
    <3>3. var_values[v] = NextAt(N)[v]
      BY <1>4, <1>6, <1>16, <3>1, <3>2, LeftIsCurrent DEF N, s, c
    <3> QED BY <3>2, <3>3
  <2> QED BY <2>2, <2>3
<1>17. Followed'
  <2>1. \A k \in 1 .. Len(client_snapshots') :
          client_snapshots'[k].input_id \notin idle' =>
            \A v \in Decided :
              NextAt(k)[v] = Play(NextAt(k - 1), made'[client_snapshots'[k].input_id])[v]
    BY <1>3, <1>7, <1>9, <1>15
  <2>2. Len(made') + 1 \notin idle' =>
          \A v \in Decided : var_values'[v] = NextAt(Len(client_snapshots'))[v]
    BY <1>3, <1>7, <1>16
  <2> QED BY <1>6, <1>7, <2>1, <2>2, FollowedNext
<1>18. KnowsTheWorld'
  <2> SUFFICES ASSUME NEW v \in Whole, NodeOf[v] \notin Targets
               PROVE  var_values'[v] = value'[v]
    BY <1>7, StoppingShrinks DEF KnowsTheWorld
  <2>1. v \in Vars
    BY DEF Whole
  <2>2. var_values[v] = value[v]
    <3>1. client_snapshots \in Seq(ClientSnapshot) /\ \E k \in 1 .. Len(client_snapshots) : TRUE
      BY <1>1, <1>4 DEF IInv, QueuesAreTyped, Checkable
    <3>2. client_snapshots /= <<>>
      BY <3>1
    <3> QED BY <1>1, <3>2 DEF KnowsTheWorld
  <2>3. CASE v \in Rewound(NodesOf(i)) /\ N /= 0
    <3>1. N \in 1 .. N
      BY <1>3, <2>3
    <3> QED BY <1>3, <1>12, <2>3, <3>1
  <2>4. CASE v \in Rewound(NodesOf(i)) /\ N = 0
    <3>1. To[0] = Reset(s, NodesOf(i))
      BY <1>3 DEF IsRewind, IsUnfolded, s
    <3>2. To[0].cached[v] = To[0].value[v]
      BY <2>1, <2>2, <3>1 DEF Reset
    <3> QED BY <1>3, <2>4, <3>2
  <2>5. CASE v \notin Rewound(NodesOf(i))
    BY <1>14, <2>2, <2>5
  <2> QED BY <2>3, <2>4, <2>5
<1>19. StoredAsMade' /\ StoredSinceChecked' /\ DependenciesAreKept'
  <2>1. To[N].snapshots \in Seq(ClientSnapshot)
    BY <1>3 DEF RewindState
  <2>2. Len(To[N].snapshots) = N
    BY <1>3
  <2>3. \A k \in 1 .. N : /\ To[N].snapshots[k].input_id = LeftSnapshots(i)[k].input_id
                          /\ To[N].snapshots[k].action = LeftSnapshots(i)[k].action
    BY <1>3, <1>9
  <2> QED BY <1>4, <1>5, <2>1, <2>2, <2>3, CheckedStores DEF N
<1> QED BY <1>2, <1>17, <1>18, <1>19 DEF FollowInv

LEMMA NoRewindFollows ==
  ASSUME FollowInv, NEW i \in 1 .. Len(server_snapshots), RecoverNoRewind(i)
  PROVE  FollowInv'
<1> DEFINE id == server_snapshots[i].input_id
           N == Len(LeftFrames(i))
           s == ServerValues(i)
           c == ClientValues(i)
           set == DifferentVars(s, c)
           waiting == Postponed(s, c)
           left == LeftSnapshots(i)
           L == Len(left)
           last == [v \in Vars |-> IF NodeOf[v] \in waiting
                                     THEN var_values'[v] ELSE left[L].values[v]]
           kept == IF left = <<>> THEN left ELSE [left EXCEPT ![L].values = last]
<1>1. IInv /\ StoredAsMade /\ StoredSinceChecked /\ DependenciesAreKept /\ KnowsTheWorld /\ Followed
  BY DEF FollowInv
<1>2. IInv'
  BY <1>1, NoRewindStep
<1>3. /\ Checkable(i)
      /\ NeedRewind(s, c) = {}
      /\ value' = [v \in Vars |-> IF v \in set THEN s[v] ELSE value[v]]
      /\ var_values' = [v \in Vars |-> IF v \in set THEN s[v] ELSE var_values[v]]
      /\ Checked(i, kept)
  BY DEF RecoverNoRewind, ServerValues, ClientValues, LeftSnapshots
<1>4. /\ base' \in World /\ \A u \in Told : base'[u] = s[u]
  <2>1. value' \in World
    BY <1>2 DEF IInv, Typed, World
  <2> QED BY <1>1, <1>3, <2>1, BaseIsTheState
<1>5. made' = made /\ idle' = idle /\ client_snapshots' = kept /\ stopped' = stopped
  BY <1>3 DEF Checked, syncVars
<1>6. /\ N \in Nat /\ left \in Seq(ClientSnapshot) /\ L = N
      /\ \A k \in 1 .. N : /\ left[k] \in ClientSnapshot
                           /\ left[k].input_id = id + k
                           /\ made[id + k].meets \subseteq dependency_nodes
  BY <1>1, <1>3, LeftAreMade
<1>7. dependency_nodes \subseteq Dependable /\ OthersStaySynced
  BY <1>1 DEF IInv, Typed
\* Where the server decides alone nothing differs.
<1>8. ASSUME NEW v \in Decided
      PROVE  /\ s[v] = c[v] /\ v \notin set /\ NodeOf[v] \notin waiting
             /\ value'[v] = value[v] /\ var_values'[v] = var_values[v]
  <2>1. /\ v \in Vars /\ v \in Told /\ NodeOf[v] \notin stopped /\ NodeOf[v] \notin Skipping
    BY DecidedAreWhole
  <2>2. NodeOf[v] \notin waiting /\ v \notin set
    BY <1>3, <2>1, NotSkippingIsNotPostponed
  <2>3. IsSynced(v)
    BY <1>7, <2>1 DEF OthersStaySynced, Nodes, IsSynced
  <2>4. s[v] = c[v]
    BY <2>1, <2>2, <2>3 DEF DifferentVars
  <2> QED BY <1>3, <2>1, <2>2, <2>4
<1> HIDE DEF id, N, s, c, set, waiting, left
<1>9. /\ kept \in Seq(ClientSnapshot) /\ Len(kept) = N
      /\ \A k \in 1 .. N : /\ kept[k].input_id = left[k].input_id
                           /\ kept[k].action = left[k].action
                           /\ kept[k] \in ClientSnapshot
                           /\ \A v \in Vars : NodeOf[v] \notin waiting =>
                                kept[k].values[v] = left[k].values[v]
  <2>1. CASE left = <<>>
    BY <1>6, <2>1
  <2>2. CASE left /= <<>>
    <3>1. L \in 1 .. L /\ left[L] \in ClientSnapshot
      BY <1>6, <2>2
    <3>2. last \in World
      <4>1. \A v \in Vars : var_values'[v] \in Values
        <5>1. server_snapshots[i] \in State
          BY <1>1 DEF IInv, QueuesAreTyped
        <5>2. s \in [Told -> Values]
          BY <5>1 DEF State, s, ServerValues
        <5>3. set \subseteq Told
          BY DEF set, DifferentVars
        <5>4. var_values \in World
          BY <1>1, <1>3, CheckedIsCached
        <5> QED BY <1>3, <5>2, <5>3, <5>4 DEF World
      <4>2. \A v \in Vars : left[L].values[v] \in Values
        BY <3>1 DEF ClientSnapshot, World
      <4> QED BY <4>1, <4>2 DEF World
    <3>3. \A v \in Vars : NodeOf[v] \notin waiting => last[v] = left[L].values[v]
      OBVIOUS
    <3> HIDE DEF last
    <3>4. /\ [left[L] EXCEPT !.values = last] \in ClientSnapshot
          /\ [left[L] EXCEPT !.values = last].input_id = left[L].input_id
          /\ [left[L] EXCEPT !.values = last].action = left[L].action
          /\ [left[L] EXCEPT !.values = last].values = last
      BY <3>1, <3>2 DEF ClientSnapshot
    <3>5. kept = [left EXCEPT ![L] = [left[L] EXCEPT !.values = last]]
      BY <2>2
    <3> DEFINE new == [left[L] EXCEPT !.values = last]
    <3> HIDE DEF kept, new
    <3>6. kept \in Seq(ClientSnapshot) /\ Len(kept) = N
      BY <1>6, <3>1, <3>4, <3>5 DEF new
    <3>7. \A k \in 1 .. N : kept[k] = IF k = L THEN new ELSE left[k]
      BY <1>6, <3>1, <3>5 DEF new
    <3>8. /\ new \in ClientSnapshot /\ new.input_id = left[L].input_id
          /\ new.action = left[L].action /\ new.values = last
      BY <3>4 DEF new
    <3> HIDE DEF L
    <3> QED BY <1>6, <3>3, <3>6, <3>7, <3>8
  <2> QED BY <2>1, <2>2
<1> HIDE DEF kept
<1>10. \A k \in 0 .. N : NextAt(k) \in World
  <2> SUFFICES ASSUME NEW k \in 0 .. N PROVE NextAt(k) \in World
    OBVIOUS
  <2>1. CASE k = 0
    BY <1>4, <2>1 DEF NextAt
  <2>2. CASE k /= 0
    <3>1. k \in 1 .. N
      BY <1>6, <2>2
    <3> QED BY <1>5, <1>9, <2>2, <3>1 DEF NextAt, ClientSnapshot
  <2> QED BY <2>1, <2>2
<1>11. ASSUME NEW v \in Decided, NEW k \in 1 .. N PROVE NextAt(k)[v] = left[k].values[v]
  <2>1. v \in Vars /\ k /= 0
    BY <1>6, DecidedAreWhole
  <2> QED BY <1>5, <1>8, <1>9, <2>1 DEF NextAt
<1>12. ASSUME NEW k \in 1 .. N, id + k \notin idle, NEW v \in Decided
       PROVE  NextAt(k)[v] = Play(NextAt(k - 1), made[id + k])[v]
  <2>1. ASSUME NEW u \in Told, NodeOf[u] \in Reach(v, made[id + k].meets)
        PROVE  /\ s[u] = c[u]
               /\ \A l \in 1 .. N : NextAt(l)[u] = left[l].values[u]
    <3>1. made[id + k].meets \in SUBSET Dependable
      BY <1>6, <1>7
    <3>2. u \in Decided
      BY <2>1, <3>1, DecidedIsClosed
    <3> QED BY <1>8, <1>11, <3>2
  <2> QED BY <1>3, <1>4, <1>10, <1>12, <2>1, LeftFollows DEF id, N, s, c, left
<1>13. ASSUME Len(made) + 1 \notin idle, NEW v \in Decided
       PROVE  var_values'[v] = NextAt(N)[v]
  <2>1. s[v] = c[v] /\ var_values'[v] = var_values[v]
    BY <1>8
  <2>2. \A l \in 1 .. N : NextAt(l)[v] = left[l].values[v]
    BY <1>11
  <2>3. var_values[v] = NextAt(N)[v]
    BY <1>3, <1>4, <1>13, <2>1, <2>2, LeftIsCurrent DEF N, s, c, left
  <2> QED BY <2>1, <2>3
<1>14. Followed'
  <2>1. \A k \in 1 .. Len(client_snapshots') :
          client_snapshots'[k].input_id \notin idle' =>
            \A v \in Decided :
              NextAt(k)[v] = Play(NextAt(k - 1), made'[client_snapshots'[k].input_id])[v]
    BY <1>5, <1>6, <1>9, <1>12
  <2>2. Len(made') + 1 \notin idle' =>
          \A v \in Decided : var_values'[v] = NextAt(Len(client_snapshots'))[v]
    BY <1>5, <1>9, <1>13
  <2> QED BY <1>4, <1>5, <2>1, <2>2, FollowedNext
<1>15. KnowsTheWorld'
  <2> SUFFICES ASSUME NEW v \in Whole, NodeOf[v] \notin Targets
               PROVE  var_values'[v] = value'[v]
    BY <1>5, StoppingShrinks DEF KnowsTheWorld
  <2>1. v \in Vars
    BY DEF Whole
  <2>2. client_snapshots \in Seq(ClientSnapshot) /\ \E k \in 1 .. Len(client_snapshots) : TRUE
    BY <1>1, <1>3 DEF IInv, QueuesAreTyped, Checkable
  <2>3. client_snapshots /= <<>>
    BY <2>2
  <2>4. var_values[v] = value[v]
    BY <1>1, <2>3 DEF KnowsTheWorld
  <2> QED BY <1>3, <2>1, <2>4
<1>16. StoredAsMade' /\ StoredSinceChecked' /\ DependenciesAreKept'
  BY <1>3, <1>9, CheckedStores DEF N, left
<1> QED BY <1>2, <1>14, <1>15, <1>16 DEF FollowInv

\* Without stored frames the state is the world.
LEMMA PausedFollows ==
  ASSUME FollowInv, RecoverPaused
  PROVE  FollowInv'
<1> DEFINE N == Len(server_snapshots)
           s == Last(server_snapshots).values
           of(v) == IF v \in Told THEN s[v] ELSE Nil
           Different == {v \in Vars : IsSynced(v) /\ var_values[v] /= of(v)}
<1>1. /\ server_snapshots /= <<>> /\ client_snapshots = <<>>
      /\ var_values' = [v \in Vars |-> IF v \in Different THEN of(v) ELSE var_values[v]]
      /\ value' = [v \in Vars |-> IF v \in Different \cap Told THEN s[v] ELSE value[v]]
      /\ base' = Over(s, value')
      /\ UNCHANGED <<stopped, frames_snapshot, client_snapshots, last_checked_input, made, idle>>
  BY DEF RecoverPaused, frameVars, syncVars
<1>2. IInv /\ StoredAsMade /\ StoredSinceChecked /\ DependenciesAreKept /\ KnowsTheWorld /\ Followed
  BY DEF FollowInv
<1>3. IInv'
  BY <1>2, PausedStep
<1>4. s \in [Told -> Values]
  <2>1. server_snapshots \in Seq(State)
    BY <1>2 DEF IInv, QueuesAreTyped
  <2>2. N \in 1 .. N
    BY <1>1, <2>1
  <2>3. Last(server_snapshots) \in State
    BY <2>1, <2>2 DEF Last
  <2> QED BY <2>3 DEF State
<1>5. frames_snapshot = <<>> /\ Len(client_snapshots) = 0 /\ Len(frames_snapshot) = 0
  BY <1>1, <1>2 DEF IInv, Aligned, QueuesAreTyped
<1>6. StoredAsMade' /\ StoredSinceChecked' /\ DependenciesAreKept'
  BY <1>1, <1>2, <1>5 DEF StoredAsMade, StoredSinceChecked, DependenciesAreKept
<1> HIDE DEF s
<1>7. base' \in World /\ \A v \in Told : base'[v] = s[v]
  <2>1. value' \in World
    BY <1>3 DEF IInv, Typed, World
  <2> QED BY <1>1, <1>4, <2>1, WorldAssumption DEF Over, World
<1>8. KnowsTheWorld'
  <2> SUFFICES ASSUME NEW v \in Whole, NodeOf[v] \notin Targets, v \in Told
               PROVE  var_values'[v] = value'[v]
    BY <1>1, StoppingShrinks DEF KnowsTheWorld
  <2>1. v \in Vars /\ var_values[v] = value[v]
    BY <1>2 DEF KnowsTheWorld, Whole
  <2> QED BY <1>1, <2>1
<1>9. Followed'
  <2>1. ASSUME NEW v \in Decided PROVE var_values'[v] = base'[v]
    <3>1. v \in Told /\ v \in Vars /\ NodeOf[v] \notin stopped
      BY DecidedAreWhole
    <3>2. IsSynced(v)
      BY <1>2, <3>1 DEF IInv, OthersStaySynced, Nodes, IsSynced
    <3> QED BY <1>1, <1>7, <3>1, <3>2
  <2>2. Len(client_snapshots') = 0 /\ NextAt(0) = base'
    BY <1>1, <1>5 DEF NextAt
  <2> QED BY <1>1, <1>7, <2>1, <2>2, FollowedNext
<1> QED BY <1>3, <1>6, <1>8, <1>9 DEF FollowInv

\* A tick that has nothing to compare, or that changes nothing of the client's frames.
LEMMA FollowedStays ==
  ASSUME Followed, base' = base, UNCHANGED <<var_values, client_snapshots, made, idle>>,
         stopped \subseteq stopped'
  PROVE  Followed'
<1>1. Decided' \subseteq Decided
  BY StoppingShrinks
<1> QED BY <1>1 DEF Followed, FrameFollows, AtFrame, LastIsCurrent, World

LEMMA NothingFollows ==
  ASSUME FollowInv, RecoverNothing
  PROVE  FollowInv'
<1>1. /\ UNCHANGED <<value, var_values, stopped, frameVars, checkVars, serverVars, made, base,
                     idle>>
      /\ Purge
  BY DEF RecoverNothing, worldVars, syncVars
<1>2. IInv /\ StoredAsMade /\ StoredSinceChecked /\ DependenciesAreKept /\ KnowsTheWorld /\ Followed
  BY DEF FollowInv
<1>3. IInv'
  BY <1>2, NothingStep
<1>4. StoredAsMade' /\ StoredSinceChecked'
  BY <1>1, <1>2 DEF StoredAsMade, StoredSinceChecked, frameVars, checkVars
<1>5. DependenciesAreKept'
  <2> SUFFICES ASSUME NEW k \in 1 .. Len(frames_snapshot), NEW n \in frames_snapshot[k].meets
               PROVE  /\ n \in DOMAIN dependency_nodes_end'
                      /\ dependency_nodes_end'[n] >= frames_snapshot[k].id
    BY <1>1 DEF DependenciesAreKept, dependency_nodes, frameVars
  <2>1. n \in dependency_nodes /\ dependency_nodes_end[n] >= frames_snapshot[k].id
    BY <1>2 DEF DependenciesAreKept
  <2>2. dependency_nodes_end[n] \in Nat
    <3>1. dependency_nodes_end[n] \in Ids \cup {Never}
      BY <1>2, <2>1 DEF IInv, QueuesAreTyped
    <3> QED BY <3>1, BoundsAssumption DEF Ids, Never
  <2>3. frames_snapshot[k].id > last_checked_input /\ frames_snapshot[k].id \in Nat
    <3>1. /\ frames_snapshot[k].id = Len(made) - Len(frames_snapshot) + k
          /\ last_checked_input + Len(frames_snapshot) = Len(made)
      BY <1>2 DEF IInv, Aligned, StoredSinceChecked
    <3>2. last_checked_input \in Nat /\ Len(made) \in Nat /\ Len(frames_snapshot) \in Nat
      BY <1>2 DEF IInv, Typed, QueuesAreTyped
    <3> QED BY <3>1, <3>2
  <2>4. last_checked_input \in Nat /\ last_checked_input' = last_checked_input
    BY <1>1, <1>2 DEF IInv, Typed, QueuesAreTyped, checkVars
  <2>5. dependency_nodes_end[n] >= last_checked_input'
    BY <2>1, <2>2, <2>3, <2>4
  <2> QED BY <1>1, <2>1, <2>5 DEF Purge
<1>6. KnowsTheWorld' /\ Followed'
  <2>1. KnowsTheWorld'
    BY <1>1, <1>2, StoppingShrinks DEF KnowsTheWorld, frameVars
  <2> QED BY <1>1, <1>2, <2>1, FollowedStays DEF frameVars
<1> QED BY <1>3, <1>4, <1>5, <1>6 DEF FollowInv

-----------------------------------------------------------------------------
(* The invariant of the queues. *)

LEMMA InitHolds == Init => IInv
<1> SUFFICES ASSUME Init PROVE IInv
  OBVIOUS
<1>1. Len(<<>>) = 0 /\ \A k : k \notin 1 .. 0
  OBVIOUS
<1>2. <<>> \in Seq(Frame) /\ <<>> \in Seq(ClientSnapshot) /\ <<>> \in Seq(State) /\ <<>> \in Seq(Deed)
  OBVIOUS
<1>3. Typed
  BY <1>1, DeedsAssumption, BoundsAssumption DEF Init, Typed, World, Known, dependency_nodes
<1>4. Aligned
  BY <1>1 DEF Init, Aligned
<1>5. QueuesAreTyped
  BY <1>1, <1>2, BoundsAssumption DEF Init, QueuesAreTyped, dependency_nodes
<1>6. OthersStaySynced
  BY DEF Init, OthersStaySynced, Nodes
<1> QED BY <1>3, <1>4, <1>5, <1>6 DEF IInv

\* A step keeps the invariant; and one that uses a state of the server tells the
\* difference and leaves the stopped nodes.
LEMMA StepHolds ==
  ASSUME IInv, [Next]_vars
  PROVE  /\ IInv'
         /\ Len(server_snapshots') < Len(server_snapshots) =>
              TellsTheDifference /\ LeavesTheStopped /\ LeavesTheirSnapshots
<1>1. Len(server_snapshots) \in Nat
  BY DEF IInv, QueuesAreTyped
<1>2. CASE \E deed \in Deeds : SubTickStream(deed)
  <2>1. IInv' /\ server_snapshots' = server_snapshots
    BY <1>2, StreamStep
  <2> QED BY <1>1, <2>1
<1>3. CASE \E deed \in Deeds : SubTickIdle(deed.meets)
  <2>1. IInv' /\ server_snapshots' = server_snapshots
    BY <1>3, IdleStep
  <2> QED BY <1>1, <2>1
<1>4. CASE ReceiveState
  <2>1. IInv' /\ Len(server_snapshots') >= Len(server_snapshots)
    BY <1>4, ReceiveStep
  <2>2. Len(server_snapshots') \in Nat
    BY <2>1 DEF IInv, QueuesAreTyped
  <2> QED BY <1>1, <2>1, <2>2
<1>5. CASE RecoverNothing
  <2>1. IInv' /\ server_snapshots' = server_snapshots
    BY <1>5, NothingStep
  <2> QED BY <1>1, <2>1
<1>6. CASE RecoverPaused
  BY <1>6, PausedStep
<1>7. CASE \E i \in 1 .. Len(server_snapshots) : RecoverRewind(i)
  BY <1>7, RewindStep
<1>8. CASE \E i \in 1 .. Len(server_snapshots) : RecoverNoRewind(i)
  BY <1>8, NoRewindStep
<1>9. CASE \/ \E n \in Stoppable : StartNodeSync(n) \/ StopNodeSync(n)
           \/ \E n \in Dependable : AddDependency(n) \/ RemoveDependency(n)
  <2>1. IInv' /\ server_snapshots' = server_snapshots
    BY <1>9, GameStep
  <2> QED BY <1>1, <2>1
<1>10. CASE \E k \in Ids, touched \in Touches \cup {Nothing}, notify \in BOOLEAN :
              ServerProcess(k, touched, notify)
  <2>1. IInv' /\ server_snapshots' = server_snapshots
    BY <1>10, ServerStep
  <2> QED BY <1>1, <2>1
<1>11. CASE UNCHANGED vars
  <2>1. UNCHANGED <<worldVars, gameVars, frameVars, checkVars, serverVars, made>>
    BY <1>11 DEF vars
  <2>2. Typed'
    BY <2>1 DEF IInv, Typed, worldVars, gameVars, syncVars, frameVars, checkVars, serverVars,
                dependency_nodes, Ids, Never
  <2>3. Aligned'
    BY <2>1 DEF IInv, Aligned, frameVars
  <2>4. QueuesAreTyped'
    BY <2>1 DEF IInv, QueuesAreTyped, World, worldVars, gameVars, syncVars, frameVars, checkVars, serverVars,
                dependency_nodes, Ids, Never
  <2>5. OthersStaySynced'
    BY <2>1 DEF IInv, OthersStaySynced, Nodes, gameVars, syncVars
  <2>6. Len(server_snapshots') = Len(server_snapshots)
    BY <2>1 DEF checkVars
  <2> QED BY <1>1, <2>2, <2>3, <2>4, <2>5, <2>6 DEF IInv
<1> QED BY <1>2, <1>3, <1>4, <1>5, <1>6, <1>7, <1>8, <1>9, <1>10, <1>11 DEF Next, Recover

\* The invariant always holds.
LEMMA InvariantHolds == Spec => []IInv
<1>1. IInv /\ [Next]_vars => IInv'
  BY StepHolds
<1> QED BY <1>1, InitHolds, PTL DEF Spec

-----------------------------------------------------------------------------
(* The other steps keep FollowInv. *)

\* A frame follows from the world the synchronizer knows.
LEMMA StreamFollows ==
  ASSUME FollowInv, NEW deed \in Deeds, SubTickStream(deed)
  PROVE  FollowInv'
<1> DEFINE M == Len(made)
           L == Len(frames_snapshot)
           frame == [id |-> current_input_id', input |-> deed.input, meets |-> deed.meets]
           snapshot == [input_id |-> current_input_id', values |-> var_values',
                        action |-> deed.action]
<1>1. /\ current_input_id' = M + 1
      /\ deed.meets \subseteq Met
      /\ value' = Play(value, deed) /\ var_values' = value'
      /\ frames_snapshot' = Append(frames_snapshot, frame)
      /\ client_snapshots' = Append(client_snapshots, snapshot)
      /\ made' = Append(made, deed)
      /\ UNCHANGED <<gameVars, checkVars, base, idle>>
  BY DEF SubTickStream, input_buffers_counter
<1>2. IInv /\ StoredAsMade /\ StoredSinceChecked /\ DependenciesAreKept /\ KnowsTheWorld /\ Followed
  BY DEF FollowInv
<1>3. IInv'
  BY <1>2, StreamStep
<1>4. /\ made \in Seq(Deed) /\ frames_snapshot \in Seq(Frame)
      /\ client_snapshots \in Seq(ClientSnapshot) /\ Len(client_snapshots) = L
      /\ value \in World /\ last_checked_input \in Nat
  BY <1>2 DEF IInv, QueuesAreTyped, Aligned, Typed
<1>5. deed \in Deed /\ deed.input \in Inputs /\ deed.meets \in SUBSET Dependable
      /\ deed.action \in Actions \cup {NoAction}
  BY DeedsAssumption DEF Deed
<1>6. var_values' \in World
  BY <1>1, <1>4, <1>5, PlayIsAWorld
<1>7. M \in Nat /\ L \in Nat /\ last_checked_input + L = M
  BY <1>2, <1>4 DEF StoredSinceChecked
<1>8. /\ frame \in Frame /\ snapshot \in ClientSnapshot
      /\ frame.id = M + 1 /\ frame.meets = deed.meets
      /\ snapshot.input_id = M + 1 /\ snapshot.action = deed.action
      /\ snapshot.values = var_values'
  BY <1>1, <1>5, <1>6, <1>7 DEF Frame, ClientSnapshot
<1> HIDE DEF frame, snapshot
<1>9. /\ Len(frames_snapshot') = L + 1
      /\ \A k \in 1 .. L : frames_snapshot'[k] = frames_snapshot[k]
      /\ frames_snapshot'[L + 1] = frame
  BY <1>1, <1>4, <1>8, Appended
<1>10. /\ Len(client_snapshots') = L + 1
       /\ \A k \in 1 .. L : client_snapshots'[k] = client_snapshots[k]
       /\ client_snapshots'[L + 1] = snapshot
  <2>1. /\ Len(client_snapshots') = Len(client_snapshots) + 1
        /\ \A k \in 1 .. Len(client_snapshots) : client_snapshots'[k] = client_snapshots[k]
        /\ client_snapshots'[Len(client_snapshots) + 1] = snapshot
    BY <1>1, <1>4, <1>8, Appended
  <2> QED BY <1>4, <2>1
<1>11. /\ Len(made') = M + 1
       /\ \A k \in 1 .. M : made'[k] = made[k]
       /\ made'[M + 1] = deed
  BY <1>1, <1>4, <1>5, Appended
<1>12. ASSUME NEW k \in 1 .. L
       PROVE  /\ frames_snapshot[k].id = M - L + k /\ client_snapshots[k].input_id = M - L + k
              /\ M - L + k \in 1 .. M
  <2>1. frames_snapshot[k].id = M - L + k /\ client_snapshots[k].input_id = M - L + k
    BY <1>2, <1>4 DEF IInv, Aligned
  <2> HIDE DEF L, M
  <2>2. M - L + k \in 1 .. M
    BY <1>4, <1>7
  <2> QED BY <2>1, <2>2
<1>13. StoredAsMade
  BY <1>2
<1> HIDE DEF L, M
<1>14. \A k \in 1 .. L + 1 : k \in 1 .. L \/ k = L + 1
  BY <1>7
<1>15. StoredAsMade'
  <2>1. \A k \in 1 .. L : frames_snapshot'[k].meets = made'[frames_snapshot'[k].id].meets
    BY <1>9, <1>11, <1>12, <1>13 DEF StoredAsMade, L
  <2>2. \A k \in 1 .. L : client_snapshots'[k].action = made'[client_snapshots'[k].input_id].action
    BY <1>4, <1>10, <1>11, <1>12, <1>13 DEF StoredAsMade
  <2>3. frames_snapshot'[L + 1].meets = made'[frames_snapshot'[L + 1].id].meets
    BY <1>8, <1>9, <1>11
  <2>4. client_snapshots'[L + 1].action = made'[client_snapshots'[L + 1].input_id].action
    BY <1>8, <1>10, <1>11
  <2> QED BY <1>9, <1>10, <1>14, <2>1, <2>2, <2>3, <2>4 DEF StoredAsMade
<1>16. StoredSinceChecked'
  BY <1>1, <1>4, <1>7, <1>9, <1>11 DEF StoredSinceChecked, checkVars
<1>17. DependenciesAreKept'
  <2>1. ASSUME NEW n \in deed.meets
        PROVE  n \in dependency_nodes /\ dependency_nodes_end[n] >= M + 1
    <3>1. n \in dependency_nodes /\ dependency_nodes_end[n] = Never
      BY <1>1 DEF Met
    <3>2. M + 1 <= MaxInput
      BY DEF SubTickStream, input_buffers_counter, M
    <3> QED BY <1>7, <3>1, <3>2, BoundsAssumption DEF Never
  <2>2. ASSUME NEW k \in 1 .. L + 1, NEW n \in frames_snapshot'[k].meets
        PROVE  n \in dependency_nodes /\ dependency_nodes_end[n] >= frames_snapshot'[k].id
    <3>1. CASE k \in 1 .. L
      BY <1>2, <1>9, <2>2, <3>1 DEF DependenciesAreKept, L
    <3>2. CASE k = L + 1
      BY <1>8, <1>9, <2>1, <2>2, <3>2
    <3> QED BY <1>14, <3>1, <3>2
  <2> QED BY <1>1, <1>9, <2>2 DEF DependenciesAreKept, dependency_nodes, gameVars, syncVars
<1>18. KnowsTheWorld'
  BY <1>1 DEF KnowsTheWorld
<1>19. Followed'
  <2>1. \A k \in 1 .. L : NextAt(k) = AtFrame(k)
    BY <1>7, <1>10 DEF NextAt, AtFrame
  <2>2. NextAt(0) = AtFrame(0)
    BY <1>1 DEF NextAt, AtFrame
  <2>3. ASSUME NEW k \in 1 .. L, client_snapshots'[k].input_id \notin idle', NEW v \in Decided
        PROVE  NextAt(k)[v] = Play(NextAt(k - 1), made'[client_snapshots'[k].input_id])[v]
    <3>1. client_snapshots'[k].input_id = client_snapshots[k].input_id
          /\ made'[client_snapshots[k].input_id] = made[client_snapshots[k].input_id]
      BY <1>10, <1>11, <1>12
    <3>2. FrameFollows(k)
      BY <1>2, <1>4 DEF Followed, L
    <3>3. NextAt(k - 1) = AtFrame(k - 1)
      <4>1. k = 1 \/ k - 1 \in 1 .. L
        BY <1>7
      <4> QED BY <2>1, <2>2, <4>1
    <3> QED BY <1>1, <2>1, <2>3, <3>1, <3>2, <3>3 DEF FrameFollows
  <2>4. ASSUME M + 1 \notin idle, NEW v \in Decided
        PROVE  NextAt(L + 1)[v] = Play(NextAt((L + 1) - 1), deed)[v]
    <3>1. (L + 1) - 1 = L /\ L + 1 /= 0
      BY <1>7
    <3>2. NextAt(L) = AtFrame(L) /\ NextAt(L) \in World
      <4>1. L = 0 \/ L \in 1 .. L
        BY <1>7
      <4>2. CASE L = 0
        BY <1>2, <2>2, <4>2 DEF AtFrame, Followed
      <4>3. CASE L \in 1 .. L
        <5>1. client_snapshots[L] \in ClientSnapshot
          BY <1>4, <4>3 DEF L
        <5>2. AtFrame(L) = client_snapshots[L].values
          BY <1>7, <4>3 DEF AtFrame
        <5> QED BY <2>1, <4>3, <5>1, <5>2 DEF ClientSnapshot
      <4> QED BY <4>1, <4>2, <4>3
    <3>3. NextAt(L + 1) = Play(value, deed)
      BY <1>1, <1>8, <1>10, <3>1 DEF NextAt
    <3>4. Agree(value, NextAt(L), Told, Reach(v, deed.meets))
      <4> SUFFICES ASSUME NEW u \in Told, NodeOf[u] \in Reach(v, deed.meets)
                   PROVE  value[u] = NextAt(L)[u]
        BY DEF Agree
      <4>1. u \in Decided
        BY <1>5, DecidedIsClosed
      <4>2. u \in Whole /\ u \in Told /\ NodeOf[u] \notin Targets
        BY <4>1, DecidedAreWhole
      <4>3. var_values[u] = value[u]
        BY <1>2, <4>2 DEF KnowsTheWorld
      <4>4. var_values[u] = AtFrame(L)[u]
        BY <1>2, <1>4, <2>4, <4>1 DEF Followed, LastIsCurrent, M
      <4> QED BY <3>2, <4>3, <4>4
    <3>5. v \in Told /\ NodeOf[v] \notin Targets /\ Told \in {Vars, Told}
      BY DecidedAreWhole
    <3>6. Play(value, deed)[v] = Play(NextAt(L), deed)[v]
      BY <1>4, <1>5, <3>2, <3>4, <3>5, PlayReads
    <3> QED BY <3>1, <3>3, <3>6
  <2>5. \A k \in 1 .. Len(client_snapshots') :
          client_snapshots'[k].input_id \notin idle' =>
            \A v \in Decided :
              NextAt(k)[v] = Play(NextAt(k - 1), made'[client_snapshots'[k].input_id])[v]
    <3> SUFFICES ASSUME NEW k \in 1 .. L + 1, client_snapshots'[k].input_id \notin idle',
                        NEW v \in Decided
                 PROVE  NextAt(k)[v] = Play(NextAt(k - 1), made'[client_snapshots'[k].input_id])[v]
      BY <1>10
    <3>1. CASE k \in 1 .. L
      BY <2>3, <3>1
    <3>2. CASE k = L + 1
      <4>1. client_snapshots'[k].input_id = M + 1
        BY <1>8, <1>10, <3>2
      <4> QED BY <1>1, <1>11, <2>4, <3>2, <4>1
    <3> QED BY <1>14, <3>1, <3>2
  <2>6. \A v \in Decided : var_values'[v] = NextAt(Len(client_snapshots'))[v]
    <3>1. L + 1 /= 0
      BY <1>7
    <3> QED BY <1>8, <1>10, <3>1 DEF NextAt
  <2>7. base' \in World
    BY <1>1, <1>2 DEF Followed
  <2>8. stopped \subseteq stopped'
    BY <1>1 DEF gameVars, syncVars
  <2> QED BY <2>5, <2>6, <2>7, <2>8, FollowedNext
<1> QED BY <1>3, <1>15, <1>16, <1>17, <1>18, <1>19 DEF FollowInv

\* A tick without an input: no frame is said to follow from it.
LEMMA IdleFollows ==
  ASSUME FollowInv, NEW deed \in Deeds, SubTickIdle(deed.meets)
  PROVE  FollowInv'
<1>1. /\ var_values' = value'
      /\ idle' = idle \cup {Len(made) + 1}
      /\ UNCHANGED <<gameVars, frames_snapshot, client_snapshots, checkVars, made, base>>
  BY DEF SubTickIdle, input_buffers_counter
<1>2. IInv /\ StoredAsMade /\ StoredSinceChecked /\ DependenciesAreKept /\ Followed
  BY DEF FollowInv
<1>3. IInv'
  BY <1>2, IdleStep
<1>4. StoredAsMade' /\ StoredSinceChecked' /\ DependenciesAreKept'
  BY <1>1, <1>2 DEF StoredAsMade, StoredSinceChecked, DependenciesAreKept, dependency_nodes,
                    gameVars, syncVars, checkVars
<1>5. KnowsTheWorld'
  BY <1>1 DEF KnowsTheWorld
<1>6. Followed'
  <2>1. \A k : NextAt(k) = AtFrame(k)
    BY <1>1 DEF NextAt, AtFrame
  <2>2. ASSUME NEW k \in 1 .. Len(client_snapshots), client_snapshots[k].input_id \notin idle'
        PROVE  \A v \in Decided :
                 NextAt(k)[v] = Play(NextAt(k - 1), made[client_snapshots[k].input_id])[v]
    <3>1. FrameFollows(k) /\ client_snapshots[k].input_id \notin idle
      BY <1>1, <1>2, <2>2 DEF Followed
    <3> QED BY <2>1, <3>1 DEF FrameFollows
  <2>3. base' \in World /\ Len(made') + 1 \in idle'
    BY <1>1, <1>2 DEF Followed
  <2>4. stopped \subseteq stopped'
    BY <1>1 DEF gameVars, syncVars
  <2> QED BY <1>1, <2>2, <2>3, <2>4, FollowedNext
<1> QED BY <1>3, <1>4, <1>5, <1>6 DEF FollowInv

\* The game's changes of the dependencies.
LEMMA GameFollows ==
  ASSUME FollowInv,
         \/ \E n \in Stoppable : StartNodeSync(n) \/ StopNodeSync(n)
         \/ \E n \in Dependable : AddDependency(n) \/ RemoveDependency(n)
  PROVE  FollowInv'
<1>1. UNCHANGED <<worldVars, frameVars, checkVars, made, base, idle>>
  BY DEF StartNodeSync, StopNodeSync, AddDependency, RemoveDependency
<1>2. IInv /\ StoredAsMade /\ StoredSinceChecked /\ DependenciesAreKept /\ KnowsTheWorld /\ Followed
  BY DEF FollowInv
<1>3. IInv' /\ stopped \subseteq stopped'
  BY <1>2, GameStep
<1>4. StoredAsMade' /\ StoredSinceChecked' /\ KnowsTheWorld'
  BY <1>1, <1>2, <1>3, StoppingShrinks
  DEF StoredAsMade, StoredSinceChecked, KnowsTheWorld, worldVars, frameVars, checkVars
<1>5. Followed'
  BY <1>1, <1>2, <1>3, FollowedStays DEF worldVars, frameVars
<1>6. DependenciesAreKept'
  <2> SUFFICES ASSUME NEW k \in 1 .. Len(frames_snapshot), NEW n \in frames_snapshot[k].meets
               PROVE  /\ n \in DOMAIN dependency_nodes_end'
                      /\ dependency_nodes_end'[n] >= frames_snapshot[k].id
    BY <1>1 DEF DependenciesAreKept, dependency_nodes, frameVars
  <2>1. n \in dependency_nodes /\ dependency_nodes_end[n] >= frames_snapshot[k].id
    BY <1>2 DEF DependenciesAreKept
  <2>2. /\ frames_snapshot[k].id \in Nat /\ frames_snapshot[k].id <= Len(made)
        /\ Len(made) \in Nat /\ Len(made) <= MaxInput /\ Len(made) >= 1
    <3>1. /\ frames_snapshot[k].id = Len(made) - Len(frames_snapshot) + k
          /\ last_checked_input + Len(frames_snapshot) = Len(made)
      BY <1>2 DEF IInv, Aligned, StoredSinceChecked
    <3>2. /\ last_checked_input \in Nat /\ Len(made) \in Nat /\ Len(frames_snapshot) \in Nat
          /\ Len(made) <= MaxInput
      BY <1>2 DEF IInv, Typed, QueuesAreTyped
    <3> QED BY <3>1, <3>2
  <2>3. CASE UNCHANGED dependency_nodes_end
    BY <2>1, <2>3 DEF dependency_nodes
  <2>4. CASE \E d \in Dependable : AddDependency(d)
    <3>1. PICK d \in Dependable : AddDependency(d)
      BY <2>4
    <3>2. dependency_nodes_end' =
            [e \in dependency_nodes \cup {d} |-> IF e = d THEN Never ELSE dependency_nodes_end[e]]
      BY <3>1 DEF AddDependency
    <3>3. Never >= frames_snapshot[k].id
      BY <2>2, BoundsAssumption DEF Never
    <3> QED BY <2>1, <3>2, <3>3
  <2>5. CASE \E d \in Dependable : RemoveDependency(d)
    <3>1. PICK d \in Dependable : RemoveDependency(d)
      BY <2>5
    <3>2. dependency_nodes_end' = [dependency_nodes_end EXCEPT ![d] = DependencyEnd]
      BY <3>1 DEF RemoveDependency
    <3>3. DependencyEnd >= frames_snapshot[k].id
      <4>1. current_input_id \in {Len(made), Len(made) + 1}
        BY <1>2 DEF IInv, Typed
      <4> QED BY <2>2, <4>1, BoundsAssumption DEF DependencyEnd, Never
    <3> HIDE DEF DependencyEnd
    <3> QED BY <2>1, <3>2, <3>3 DEF dependency_nodes
  <2> QED BY <2>3, <2>4, <2>5 DEF StartNodeSync, StopNodeSync
<1> QED BY <1>3, <1>4, <1>5, <1>6 DEF FollowInv

\* The steps of the server and the network, which the frames have nothing to do with.
LEMMA OthersFollow ==
  ASSUME FollowInv, IInv',
         UNCHANGED <<worldVars, gameVars, frameVars, last_checked_input, made, base, idle>>
  PROVE  FollowInv'
<1>1. StoredAsMade' /\ StoredSinceChecked' /\ DependenciesAreKept' /\ KnowsTheWorld'
  BY StoppingShrinks
  DEF FollowInv, StoredAsMade, StoredSinceChecked, DependenciesAreKept, KnowsTheWorld,
         dependency_nodes, worldVars, gameVars, syncVars, frameVars
<1>2. Followed'
  BY FollowedStays DEF FollowInv, worldVars, gameVars, syncVars, frameVars
<1> QED BY <1>1, <1>2 DEF FollowInv

LEMMA FollowHoldsAtFirst == Init => FollowInv
<1> SUFFICES ASSUME Init PROVE FollowInv
  OBVIOUS
<1>1. IInv
  BY InitHolds
<1>2. Len(<<>>) = 0 /\ \A k : k \notin 1 .. 0
  OBVIOUS
<1>3. StoredAsMade /\ StoredSinceChecked /\ DependenciesAreKept /\ KnowsTheWorld
  BY <1>2 DEF Init, StoredAsMade, StoredSinceChecked, DependenciesAreKept, KnowsTheWorld
<1>4. Followed
  BY <1>2, DeedsAssumption DEF Init, Followed, LastIsCurrent, AtFrame, World
<1> QED BY <1>1, <1>3, <1>4 DEF FollowInv

LEMMA StepFollows == FollowInv /\ [Next]_vars => FollowInv'
<1> SUFFICES ASSUME FollowInv, [Next]_vars PROVE FollowInv'
  OBVIOUS
<1>1. IInv /\ IInv'
  BY StepHolds DEF FollowInv
<1>2. CASE \E deed \in Deeds : SubTickStream(deed)
  BY <1>2, StreamFollows
<1>3. CASE \E deed \in Deeds : SubTickIdle(deed.meets)
  BY <1>3, IdleFollows
<1>4. CASE ReceiveState
  BY <1>1, <1>4, OthersFollow DEF ReceiveState
<1>5. CASE RecoverNothing
  BY <1>5, NothingFollows
<1>6. CASE RecoverPaused
  BY <1>6, PausedFollows
<1>7. CASE \E i \in 1 .. Len(server_snapshots) : RecoverRewind(i)
  BY <1>7, RewindFollows
<1>8. CASE \E i \in 1 .. Len(server_snapshots) : RecoverNoRewind(i)
  BY <1>8, NoRewindFollows
<1>9. CASE \/ \E n \in Stoppable : StartNodeSync(n) \/ StopNodeSync(n)
           \/ \E n \in Dependable : AddDependency(n) \/ RemoveDependency(n)
  BY <1>9, GameFollows
<1>10. CASE \E k \in Ids, touched \in Touches \cup {Nothing}, notify \in BOOLEAN :
              ServerProcess(k, touched, notify)
  BY <1>1, <1>10, OthersFollow DEF ServerProcess, checkVars
<1>11. CASE UNCHANGED vars
  BY <1>1, <1>11, OthersFollow DEF vars, checkVars
<1> QED BY <1>2, <1>3, <1>4, <1>5, <1>6, <1>7, <1>8, <1>9, <1>10, <1>11 DEF Next, Recover

-----------------------------------------------------------------------------
(* A rewind is a replay. *)

\* A replay goes deed after deed.
LEMMA ReplayUnfolds ==
  ASSUME NEW world \in World, NEW deeds \in Seq(Deed)
  PROVE  \E P : /\ P \in [0 .. Len(deeds) -> World]
                /\ P[0] = world
                /\ \A k \in 1 .. Len(deeds) : P[k] = Play(P[k - 1], deeds[k])
                /\ P[Len(deeds)] = Replay(world, deeds)
<1> DEFINE N == Len(deeds)
           Body(g) == [i \in 0 .. N |-> IF i = 0 THEN world ELSE Play(g[i - 1], deeds[i])]
           P == CHOOSE g : g = Body(g)
           F == [i \in Nat |-> [w \in World |-> IF i \in 1 .. N THEN Play(w, deeds[i]) ELSE world]]
<1>1. N \in Nat /\ \A i \in 1 .. N : deeds[i] \in Deed
  OBVIOUS
<1>2. Replay(world, deeds) = P[N]
  BY DEF Replay
<1> HIDE DEF N
<1>3. \A w \in World, i \in 1 .. N : Play(w, deeds[i]) \in World
  BY <1>1, PlayIsAWorld
<1>4. F \in [Nat -> [World -> World]]
  BY <1>3
<1>5. \A i \in 1 .. N : \A w \in World : F[i][w] = Play(w, deeds[i])
  BY <1>1
<1> HIDE DEF F
<1>iterated. PICK g : IsIteration(g, N, World, world, F)
  BY <1>1, <1>4, IterationExists
<1>6. /\ g \in [0 .. N -> World]
      /\ g[0] = world /\ \A i \in 1 .. N : g[i] = F[i][g[i - 1]]
  BY <1>iterated DEF IsIteration
<1>7. g = Body(g)
  <2>1. ASSUME NEW i \in 0 .. N
        PROVE  g[i] = IF i = 0 THEN world ELSE Play(g[i - 1], deeds[i])
    <3>1. CASE i = 0
      BY <1>6, <3>1
    <3>2. CASE i /= 0
      <4>1. i \in 1 .. N /\ i - 1 \in 0 .. N
        BY <1>1, <3>2
      <4>2. g[i - 1] \in World /\ g[i] = F[i][g[i - 1]]
        BY <4>1, <1>6
      <4> QED BY <1>5, <3>2, <4>1, <4>2
    <3> QED BY <3>1, <3>2
  <2>2. g = [i \in 0 .. N |-> g[i]]
    BY <1>6
  <2>3. Body(g) = [i \in 0 .. N |-> g[i]]
    BY <2>1, Zenon
  <2> QED BY <2>2, <2>3
<1> HIDE DEF Body
<1>8. P = Body(P)
  BY <1>7
<1> HIDE DEF P
<1>9. /\ P = [i \in 0 .. N |-> P[i]] /\ P[0] = world
      /\ \A i \in 1 .. N : P[i] = Play(P[i - 1], deeds[i])
  <2>1. 0 \in 0 .. N
    BY <1>1
  <2>2. \A i \in 1 .. N : i \in 0 .. N /\ i /= 0
    BY <1>1
  <2>3. \A i \in 0 .. N : P[i] = IF i = 0 THEN world ELSE Play(P[i - 1], deeds[i])
    BY <1>8 DEF Body
  <2>4. P = [i \in 0 .. N |-> P[i]]
    BY <1>8 DEF Body
  <2> QED BY <2>1, <2>2, <2>3, <2>4
<1> DEFINE S == {i \in Nat : i \in 0 .. N => P[i] \in World}
<1>10. 0 \in S
  BY <1>9
<1>11. ASSUME NEW i \in Nat, i \in S PROVE i + 1 \in S
  <2> SUFFICES ASSUME i + 1 \in 0 .. N PROVE P[i + 1] \in World
    OBVIOUS
  <2>1. i \in 0 .. N /\ i + 1 \in 1 .. N /\ (i + 1) - 1 = i
    BY <1>1
  <2>2. P[i] \in World
    BY <1>11, <2>1
  <2>3. P[i + 1] = Play(P[i], deeds[i + 1])
    BY <1>9, <2>1
  <2> QED BY <1>3, <2>1, <2>2, <2>3
<1> HIDE DEF S
<1>12. Nat \subseteq S
  BY <1>10, <1>11, NatSetInduction
<1>13. P \in [0 .. N -> World]
  <2>1. \A i \in 0 .. N : P[i] \in World
    BY <1>1, <1>12 DEF S
  <2> QED BY <1>9, <2>1
<1> QED BY <1>2, <1>9, <1>13 DEF N

\* What the rewind to state i starts from, and the deeds it plays.
StartOf(i) ==
  [v \in Vars |-> IF v \in Rewound(NodesOf(i)) \cap Told THEN ServerValues(i)[v] ELSE value[v]]
DeedsAfter(id) == SubSeq(made, id + 1, Len(made))

LEMMA RewindReplays ==
  ASSUME FollowInv, NEW i \in 1 .. Len(server_snapshots), RecoverRewind(i),
         NEW v \in Whole, v \in Rewound(NodesOf(i))
  PROVE  LET replayed == Replay(StartOf(i), DeedsAfter(server_snapshots[i].input_id)) IN
         /\ value'[v] = replayed[v]
         /\ v \in Told \/ NodeOf[v] \notin Targets => var_values'[v] = replayed[v]
<1> DEFINE id == server_snapshots[i].input_id
           N == Len(LeftFrames(i))
           start == StartOf(i)
           deeds == DeedsAfter(id)
           R == Rewound(NodesOf(i))
<1>1. IInv /\ StoredAsMade /\ StoredSinceChecked /\ DependenciesAreKept /\ KnowsTheWorld
  BY DEF FollowInv
<1>2. PICK To :
        /\ IsRewind(To, i)
        /\ N \in Nat
        /\ value' = To[N].value /\ var_values' = To[N].cached
  BY <1>1, RewindTo
<1>3. Checkable(i)
  BY DEF RecoverRewind
<1>4. /\ id \in Nat /\ id + N = Len(made)
      /\ \A k \in 1 .. N : made[id + k] \in Deed /\ made[id + k].meets \subseteq dependency_nodes
  BY <1>1, <1>3, LeftAreMade
<1>5. /\ OthersStaySynced /\ dependency_nodes \subseteq Dependable
      /\ value \in World /\ made \in Seq(Deed)
  BY <1>1 DEF IInv, Typed, QueuesAreTyped
<1>6. start \in World
  <2>1. server_snapshots[i] \in State
    BY <1>1 DEF IInv, QueuesAreTyped
  <2>2. ServerValues(i) \in [Told -> Values]
    BY <2>1 DEF State, ServerValues
  <2> QED BY <1>5, <2>2 DEF StartOf, World
<1>7. deeds \in Seq(Deed) /\ Len(deeds) = N /\ \A k \in 1 .. N : deeds[k] = made[id + k]
  <2> HIDE DEF id, N
  <2>1. /\ deeds = SubSeq(made, id + 1, Len(made)) /\ Len(made) \in Nat
    BY <1>5 DEF DeedsAfter
  <2> HIDE DEF deeds
  <2>2. deeds \in Seq(Deed) /\ Len(deeds) = N
    BY <1>2, <1>4, <1>5, <2>1
  <2>3. \A k \in 1 .. N : (id + 1) + k - 1 = id + k
    BY <1>2, <1>4
  <2> QED BY <1>2, <1>4, <1>5, <2>1, <2>2, <2>3
<1> HIDE DEF id, N, start, deeds, R
<1>8. PICK P : /\ P \in [0 .. N -> World]
               /\ P[0] = start
               /\ \A k \in 1 .. N : P[k] = Play(P[k - 1], made[id + k])
               /\ P[N] = Replay(start, deeds)
  <2>1. PICK P : /\ P \in [0 .. Len(deeds) -> World]
                 /\ P[0] = start
                 /\ \A k \in 1 .. Len(deeds) : P[k] = Play(P[k - 1], deeds[k])
                 /\ P[Len(deeds)] = Replay(start, deeds)
    BY <1>6, <1>7, ReplayUnfolds
  <2> QED BY <1>7, <2>1
<1> DEFINE S == {k \in Nat : k \in 0 .. N => \A u \in R \cap Whole : To[k].value[u] = P[k][u]}
<1>9. 0 \in S
  <2>1. To[0] = Reset(ServerValues(i), NodesOf(i))
    BY <1>2 DEF IsRewind, IsUnfolded
  <2>2. \A u \in Vars : To[0].value[u] = start[u]
    BY <2>1 DEF Reset, start, StartOf
  <2>3. Whole \subseteq Vars
    BY DEF Whole
  <2> QED BY <1>8, <2>2, <2>3
<1>10. ASSUME NEW k \in Nat, k \in S PROVE k + 1 \in S
  <2> SUFFICES ASSUME k + 1 \in 0 .. N, NEW u \in R \cap Whole
               PROVE  To[k + 1].value[u] = P[k + 1][u]
    OBVIOUS
  <2>1. k \in 0 .. N /\ k + 1 \in 1 .. N /\ (k + 1) - 1 = k
    BY <1>2
  <2>2. \A x \in R \cap Whole : To[k].value[x] = P[k][x]
    BY <1>10, <2>1
  <2> DEFINE deed == made[id + (k + 1)]
  <2>3. deed.meets \subseteq dependency_nodes
    BY <1>4, <2>1
  <2>4. u \in Vars /\ u \in Whole /\ u \in R
    BY DEF Whole
  <2> HIDE DEF deed
  <2>5. Agree(To[k].value, P[k], Vars, Reach(u, deed.meets))
    <3> SUFFICES ASSUME NEW x \in Vars, NodeOf[x] \in Reach(u, deed.meets)
                 PROVE  To[k].value[x] = P[k][x]
      BY DEF Agree
    <3>1. x \in R \cap Whole
      BY <1>5, <2>3, <2>4, RewoundIsClosed DEF R, NodesOf
    <3> QED BY <2>2, <3>1
  <2>6. P[k] \in World /\ P[k + 1] = Play(P[k], deed)
    BY <1>8, <2>1 DEF deed
  <2> DEFINE l == k + 1
  <2>7. l \in 1 .. N /\ Agree(To[l - 1].value, P[k], Vars, Reach(u, made[id + l].meets))
    BY <2>1, <2>5 DEF deed
  <2> HIDE DEF l
  <2>8. To[l].value[u] = Play(P[k], made[id + l])[u]
    BY <1>1, <1>2, <1>3, <2>4, <2>6, <2>7, RewoundPlays DEF id, N, R
  <2> QED BY <2>6, <2>8 DEF l, deed
<1> HIDE DEF S
<1>11. Nat \subseteq S
  BY <1>9, <1>10, NatSetInduction
<1>12. v \in R /\ v \in Whole /\ v \in Vars
  BY DEF R, Whole
<1>13. To[N].value[v] = P[N][v]
  <2>1. N \in 0 .. N /\ N \in S
    BY <1>2, <1>11
  <2> QED BY <1>12, <2>1 DEF S
<1>14. ASSUME v \in Told \/ NodeOf[v] \notin Targets PROVE To[N].cached[v] = To[N].value[v]
  <2>1. CASE N /= 0
    <3>1. N \in 1 .. N
      BY <1>2, <2>1
    <3> QED BY <1>1, <1>2, <1>3, <3>1, RewoundIsStored DEF N
  <2>2. CASE N = 0
    <3>1. To[0] = Reset(ServerValues(i), NodesOf(i))
      BY <1>2 DEF IsRewind, IsUnfolded
    <3>2. CASE v \in Told
      BY <1>12, <2>2, <3>1, <3>2 DEF Reset, R
    <3>3. CASE v \notin Told /\ NodeOf[v] \notin Targets
      <4>1. client_snapshots \in Seq(ClientSnapshot) /\ \E k \in 1 .. Len(client_snapshots) : TRUE
        BY <1>1, <1>3 DEF IInv, QueuesAreTyped, Checkable
      <4>2. client_snapshots /= <<>>
        BY <4>1
      <4>3. var_values[v] = value[v]
        BY <1>1, <1>12, <3>3, <4>2 DEF KnowsTheWorld
      <4> QED BY <1>12, <2>2, <3>1, <3>3, <4>3 DEF Reset
    <3> QED BY <1>14, <3>2, <3>3
  <2> QED BY <2>1, <2>2
<1> QED BY <1>2, <1>8, <1>13, <1>14 DEF start, deeds, id

\* Which states are used: only a comparison moves last_checked_input, to its state.
LEMMA CheckedOnce ==
  ASSUME FollowInv, [Next]_vars, last_checked_input' /= last_checked_input,
         NEW i \in 1 .. Len(server_snapshots), last_checked_input' = server_snapshots[i].input_id
  PROVE  RecoverRewind(i) \/ RecoverNoRewind(i)
<1>1. \E k \in 1 .. Len(server_snapshots) : RecoverRewind(k) \/ RecoverNoRewind(k)
  <2>1. CASE \E deed \in Deeds : SubTickStream(deed) \/ SubTickIdle(deed.meets)
    BY <2>1 DEF SubTickStream, SubTickIdle, checkVars
  <2>2. CASE ReceiveState \/ RecoverNothing \/ RecoverPaused
    BY <2>2 DEF ReceiveState, RecoverNothing, RecoverPaused, checkVars
  <2>3. CASE \/ \E n \in Stoppable : StartNodeSync(n) \/ StopNodeSync(n)
             \/ \E n \in Dependable : AddDependency(n) \/ RemoveDependency(n)
    BY <2>3 DEF StartNodeSync, StopNodeSync, AddDependency, RemoveDependency, checkVars
  <2>4. CASE \E k \in Ids, touched \in Touches \cup {Nothing}, notify \in BOOLEAN :
               ServerProcess(k, touched, notify)
    BY <2>4 DEF ServerProcess, checkVars
  <2>5. CASE UNCHANGED vars
    BY <2>5 DEF vars, checkVars
  <2> QED BY <2>1, <2>2, <2>3, <2>4, <2>5 DEF Next, Recover
<1>2. PICK k \in 1 .. Len(server_snapshots) : RecoverRewind(k) \/ RecoverNoRewind(k)
  BY <1>1
<1>3. last_checked_input' = server_snapshots[k].input_id
  BY <1>2 DEF RecoverRewind, RecoverNoRewind, Checked
<1>4. k = i
  <2>1. /\ \A a, b \in 1 .. Len(server_snapshots) :
             a < b => server_snapshots[a].input_id < server_snapshots[b].input_id
        /\ \A a \in 1 .. Len(server_snapshots) : server_snapshots[a].input_id \in 1 .. Len(made)
        /\ Len(made) \in Nat
    BY DEF FollowInv, IInv, Typed, QueuesAreTyped
  <2>2. /\ server_snapshots[k].input_id = server_snapshots[i].input_id
        /\ server_snapshots[k].input_id \in Nat
    BY <1>3, <2>1
  <2>3. ~ (k < i)
    BY <2>1, <2>2
  <2>4. ~ (i < k)
    BY <2>1, <2>2
  <2>5. k \in Int /\ i \in Int
    OBVIOUS
  <2> QED BY <2>3, <2>4, <2>5
<1> QED BY <1>2, <1>4

-----------------------------------------------------------------------------
(* The theorems. *)

\* The types are right and the three queues of a client are aligned: instant i of a
\* rewind has the input and the snapshot of one frame, the one that follows the frame
\* that was checked (networked_controller.cpp:1344-1361, client_synchronizer.cpp:819).
THEOREM TypeCorrect == Spec => []TypeOK
BY InvariantHolds, InvariantTypes, PTL

\* Whatever a recovery sets and rewinds, however often a variable goes there and back,
\* END_SYNC tells the variables that differ after it, with their values from before
\* (client_synchronizer.cpp:174-194, 253-261; net_utilities.h:113-115).
THEOREM EndSyncIsExact == Spec => EndSyncTellsTheDifference
<1>1. IInv /\ [Next]_vars =>
        [Len(server_snapshots') < Len(server_snapshots) =>
           end_sync' = [v \in {u \in Vars : var_values'[u] /= var_values[u]} |-> var_values[v]]]_vars
  BY StepHolds DEF TellsTheDifference
<1> QED BY <1>1, InvariantHolds, PTL DEF Spec, EndSyncTellsTheDifference

\* A recovery sets, pulls and stores no node whose sync the game stopped, a node of the
\* controller or the controller itself included, and tells nothing of it; nothing but
\* the controller and the actions moves it (client_synchronizer.cpp:703, 793, 857, 870,
\* 891, 925, 994).
THEOREM StoppedNodesStay == Spec => StoppedNodesAreLeftAlone
<1> DEFINE LeftAlone == Len(server_snapshots') < Len(server_snapshots) =>
      \A v \in Vars : NodeOf[v] \notin sync_enabled =>
        /\ var_values'[v] = var_values[v] /\ v \notin DOMAIN end_sync'
        /\ \A i \in DOMAIN client_snapshots', j \in DOMAIN client_snapshots :
             client_snapshots'[i].input_id = client_snapshots[j].input_id =>
               client_snapshots'[i].values[v] = client_snapshots[j].values[v]
        /\ NodeOf[v] \notin Targets /\ (NodeOf[v] \in Own => Controller \notin sync_enabled)
             => value'[v] = value[v]
<1>1. IInv /\ [Next]_vars => [LeftAlone]_vars
  <2> SUFFICES ASSUME IInv, [Next]_vars, Len(server_snapshots') < Len(server_snapshots),
                      NEW v \in Vars, NodeOf[v] \notin sync_enabled
               PROVE  /\ var_values'[v] = var_values[v] /\ v \notin DOMAIN end_sync'
                      /\ \A i \in DOMAIN client_snapshots', j \in DOMAIN client_snapshots :
                           client_snapshots'[i].input_id = client_snapshots[j].input_id =>
                             client_snapshots'[i].values[v] = client_snapshots[j].values[v]
                      /\ NodeOf[v] \notin Targets /\ (NodeOf[v] \in Own => Controller \notin sync_enabled)
                           => value'[v] = value[v]
    OBVIOUS
  <2>1. TellsTheDifference /\ LeavesTheStopped /\ LeavesTheirSnapshots
    BY StepHolds
  <2>2. var_values'[v] = var_values[v]
    BY <2>1 DEF LeavesTheStopped
  <2>3. v \notin DOMAIN end_sync'
    BY <2>1, <2>2 DEF TellsTheDifference
  <2>4. NodeOf[v] \notin Targets /\ (NodeOf[v] \in Own => Controller \notin sync_enabled)
          => value'[v] = value[v]
    BY <2>1 DEF LeavesTheStopped, Rests
  <2>5. ASSUME NEW i \in DOMAIN client_snapshots', NEW j \in DOMAIN client_snapshots,
               client_snapshots'[i].input_id = client_snapshots[j].input_id
        PROVE  client_snapshots'[i].values[v] = client_snapshots[j].values[v]
    BY <2>1, <2>5 DEF LeavesTheirSnapshots, KeepsTheStopped
  <2> QED BY <2>2, <2>3, <2>4, <2>5
<1> QED BY <1>1, InvariantHolds, PTL DEF Spec, StoppedNodesAreLeftAlone

\* The client's frames are at all times what the player's inputs make of the last state
\* of the server that was used, where the server decides alone: whatever differed and
\* was rewound, with dependencies that were removed since, and whatever was compared and
\* left (client_synchronizer.cpp:608-684, 837-918, scene_synchronizer.cpp:761-773).
THEOREM FramesFollow == Spec => []FramesFollowTheServer
<1>1. FollowInv => FramesFollowTheServer
  BY FollowedFollow DEF FollowInv
<1> QED BY <1>1, FollowHoldsAtFirst, StepFollows, PTL DEF Spec

\* Whatever was rewound is what the server's state and the player's frames since make of
\* it, all its nodes together, as if the client had simulated nothing else; and the
\* synchronizer knows it so (client_synchronizer.cpp:783-918).
THEOREM RewindsAreReplays == Spec => RewindIsAReplay
<1> DEFINE Replays ==
      \A i \in 1 .. Len(server_snapshots) :
        LET s == server_snapshots[i].values
            c == client_snapshots[CheckedFrame(i)].values
            rewound == Rewound(NodesToRecover(s, c))
            start == [v \in Vars |-> IF v \in rewound \cap Told THEN s[v] ELSE value[v]]
            replayed == Replay(start, SubSeq(made, last_checked_input' + 1, Len(made)))
        IN  /\ last_checked_input' /= last_checked_input
            /\ last_checked_input' = server_snapshots[i].input_id
            /\ NeedRewind(s, c) /= {}
            => \A v \in rewound \cap Whole :
                 /\ value'[v] = replayed[v]
                 /\ v \in Told \/ NodeOf[v] \notin Targets => var_values'[v] = replayed[v]
<1>1. FollowInv /\ [Next]_vars => [Replays]_vars
  <2> SUFFICES ASSUME FollowInv, [Next]_vars,
                      NEW i \in 1 .. Len(server_snapshots),
                      last_checked_input' /= last_checked_input,
                      last_checked_input' = server_snapshots[i].input_id,
                      NeedRewind(ServerValues(i), ClientValues(i)) /= {},
                      NEW v \in Rewound(NodesOf(i)) \cap Whole
               PROVE  LET replayed == Replay(StartOf(i), DeedsAfter(server_snapshots[i].input_id)) IN
                      /\ value'[v] = replayed[v]
                      /\ v \in Told \/ NodeOf[v] \notin Targets => var_values'[v] = replayed[v]
    BY DEF ServerValues, ClientValues, NodesOf, StartOf, DeedsAfter
  <2>1. RecoverRewind(i)
    <3>1. RecoverRewind(i) \/ RecoverNoRewind(i)
      BY CheckedOnce
    <3> QED BY <3>1 DEF RecoverNoRewind, ServerValues, ClientValues
  <2> QED BY <2>1, RewindReplays
<1> QED BY <1>1, FollowHoldsAtFirst, StepFollows, PTL DEF Spec, RewindIsAReplay

=============================================================================
