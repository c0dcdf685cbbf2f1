--------------------------- MODULE Actions_proofs ---------------------------
(***************************************************************************)
(* Proofs about Actions, for any clients and any bounds.                   *)
(*                                                                         *)
(* What a receiver knows it knows for good, and what it accepts it did not *)
(* know: so an action is issued and executed once, and the server's tokens *)
(* are no more than the actions triggered.  The server's next frame of a   *)
(* character is the one after the last it executed, and never after the    *)
(* client's: so an action that waits has its frame to come, and one that   *)
(* is put off is put off to a later frame than the client's, which has     *)
(* been executed there.                                                    *)
(***************************************************************************)
EXTENDS Actions, FiniteSetTheorems, SequenceTheorems, TLAPS

(***************************************************************************)
(* The inductive invariant.                                                *)
(***************************************************************************)
\* A receiver misses only tokens before the last.
InfoIsOrdered(info) == \A token \in info.missing : token < info.last

InfosAreOrdered ==
  \A c \in Clients : InfoIsOrdered(senders_info[c]) /\ InfoIsOrdered(server_sender_info[c])

\* The server's actions are those it numbered itself, and those of clients it knows.
ActionsAreKnown ==
  \A i \in DOMAIN server_actions :
    LET action == server_actions[i]
        token  == action.triggerer_action_token
    IN  IF action.sender = Server THEN token = i - 1
        ELSE /\ action.sender \in Triggerers /\ token \in OwnTokens
             /\ IsKnown(senders_info[action.sender], token)

ServerOwnAreBounded == Cardinality(ServerOwn) <= MaxServerOwn

OwnAreBounded ==
  \A c \in Clients : Len(own_actions[c]) <= IF c \in Triggerers THEN MaxOwn ELSE 0

\* A client has heard only actions that there are, and all it has to do with.
SentAreIssued == \A message \in to_clients : message.token + 1 \in DOMAIN server_actions
HeardAreKnown ==
  \A c \in Clients :
    /\ \A token \in heard[c] :
         token + 1 \in DOMAIN server_actions /\ IsKnown(server_sender_info[c], token)
    /\ pending_actions[c] \subseteq heard[c]
    /\ \A e \in ran[c] : ~e.own => e.token \in heard[c]
    /\ \A e \in snapshot_actions[c] : ~e.own =>
         e.token \in heard[c] /\ e.frame = server_actions[e.token + 1].executed_input_id[c]

\* The server's frames follow the client's.
NextFollows ==
  \A c \in Clients :
    /\ server_input[c] <= player_input[c]
    /\ peers_next_action_trigger_input_id[c] =
         IF server_input[c] = NoInput THEN NoInput ELSE server_input[c] + 1

\* A client keeps its latest frames.
FramesAreLatest ==
  \A c \in Clients : \A f \in frames[c] :
    f <= player_input[c] /\ \A g \in f .. player_input[c] : g \in frames[c]

\* What is under way of a client's action is what it triggered ...
SentAreOwn ==
  \A m \in to_server :
    /\ m.token + 1 \in DOMAIN own_actions[m.from]
    /\ m.wait_server_validation = own_actions[m.from][m.token + 1].wait_server_validation
    /\ m.executed_input_id = own_actions[m.from][m.token + 1].executed_input_id

\* ... and it is put off only to a frame after its own, which has passed.
AcceptedAreOwn ==
  \A c \in Clients, i \in DOMAIN server_actions :
    LET action == server_actions[i]
        own    == own_actions[c][action.triggerer_action_token + 1]
        frame  == action.executed_input_id[c]
    IN  action.sender = c =>
          /\ action.triggerer_action_token + 1 \in DOMAIN own_actions[c]
          /\ ~own.wait_server_validation =>
               \/ frame = own.executed_input_id
               \/ frame > own.executed_input_id /\ player_input[c] >= own.executed_input_id

RanAreOwn ==
  \A c \in Clients : \A e \in ran[c] : e.own =>
    /\ e.token + 1 \in DOMAIN own_actions[c] /\ e.frame <= player_input[c]
    /\ ~own_actions[c][e.token + 1].wait_server_validation
    /\ own_actions[c][e.token + 1].executed_input_id = e.frame

IInv ==
  /\ TypeOK
  /\ InfosAreOrdered
  /\ ActionsAreKnown
  /\ ServerOwnAreBounded
  /\ OwnAreBounded
  /\ IssuedOnce
  /\ SentAreIssued
  /\ HeardAreKnown
  /\ ExecutedOnce
  /\ NextFollows
  /\ NeverTooLate
  /\ FramesAreLatest
  /\ SentAreOwn
  /\ AcceptedAreOwn
  /\ RanAreOwn
  /\ OwnIsReplayed

-----------------------------------------------------------------------------
(***************************************************************************)
(* Frames and tokens.                                                      *)
(***************************************************************************)
LEMMA FrameTypes ==
  /\ FrameIds \subseteq Nat
  /\ \A c \in Clients : FramesOf(c) \subseteq FrameIds
  /\ FrameOrNone \subseteq Int /\ NoInput \in FrameOrNone /\ NoInput = -1
  /\ {id + 1 : id \in FrameIds} \cup {NoInput} \subseteq Int
BY ActionBoundsAssumption DEF FrameIds, FramesOf, FrameOrNone, NoInput

LEMMA FrameValues ==
  \A f \in FrameOrNone :
    f \in Int /\ f >= -1 /\ f >= NoInput /\ (f \in FrameIds <=> f /= NoInput)
<1>1. FrameIds \subseteq Nat
  BY FrameTypes
<1> QED BY <1>1 DEF FrameOrNone, NoInput

LEMMA TriggerersAreFinite ==
  IsFiniteSet(Triggerers) /\ Cardinality(Triggerers) \in Nat
  /\ (Triggerers /= {} => Cardinality(Triggerers) >= 1)
<1>1. IsFiniteSet(Triggerers)
  BY ClientsAssumption, FS_Subset
<1> QED BY <1>1, FS_CardinalityType, FS_EmptySet

LEMMA TokenTypes ==
  /\ Tokens \subseteq Nat /\ OwnTokens \subseteq Nat
  /\ \A token \in Tokens : 0 .. token \subseteq Tokens
<1> DEFINE n == Cardinality(Triggerers)
           last == MaxServerOwn + MaxOwn * n - 1
<1>1. MaxServerOwn \in Nat /\ MaxOwn \in Nat /\ n \in Nat
  BY ActionBoundsAssumption, TriggerersAreFinite
<1>2. MaxOwn * n \in Nat
  BY <1>1
<1>3. last \in Int
  BY <1>1, <1>2
<1>4. Tokens = 0 .. last
  BY DEF Tokens
<1> HIDE DEF last
<1> QED BY <1>3, <1>4 DEF OwnTokens

-----------------------------------------------------------------------------
(***************************************************************************)
(* What a receiver knows.                                                  *)
(***************************************************************************)
LEMMA NotedKnows ==
  ASSUME NEW info \in Info, NEW token \in Tokens, InfoIsOrdered(info),
         ~IsKnown(info, token)
  PROVE  /\ Noted(info, token) \in Info /\ InfoIsOrdered(Noted(info, token))
         /\ IsKnown(Noted(info, token), token)
         /\ \A t \in Nat : IsKnown(info, t) => IsKnown(Noted(info, token), t)
<1>1. Tokens \subseteq Nat /\ (\A t \in Tokens : 0 .. t \subseteq Tokens)
  BY TokenTypes
<1>2. info = [last |-> info.last, missing |-> info.missing]
      /\ info.last \in Tokens \cup {NoInput} /\ info.missing \subseteq Tokens
  BY DEF Info
<1>3. CASE info.last = NoInput
  <2>1. Noted(info, token) = [last |-> token, missing |-> info.missing]
    BY <1>2, <1>3 DEF Noted
  <2>2. info.missing = {}
    BY <1>1, <1>2, <1>3 DEF InfoIsOrdered, NoInput
  <2> QED BY <1>1, <1>3, <2>1, <2>2 DEF Info, InfoIsOrdered, IsKnown, NoInput
<1>4. CASE info.last /= NoInput /\ info.last < token
  <2>1. Noted(info, token) =
          [last |-> token, missing |-> info.missing \cup (info.last + 1 .. token - 1)]
    BY <1>4 DEF Noted
  <2>2. info.last + 1 .. token - 1 \subseteq Tokens
    BY <1>1, <1>2, <1>4 DEF NoInput
  <2>3. Noted(info, token) \in Info
    BY <1>2, <2>1, <2>2 DEF Info
  <2>4. InfoIsOrdered(Noted(info, token))
    BY <1>1, <1>2, <1>4, <2>1 DEF InfoIsOrdered, NoInput
  <2>5. IsKnown(Noted(info, token), token)
    BY <1>1, <1>2, <1>4, <2>1 DEF InfoIsOrdered, IsKnown, NoInput
  <2>6. ASSUME NEW t \in Nat, IsKnown(info, t)
        PROVE  IsKnown(Noted(info, token), t)
    BY <1>1, <1>2, <1>4, <2>1, <2>6 DEF IsKnown, NoInput
  <2> QED BY <2>3, <2>4, <2>5, <2>6
<1>5. CASE info.last /= NoInput /\ ~(info.last < token)
  <2>1. Noted(info, token) = [last |-> info.last, missing |-> info.missing \ {token}]
    BY <1>2, <1>5 DEF Noted
  <2>2. Noted(info, token) \in Info /\ InfoIsOrdered(Noted(info, token))
    BY <1>2, <2>1 DEF Info, InfoIsOrdered
  <2>3. IsKnown(Noted(info, token), token)
    BY <1>1, <1>2, <1>5, <2>1 DEF IsKnown, NoInput
  <2>4. ASSUME NEW t \in Nat, IsKnown(info, t)
        PROVE  IsKnown(Noted(info, token), t)
    BY <2>1, <2>4 DEF IsKnown
  <2> QED BY <2>2, <2>3, <2>4
<1> QED BY <1>3, <1>4, <1>5

LEMMA CleanedKnows ==
  ASSUME NEW info \in Info, InfoIsOrdered(info), NEW cleaned \in Cleaned(info)
  PROVE  /\ cleaned \in Info /\ InfoIsOrdered(cleaned)
         /\ \A t \in Nat : IsKnown(info, t) => IsKnown(cleaned, t)
<1>1. info = [last |-> info.last, missing |-> info.missing]
      /\ info.last \in Tokens \cup {NoInput} /\ info.missing \subseteq Tokens
  BY DEF Info
<1>2. PICK kept \in SUBSET info.missing : cleaned = [last |-> info.last, missing |-> kept]
  BY <1>1 DEF Cleaned
<1> QED BY <1>1, <1>2 DEF Info, InfoIsOrdered, IsKnown

-----------------------------------------------------------------------------
(***************************************************************************)
(* The number of the server's actions.                                     *)
(***************************************************************************)
\* The tokens of the clients' own actions are tokens of the server's too.
LEMMA OwnTokensAreTokens == Triggerers /= {} => OwnTokens \subseteq Tokens
<1> SUFFICES ASSUME Triggerers /= {}
             PROVE  OwnTokens \subseteq Tokens
  OBVIOUS
<1> DEFINE n == Cardinality(Triggerers)
<1>1. n \in Nat /\ n >= 1
  BY TriggerersAreFinite
<1> HIDE DEF n
<1>2. MaxOwn \in Nat /\ MaxServerOwn \in Nat
  BY ActionBoundsAssumption
<1>3. MaxOwn * n >= MaxOwn /\ MaxOwn * n \in Nat
  BY <1>1, <1>2
<1>4. MaxOwn - 1 <= MaxServerOwn + MaxOwn * n - 1
  BY <1>2, <1>3
<1> QED BY <1>2, <1>3, <1>4 DEF OwnTokens, Tokens, n

\* Actions that come each from an own trigger of the server or of a client are
\* not more than there are tokens.
LEMMA CountBound ==
  ASSUME NEW s \in Seq(ServerAction),
         \A i \in DOMAIN s : s[i].sender /= Server =>
           s[i].sender \in Triggerers /\ s[i].triggerer_action_token \in OwnTokens,
         \A i, j \in DOMAIN s :
           s[i].sender = s[j].sender /\ s[i].triggerer_action_token = s[j].triggerer_action_token
             => i = j,
         Cardinality({i \in DOMAIN s : s[i].sender = Server}) <= MaxServerOwn
  PROVE  \A i \in DOMAIN s : i - 1 \in Tokens
<1> DEFINE D == 1 .. Len(s)
           A == {i \in D : s[i].sender = Server}
           B == {i \in D : s[i].sender /= Server}
           T == Triggerers \X OwnTokens
           origin == [i \in B |-> <<s[i].sender, s[i].triggerer_action_token>>]
           n == Cardinality(Triggerers)
<1>1. Len(s) \in Nat /\ DOMAIN s = D
  OBVIOUS
<1>2. IsFiniteSet(D) /\ Cardinality(D) = Len(s)
  BY <1>1, FS_Interval
<1>3. IsFiniteSet(A) /\ IsFiniteSet(B) /\ D = A \cup B
  BY <1>2, FS_Subset
<1>4. MaxOwn \in Nat /\ MaxServerOwn \in Nat
  BY ActionBoundsAssumption
<1>5. IsFiniteSet(T) /\ Cardinality(T) = n * MaxOwn /\ n \in Nat
  <2>1. IsFiniteSet(OwnTokens) /\ Cardinality(OwnTokens) = MaxOwn
    <3>1. 0 \in Int /\ MaxOwn - 1 \in Int
      BY <1>4
    <3>2. IsFiniteSet(0 .. MaxOwn - 1)
          /\ Cardinality(0 .. MaxOwn - 1) = IF 0 > MaxOwn - 1 THEN 0 ELSE (MaxOwn - 1) - 0 + 1
      BY <3>1, FS_Interval
    <3> QED BY <1>4, <3>2 DEF OwnTokens
  <2> QED BY <2>1, TriggerersAreFinite, FS_Product
<1>6. Cardinality(B) <= Cardinality(T)
  <2>1. origin \in Injection(B, T)
    <3>1. origin \in [B -> T]
      BY <1>1
    <3>2. \A i, j \in B : origin[i] = origin[j] => i = j
      BY <1>1
    <3> QED BY <3>1, <3>2 DEF Injection, IsInjective
  <2> QED BY <1>5, <2>1, FS_Injection
<1>7. Cardinality(A) <= MaxServerOwn
  BY <1>1
<1>8. Len(s) <= Cardinality(A) + Cardinality(B)
  <2> HIDE DEF D, A, B
  <2>1. IsFiniteSet(A \cap B)
    BY <1>3, FS_Intersection
  <2>2. Cardinality(A) \in Nat /\ Cardinality(B) \in Nat /\ Cardinality(A \cap B) \in Nat
    BY <1>3, <2>1, FS_CardinalityType
  <2>3. Cardinality(D) = Cardinality(A) + Cardinality(B) - Cardinality(A \cap B)
    BY <1>3, FS_Union
  <2> QED BY <1>2, <2>2, <2>3
<1>9. Len(s) <= MaxServerOwn + n * MaxOwn /\ n * MaxOwn = MaxOwn * n
  <2>1. Cardinality(A) \in Nat /\ Cardinality(B) \in Nat /\ n * MaxOwn \in Nat
    BY <1>3, <1>4, <1>5, FS_CardinalityType
  <2> HIDE DEF A, B, T, n
  <2> QED BY <1>1, <1>4, <1>5, <1>6, <1>7, <1>8, <2>1
<1>10. \A i \in D : i - 1 \in 0 .. MaxServerOwn + MaxOwn * n - 1
  <2> HIDE DEF A, B, T, n
  <2>1. MaxOwn * n \in Nat
    BY <1>4, <1>5
  <2> QED BY <1>1, <1>4, <1>9, <2>1
<1> QED BY <1>1, <1>10 DEF Tokens

-----------------------------------------------------------------------------
(***************************************************************************)
(* The sends.                                                              *)
(***************************************************************************)
LEMMA CountedType ==
  ASSUME NEW n \in Nat, NEW counts \in [1 .. n -> 0 .. Redundancy],
         NEW batch \in SUBSET Unsent(counts)
  PROVE  Counted(counts, batch) \in [1 .. n -> 0 .. Redundancy] /\ batch \subseteq 1 .. n
<1>1. Redundancy \in Nat
  BY ActionBoundsAssumption
<1>2. \A i \in batch : i \in 1 .. n /\ counts[i] + 1 \in 0 .. Redundancy
  BY <1>1 DEF Unsent
<1> QED BY <1>2 DEF Counted

LEMMA CountsAppend ==
  ASSUME NEW n \in Nat, NEW counts \in [1 .. n -> 0 .. Redundancy]
  PROVE  Append(counts, 0) \in [1 .. n + 1 -> 0 .. Redundancy]
<1>1. Redundancy \in Nat /\ 0 \in 0 .. Redundancy
  BY ActionBoundsAssumption
<1>2. counts \in Seq(0 .. Redundancy) /\ Len(counts) = n
  <2>1. counts \in Seq(0 .. Redundancy)
    BY SeqDef
  <2>2. DOMAIN counts = 1 .. Len(counts) /\ Len(counts) \in Nat /\ DOMAIN counts = 1 .. n
    BY <2>1
  <2> QED BY <2>1, <2>2
<1>3. Append(counts, 0) \in Seq(0 .. Redundancy) /\ Len(Append(counts, 0)) = n + 1
  BY <1>1, <1>2
<1> QED BY <1>3, LenProperties

LEMMA SendToClientsSends ==
  ASSUME NEW n \in Nat, NEW actions, NEW counts \in [1 .. n -> 0 .. Redundancy], NEW fresh,
         SendToClients(actions, counts, fresh)
  PROVE  /\ server_actions' = actions
         /\ send_count' \in [1 .. n -> 0 .. Redundancy]
         /\ \A m \in to_clients' : m \in to_clients \/
              \E c \in Clients, i \in 1 .. n : m = [to |-> c, token |-> i - 1]
<1>1. PICK batch \in SUBSET Unsent(counts) :
        /\ server_actions' = actions
        /\ send_count' = Counted(counts, batch)
        /\ to_clients' = to_clients \cup
             {[to |-> c, token |-> i - 1] :
                c \in {client \in Clients : \E i \in batch : IsFor(actions[i], client)},
                i \in batch}
  BY DEF SendToClients
<1>2. Counted(counts, batch) \in [1 .. n -> 0 .. Redundancy] /\ batch \subseteq 1 .. n
  BY CountedType
<1> QED BY <1>1, <1>2

LEMMA IssueSends ==
  ASSUME TypeOK, NEW a \in ServerAction, Issue(a)
  PROVE  /\ server_actions' = Append(server_actions, a)
         /\ server_actions' \in Seq(ServerAction)
         /\ Len(server_actions) \in Nat /\ DOMAIN server_actions = 1 .. Len(server_actions)
         /\ DOMAIN server_actions' = 1 .. Len(server_actions) + 1
         /\ server_actions'[Len(server_actions) + 1] = a
         /\ \A i \in DOMAIN server_actions : server_actions'[i] = server_actions[i]
         /\ send_count' \in [DOMAIN server_actions' -> 0 .. Redundancy]
         /\ \A m \in to_clients' : m \in to_clients \/
              \E c \in Clients, i \in DOMAIN server_actions' : m = [to |-> c, token |-> i - 1]
<1> DEFINE n == Len(server_actions)
<1>1. server_actions \in Seq(ServerAction) /\ n \in Nat /\ DOMAIN server_actions = 1 .. n
  BY DEF TypeOK
<1>2. send_count \in [1 .. n -> 0 .. Redundancy]
  BY <1>1 DEF TypeOK
<1>3. Append(send_count, 0) \in [1 .. n + 1 -> 0 .. Redundancy]
  BY <1>1, <1>2, CountsAppend
<1>4. SendToClients(Append(server_actions, a), Append(send_count, 0), {n + 1})
  BY DEF Issue
<1>5. /\ server_actions' = Append(server_actions, a)
      /\ send_count' \in [1 .. n + 1 -> 0 .. Redundancy]
      /\ \A m \in to_clients' : m \in to_clients \/
           \E c \in Clients, i \in 1 .. n + 1 : m = [to |-> c, token |-> i - 1]
  <2> HIDE DEF n
  <2>1. n + 1 \in Nat
    BY <1>1
  <2> QED BY <1>3, <1>4, <2>1, SendToClientsSends
<1>6. /\ server_actions' \in Seq(ServerAction) /\ DOMAIN server_actions' = 1 .. n + 1
      /\ server_actions'[n + 1] = a
      /\ \A i \in 1 .. n : server_actions'[i] = server_actions[i]
  BY <1>1, <1>5
<1> QED BY <1>1, <1>5, <1>6

LEMMA RejectSends ==
  ASSUME TypeOK, SendToClients(server_actions, send_count, {})
  PROVE  /\ UNCHANGED server_actions
         /\ send_count' \in [DOMAIN server_actions -> 0 .. Redundancy]
         /\ \A m \in to_clients' : m \in to_clients \/
              \E c \in Clients, i \in DOMAIN server_actions : m = [to |-> c, token |-> i - 1]
<1> DEFINE n == Len(server_actions)
<1>1. n \in Nat /\ DOMAIN server_actions = 1 .. n
      /\ send_count \in [1 .. n -> 0 .. Redundancy]
  BY DEF TypeOK
<1> HIDE DEF n
<1> QED BY <1>1, SendToClientsSends

\* The action the server makes of a client's message.
Accepted(message) ==
  IF IsLate(message) THEN Received(message, Rescheduled(message), TRUE)
  ELSE Received(message, InStep(message), FALSE)

LEMMA AcceptedType ==
  ASSUME TypeOK, NEW message \in to_server
  PROVE  /\ Accepted(message) \in ServerAction
         /\ Accepted(message).sender = message.from
         /\ Accepted(message).triggerer_action_token = message.token
         /\ message.from \in Triggerers /\ message.from \in Clients /\ message.from /= Server
         /\ message.token \in OwnTokens /\ message.token \in Tokens /\ message.token \in Nat
<1>1. /\ message.from \in Triggerers /\ message.from \in Clients /\ message.from /= Server
      /\ message.token \in OwnTokens /\ message.wait_server_validation \in BOOLEAN
      /\ message.executed_input_id \in Int
  BY ClientsAssumption, FrameTypes DEF TypeOK
<1>2. message.token \in Tokens /\ message.token \in Nat
  BY <1>1, OwnTokensAreTokens, TokenTypes
<1>3. /\ \A c \in Clients : server_input[c] \in Int
      /\ \A c \in Clients : peers_next_action_trigger_input_id[c] \in Int
  BY FrameTypes DEF TypeOK
<1>4. Rescheduled(message) \in [Clients -> Int] /\ InStep(message) \in [Clients -> Int]
  BY <1>1, <1>3, FrameTypes DEF Rescheduled, InStep
<1>5. ASSUME NEW changed \in BOOLEAN, NEW at \in [Clients -> Int]
      PROVE  /\ Received(message, at, changed) \in ServerAction
             /\ Received(message, at, changed).sender = message.from
             /\ Received(message, at, changed).triggerer_action_token = message.token
  BY <1>1, <1>2 DEF Received, ServerAction
<1> QED BY <1>1, <1>2, <1>4, <1>5 DEF Accepted

LEMMA AcceptIssues ==
  ASSUME NEW message, AcceptAction(message)
  PROVE  Issue(Accepted(message))
BY DEF AcceptAction, Accepted

LEMMA TriggeredType ==
  ASSUME TypeOK, NEW recipients \in Recipients
  PROVE  [sender |-> Server, triggerer_action_token |-> Len(server_actions),
          wait_server_validation |-> FALSE, recipients |-> recipients,
          executed_input_id |-> peers_next_action_trigger_input_id,
          sender_executed_time_changed |-> FALSE] \in ServerAction
<1>1. Len(server_actions) \in Nat
  BY DEF TypeOK
<1>2. peers_next_action_trigger_input_id \in [Clients -> Int]
  BY FrameTypes DEF TypeOK
<1> QED BY <1>1, <1>2, RecipientsAssumption DEF ServerAction

\* The server's actions are only added to.
LEMMA ActionsGrow ==
  ASSUME TypeOK, [Next]_vars
  PROVE  /\ server_actions' \in Seq(ServerAction)
         /\ \A i \in DOMAIN server_actions :
              i \in DOMAIN server_actions' /\ server_actions'[i] = server_actions[i]
<1> USE DEF actionVars, serverVars, playerVars, clientVars
<1>1. ASSUME NEW recipients \in Recipients, ServerTrigger(recipients)
      PROVE  /\ server_actions' \in Seq(ServerAction)
             /\ \A i \in DOMAIN server_actions :
                  i \in DOMAIN server_actions' /\ server_actions'[i] = server_actions[i]
  <2> DEFINE a == [sender |-> Server, triggerer_action_token |-> Len(server_actions),
                   wait_server_validation |-> FALSE, recipients |-> recipients,
                   executed_input_id |-> peers_next_action_trigger_input_id,
                   sender_executed_time_changed |-> FALSE]
  <2>1. a \in ServerAction /\ Issue(a)
    BY <1>1, TriggeredType DEF ServerTrigger
  <2> HIDE DEF a
  <2> QED BY <2>1, IssueSends
<1>2. ASSUME NEW message \in to_server, AcceptAction(message)
      PROVE  /\ server_actions' \in Seq(ServerAction)
             /\ \A i \in DOMAIN server_actions :
                  i \in DOMAIN server_actions' /\ server_actions'[i] = server_actions[i]
  BY <1>2, AcceptIssues, AcceptedType, IssueSends
<1>3. ASSUME NEW message \in to_server, RejectAction(message)
      PROVE  UNCHANGED server_actions
  BY <1>3, RejectSends DEF RejectAction
<1>4. ASSUME UNCHANGED server_actions
      PROVE  /\ server_actions' \in Seq(ServerAction)
             /\ \A i \in DOMAIN server_actions :
                  i \in DOMAIN server_actions' /\ server_actions'[i] = server_actions[i]
  BY <1>4 DEF TypeOK
<1>5. ASSUME NEW input \in [Clients -> FrameOrNone], ServerTick(input)
      PROVE  UNCHANGED server_actions
  BY <1>5 DEF ServerTick
<1>6. ASSUME NEW c \in Triggerers, NEW wait \in BOOLEAN, ClientTrigger(c, wait)
      PROVE  UNCHANGED server_actions
  BY <1>6 DEF ClientTrigger
<1>7. ASSUME NEW message \in to_clients, ReceiveAction(message.to, message.token)
      PROVE  UNCHANGED server_actions
  BY <1>7 DEF ReceiveAction
<1>8. ASSUME NEW c \in Clients, NEW frame \in FrameOrNone, NEW checked \in FrameOrNone,
             ClientTick(c, frame, checked)
      PROVE  UNCHANGED server_actions
  BY <1>8 DEF ClientTick
<1> QED BY <1>1, <1>2, <1>3, <1>4, <1>5, <1>6, <1>7, <1>8 DEF Next, vars

-----------------------------------------------------------------------------
(***************************************************************************)
(* Each action is issued once.                                             *)
(***************************************************************************)
LEMMA InfosStep ==
  ASSUME TypeOK, InfosAreOrdered, [Next]_vars
  PROVE  /\ senders_info' \in [Clients -> Info]
         /\ server_sender_info' \in [Clients -> Info]
         /\ InfosAreOrdered'
         /\ \A c \in Clients, t \in Nat :
              /\ IsKnown(senders_info[c], t) => IsKnown(senders_info'[c], t)
              /\ IsKnown(server_sender_info[c], t) => IsKnown(server_sender_info'[c], t)
<1> DEFINE G == /\ senders_info' \in [Clients -> Info]
                /\ server_sender_info' \in [Clients -> Info]
                /\ InfosAreOrdered'
                /\ \A c \in Clients, t \in Nat :
                     /\ IsKnown(senders_info[c], t) => IsKnown(senders_info'[c], t)
                     /\ IsKnown(server_sender_info[c], t) => IsKnown(server_sender_info'[c], t)
<1> USE DEF actionVars, serverVars, playerVars, clientVars
<1>1. /\ senders_info \in [Clients -> Info] /\ server_sender_info \in [Clients -> Info]
      /\ \A c \in Clients : senders_info[c] \in Info /\ server_sender_info[c] \in Info
                         /\ InfoIsOrdered(senders_info[c]) /\ InfoIsOrdered(server_sender_info[c])
  BY DEF TypeOK, InfosAreOrdered
<1>2. ASSUME UNCHANGED <<senders_info, server_sender_info>>
      PROVE  G
  BY <1>1, <1>2 DEF InfosAreOrdered
<1>3. ASSUME NEW c \in Clients, NEW token \in Tokens, ~IsKnown(senders_info[c], token),
             senders_info' = [senders_info EXCEPT ![c] = Noted(senders_info[c], token)],
             UNCHANGED server_sender_info
      PROVE  G
  <2>1. /\ Noted(senders_info[c], token) \in Info
        /\ InfoIsOrdered(Noted(senders_info[c], token))
        /\ \A t \in Nat : IsKnown(senders_info[c], t) => IsKnown(Noted(senders_info[c], token), t)
    BY <1>1, <1>3, NotedKnows
  <2> QED BY <1>1, <1>3, <2>1 DEF InfosAreOrdered
<1>4. ASSUME NEW c \in Clients, NEW token \in Tokens, ~IsKnown(server_sender_info[c], token),
             server_sender_info' = [server_sender_info EXCEPT ![c] = Noted(@, token)],
             UNCHANGED senders_info
      PROVE  G
  <2>1. /\ Noted(server_sender_info[c], token) \in Info
        /\ InfoIsOrdered(Noted(server_sender_info[c], token))
        /\ \A t \in Nat : IsKnown(server_sender_info[c], t)
                            => IsKnown(Noted(server_sender_info[c], token), t)
    BY <1>1, <1>4, NotedKnows
  <2> QED BY <1>1, <1>4, <2>1 DEF InfosAreOrdered
<1>5. ASSUME NEW recipients \in Recipients, ServerTrigger(recipients)
      PROVE  G
  BY <1>2, <1>5 DEF ServerTrigger
<1>6. ASSUME NEW message \in to_server, AcceptAction(message)
      PROVE  G
  BY <1>3, <1>6, AcceptedType DEF AcceptAction
<1>7. ASSUME NEW message \in to_server, RejectAction(message)
      PROVE  G
  <2>1. CASE UNCHANGED senders_info
    BY <1>2, <1>7, <2>1 DEF RejectAction
  <2>2. CASE /\ ~IsKnown(senders_info[message.from], message.token)
             /\ senders_info' = [senders_info EXCEPT
                  ![message.from] = Noted(senders_info[message.from], message.token)]
    BY <1>3, <1>7, <2>2, AcceptedType DEF RejectAction
  <2> QED BY <1>7, <2>1, <2>2 DEF RejectAction
<1>8. ASSUME NEW input \in [Clients -> FrameOrNone], ServerTick(input)
      PROVE  G
  <2>1. /\ UNCHANGED server_sender_info
        /\ senders_info' \in [Clients -> UNION {Cleaned(senders_info[c]) : c \in Clients}]
        /\ \A c \in Clients : senders_info'[c] \in Cleaned(senders_info[c])
    BY <1>8 DEF ServerTick
  <2>2. \A c \in Clients :
          /\ senders_info'[c] \in Info /\ InfoIsOrdered(senders_info'[c])
          /\ \A t \in Nat : IsKnown(senders_info[c], t) => IsKnown(senders_info'[c], t)
    BY <1>1, <2>1, CleanedKnows
  <2> QED BY <1>1, <2>1, <2>2 DEF InfosAreOrdered
<1>9. ASSUME NEW c \in Triggerers, NEW wait \in BOOLEAN, ClientTrigger(c, wait)
      PROVE  G
  BY <1>2, <1>9 DEF ClientTrigger
<1>10. ASSUME NEW message \in to_clients, ReceiveAction(message.to, message.token)
       PROVE  G
  <2>1. message.to \in Clients /\ message.token \in Tokens
    BY DEF TypeOK
  <2> QED BY <1>4, <1>10, <2>1 DEF ReceiveAction
<1>11. ASSUME NEW c \in Clients, NEW frame \in FrameOrNone, NEW checked \in FrameOrNone,
              ClientTick(c, frame, checked)
       PROVE  G
  <2>1. PICK info \in Cleaned(server_sender_info[c]) :
          /\ server_sender_info' = [server_sender_info EXCEPT ![c] = info]
          /\ UNCHANGED senders_info
    BY <1>11 DEF ClientTick
  <2>2. /\ info \in Info /\ InfoIsOrdered(info)
        /\ \A t \in Nat : IsKnown(server_sender_info[c], t) => IsKnown(info, t)
    BY <1>1, CleanedKnows
  <2> QED BY <1>1, <2>1, <2>2 DEF InfosAreOrdered
<1> QED BY <1>2, <1>5, <1>6, <1>7, <1>8, <1>9, <1>10, <1>11 DEF Next, vars

LEMMA IssuedStep ==
  ASSUME IInv, [Next]_vars
  PROVE  ActionsAreKnown' /\ ServerOwnAreBounded' /\ IssuedOnce'
<1> USE DEF actionVars, serverVars, playerVars, clientVars
<1> DEFINE n == Len(server_actions)
           G == ActionsAreKnown' /\ ServerOwnAreBounded' /\ IssuedOnce'
<1>1. /\ server_actions \in Seq(ServerAction) /\ n \in Nat /\ DOMAIN server_actions = 1 .. n
      /\ TypeOK /\ InfosAreOrdered /\ ActionsAreKnown /\ ServerOwnAreBounded /\ IssuedOnce
  BY DEF IInv, TypeOK
<1>2. \A c \in Clients, t \in Nat : IsKnown(senders_info[c], t) => IsKnown(senders_info'[c], t)
  BY <1>1, InfosStep
<1>3. \A i \in 1 .. n :
        LET a == server_actions[i]
        IN  /\ a.sender = Server => a.triggerer_action_token = i - 1
            /\ a.sender /= Server =>
                 /\ a.sender \in Triggerers /\ a.triggerer_action_token \in OwnTokens
                 /\ a.sender \in Clients /\ a.triggerer_action_token \in Nat
                 /\ IsKnown(senders_info[a.sender], a.triggerer_action_token)
                 /\ IsKnown(senders_info'[a.sender], a.triggerer_action_token)
  BY <1>1, <1>2, ClientsAssumption, TokenTypes DEF ActionsAreKnown
<1>4. ASSUME UNCHANGED server_actions
      PROVE  G
  <2>1. ActionsAreKnown'
    BY <1>1, <1>3, <1>4 DEF ActionsAreKnown
  <2> QED BY <1>1, <1>4, <2>1 DEF ServerOwnAreBounded, ServerOwn, IssuedOnce
<1>5. ASSUME NEW recipients \in Recipients, ServerTrigger(recipients)
      PROVE  G
  <2> DEFINE a == [sender |-> Server, triggerer_action_token |-> n,
                   wait_server_validation |-> FALSE, recipients |-> recipients,
                   executed_input_id |-> peers_next_action_trigger_input_id,
                   sender_executed_time_changed |-> FALSE]
  <2>1. a \in ServerAction /\ Issue(a) /\ a.sender = Server /\ a.triggerer_action_token = n
    BY <1>1, <1>5, TriggeredType DEF ServerTrigger
  <2> HIDE DEF a
  <2>2. /\ DOMAIN server_actions' = 1 .. n + 1 /\ server_actions'[n + 1] = a
        /\ \A i \in 1 .. n : server_actions'[i] = server_actions[i]
    BY <1>1, <2>1, IssueSends
  <2> HIDE DEF n
  <2>3. ActionsAreKnown'
    BY <1>1, <1>3, <2>1, <2>2 DEF ActionsAreKnown
  <2>4. IssuedOnce'
    BY <1>1, <1>3, <2>1, <2>2 DEF IssuedOnce
  <2>5. ServerOwnAreBounded'
    <3>1. ServerOwn' = ServerOwn \cup {n + 1}
      BY <1>1, <2>1, <2>2 DEF ServerOwn
    <3>2. ServerOwn \subseteq 1 .. n /\ IsFiniteSet(1 .. n)
      BY <1>1, FS_Interval DEF ServerOwn
    <3>3. IsFiniteSet(ServerOwn) /\ Cardinality(ServerOwn) \in Nat /\ n + 1 \notin ServerOwn
      <4>1. IsFiniteSet(ServerOwn)
        BY <3>2, FS_Subset
      <4>2. n + 1 \notin ServerOwn
        BY <1>1, <3>2
      <4> QED BY <4>1, <4>2, FS_CardinalityType
    <3>4. Cardinality(ServerOwn') = Cardinality(ServerOwn) + 1
      BY <3>1, <3>3, FS_AddElement
    <3>5. Cardinality(ServerOwn) < MaxServerOwn /\ MaxServerOwn \in Nat
      BY <1>5, ActionBoundsAssumption DEF ServerTrigger
    <3> QED BY <3>3, <3>4, <3>5 DEF ServerOwnAreBounded
  <2> QED BY <2>3, <2>4, <2>5
<1>6. ASSUME NEW message \in to_server, AcceptAction(message)
      PROVE  G
  <2> DEFINE a == Accepted(message)
  <2>1. /\ a \in ServerAction /\ Issue(a) /\ a.sender /= Server
        /\ a.sender = message.from /\ a.triggerer_action_token = message.token
        /\ message.from \in Triggerers /\ message.from \in Clients
        /\ message.token \in OwnTokens /\ message.token \in Tokens
    BY <1>1, <1>6, AcceptIssues, AcceptedType
  <2> HIDE DEF a
  <2>2. /\ DOMAIN server_actions' = 1 .. n + 1 /\ server_actions'[n + 1] = a
        /\ \A i \in 1 .. n : server_actions'[i] = server_actions[i]
    BY <1>1, <2>1, IssueSends
  <2> HIDE DEF n
  <2>3. ~IsKnown(senders_info[message.from], message.token)
        /\ IsKnown(senders_info'[message.from], message.token)
    <3>1. /\ ~IsKnown(senders_info[message.from], message.token)
          /\ senders_info' = [senders_info EXCEPT
               ![message.from] = Noted(senders_info[message.from], message.token)]
      BY <1>6 DEF AcceptAction
    <3>2. senders_info \in [Clients -> Info] /\ InfoIsOrdered(senders_info[message.from])
      BY <1>1, <2>1 DEF TypeOK, InfosAreOrdered
    <3>3. IsKnown(Noted(senders_info[message.from], message.token), message.token)
      BY <2>1, <3>1, <3>2, NotedKnows
    <3> QED BY <2>1, <3>1, <3>2, <3>3
  <2>4. ActionsAreKnown'
    BY <1>1, <1>3, <2>1, <2>2, <2>3 DEF ActionsAreKnown
  <2>5. IssuedOnce'
    BY <1>1, <1>3, <2>1, <2>2, <2>3 DEF IssuedOnce
  <2>6. ServerOwn' = ServerOwn
    BY <1>1, <2>1, <2>2 DEF ServerOwn
  <2> QED BY <1>1, <2>4, <2>5, <2>6 DEF ServerOwnAreBounded
<1>7. ASSUME NEW message \in to_server, RejectAction(message)
      PROVE  G
  BY <1>1, <1>4, <1>7, RejectSends DEF RejectAction
<1>8. ASSUME NEW input \in [Clients -> FrameOrNone], ServerTick(input)
      PROVE  G
  BY <1>4, <1>8 DEF ServerTick
<1>9. ASSUME NEW c \in Triggerers, NEW wait \in BOOLEAN, ClientTrigger(c, wait)
      PROVE  G
  BY <1>4, <1>9 DEF ClientTrigger
<1>10. ASSUME NEW message \in to_clients, ReceiveAction(message.to, message.token)
       PROVE  G
  BY <1>4, <1>10 DEF ReceiveAction
<1>11. ASSUME NEW c \in Clients, NEW frame \in FrameOrNone, NEW checked \in FrameOrNone,
              ClientTick(c, frame, checked)
       PROVE  G
  BY <1>4, <1>11 DEF ClientTick
<1> QED BY <1>4, <1>5, <1>6, <1>7, <1>8, <1>9, <1>10, <1>11 DEF Next, vars

\* So there is a token for each of the server's actions.
LEMMA TokensStep ==
  ASSUME IInv, [Next]_vars
  PROVE  \A i \in DOMAIN server_actions' : i - 1 \in Tokens
<1>1. server_actions' \in Seq(ServerAction)
  BY ActionsGrow DEF IInv
<1>2. ActionsAreKnown' /\ ServerOwnAreBounded' /\ IssuedOnce'
  BY IssuedStep
<1> DEFINE s == server_actions'
<1>3. \A i \in DOMAIN s : s[i].sender /= Server =>
        s[i].sender \in Triggerers /\ s[i].triggerer_action_token \in OwnTokens
  BY <1>2 DEF ActionsAreKnown
<1>4. \A i, j \in DOMAIN s :
        s[i].sender = s[j].sender /\ s[i].triggerer_action_token = s[j].triggerer_action_token
          => i = j
  BY <1>2 DEF IssuedOnce
<1>5. Cardinality({i \in DOMAIN s : s[i].sender = Server}) <= MaxServerOwn
  BY <1>2 DEF ServerOwnAreBounded, ServerOwn
<1> HIDE DEF s
<1>6. \A i \in DOMAIN s : i - 1 \in Tokens
  BY <1>1, <1>3, <1>4, <1>5, CountBound DEF s
<1> QED BY <1>6 DEF s

-----------------------------------------------------------------------------
(***************************************************************************)
(* Types.                                                                  *)
(***************************************************************************)
LEMMA CountsAreSequences ==
  ASSUME NEW n \in Nat, NEW counts
  PROVE  counts \in [1 .. n -> 0 .. Redundancy]
           <=> counts \in Seq(0 .. Redundancy) /\ Len(counts) = n
<1>1. ASSUME counts \in [1 .. n -> 0 .. Redundancy]
      PROVE  counts \in Seq(0 .. Redundancy) /\ Len(counts) = n
  <2>1. counts \in Seq(0 .. Redundancy)
    <3> DEFINE S == 0 .. Redundancy
    <3>1. counts \in UNION {[1 .. m -> S] : m \in Nat}
      BY <1>1
    <3> QED BY <3>1, SeqDef
  <2>2. DOMAIN counts = 1 .. Len(counts) /\ Len(counts) \in Nat
    BY <2>1, LenProperties
  <2>3. DOMAIN counts = 1 .. n
    BY <1>1
  <2> DEFINE m == Len(counts)
  <2> HIDE DEF m
  <2>4. m \in Nat /\ 1 .. m = 1 .. n
    BY <2>2, <2>3 DEF m
  <2>5. (m \in 1 .. m \/ m = 0) /\ (n \in 1 .. n \/ n = 0)
    BY <2>4
  <2>6. (m \in 1 .. n \/ m = 0) /\ (n \in 1 .. m \/ n = 0)
    BY <2>4, <2>5
  <2>7. m = n
    BY <2>4, <2>6
  <2> QED BY <2>1, <2>7 DEF m
<1>2. ASSUME counts \in Seq(0 .. Redundancy), Len(counts) = n
      PROVE  counts \in [1 .. n -> 0 .. Redundancy]
  BY <1>2, LenProperties
<1> QED BY <1>1, <1>2

LEMMA SendToServerSends ==
  ASSUME TypeOK, NEW c \in Clients, NEW n \in Nat, NEW actions \in Seq(OwnAction),
         Len(actions) = n, NEW counts \in [1 .. n -> 0 .. Redundancy], NEW fresh,
         SendToServer(c, actions, counts, fresh)
  PROVE  /\ own_send_count' \in [Clients -> Seq(0 .. Redundancy)]
         /\ Len(own_send_count'[c]) = n
         /\ \A d \in Clients : d /= c => own_send_count'[d] = own_send_count[d]
         /\ \A m \in to_server' : m \in to_server \/
              \E i \in 1 .. n :
                m = [from |-> c, token |-> i - 1,
                     wait_server_validation |-> actions[i].wait_server_validation,
                     executed_input_id |-> actions[i].executed_input_id]
<1>1. PICK batch \in SUBSET Unsent(counts) :
        /\ own_send_count' = [own_send_count EXCEPT ![c] = Counted(counts, batch)]
        /\ to_server' = to_server \cup
             {[from |-> c, token |-> i - 1,
               wait_server_validation |-> actions[i].wait_server_validation,
               executed_input_id |-> actions[i].executed_input_id] : i \in batch}
  BY DEF SendToServer
<1>2. Counted(counts, batch) \in [1 .. n -> 0 .. Redundancy] /\ batch \subseteq 1 .. n
  BY CountedType
<1>3. Counted(counts, batch) \in Seq(0 .. Redundancy) /\ Len(Counted(counts, batch)) = n
  BY <1>2, CountsAreSequences
<1>4. own_send_count \in [Clients -> Seq(0 .. Redundancy)]
  BY DEF TypeOK
<1> QED BY <1>1, <1>2, <1>3, <1>4

\* What a client's trigger adds.
LEMMA TriggerAdds ==
  ASSUME TypeOK, NEW c \in Triggerers, NEW wait \in BOOLEAN, ClientTrigger(c, wait)
  PROVE  \E action \in OwnAction :
           /\ c \in Clients
           /\ action.wait_server_validation = wait
           /\ ~wait => action.executed_input_id = player_input[c] + 1
           /\ own_actions' = [own_actions EXCEPT ![c] = Append(own_actions[c], action)]
           /\ own_actions'[c] \in Seq(OwnAction)
           /\ Len(own_actions[c]) \in Nat /\ DOMAIN own_actions[c] = 1 .. Len(own_actions[c])
           /\ Len(own_actions'[c]) = Len(own_actions[c]) + 1
           /\ DOMAIN own_actions'[c] = 1 .. Len(own_actions[c]) + 1
           /\ Len(own_actions[c]) + 1 <= MaxOwn
           /\ own_actions'[c][Len(own_actions[c]) + 1] = action
           /\ \A i \in DOMAIN own_actions[c] : own_actions'[c][i] = own_actions[c][i]
           /\ SendToServer(c, own_actions'[c], Append(own_send_count[c], 0),
                           {Len(own_actions'[c])})
<1> DEFINE action == [wait_server_validation |-> wait,
                      executed_input_id |-> IF wait THEN NoInput ELSE player_input[c] + 1]
           n == Len(own_actions[c])
<1>1. c \in Clients /\ own_actions \in [Clients -> Seq(OwnAction)]
      /\ own_actions[c] \in Seq(OwnAction) /\ n \in Nat /\ DOMAIN own_actions[c] = 1 .. n
  BY ClientsAssumption DEF TypeOK
<1>2. action \in OwnAction
  <2>1. ~wait => player_input[c] + 1 \in FrameOrNone
    BY <1>1, FrameTypes DEF ClientTrigger, FrameOrNone
  <2>2. (IF wait THEN NoInput ELSE player_input[c] + 1) \in FrameOrNone
    BY <2>1, FrameTypes
  <2> QED BY <2>2 DEF OwnAction
<1>3. /\ own_actions' = [own_actions EXCEPT ![c] = Append(own_actions[c], action)]
      /\ n < MaxOwn
      /\ SendToServer(c, own_actions'[c], Append(own_send_count[c], 0), {Len(own_actions'[c])})
  BY DEF ClientTrigger
<1>4. action.wait_server_validation = wait
      /\ (~wait => action.executed_input_id = player_input[c] + 1)
  OBVIOUS
<1> HIDE DEF action
<1>5. own_actions'[c] = Append(own_actions[c], action)
  BY <1>1, <1>3
<1>6. /\ own_actions'[c] \in Seq(OwnAction) /\ Len(own_actions'[c]) = n + 1
      /\ DOMAIN own_actions'[c] = 1 .. n + 1 /\ own_actions'[c][n + 1] = action
      /\ \A i \in 1 .. n : own_actions'[c][i] = own_actions[c][i]
  BY <1>1, <1>2, <1>5
<1>7. n + 1 <= MaxOwn
  <2> HIDE DEF n
  <2> QED BY <1>1, <1>3, ActionBoundsAssumption
<1> QED BY <1>1, <1>2, <1>3, <1>4, <1>6, <1>7

\* A client's own actions are only added to, and the frames go forward.
LEMMA ClientsGrow ==
  ASSUME TypeOK, [Next]_vars, NEW c \in Clients
  PROVE  /\ own_actions' \in [Clients -> Seq(OwnAction)]
         /\ \A i \in DOMAIN own_actions[c] :
              i \in DOMAIN own_actions'[c] /\ own_actions'[c][i] = own_actions[c][i]
         /\ player_input[c] <= player_input'[c]
<1> USE DEF actionVars, serverVars, playerVars, clientVars
<1>1. own_actions \in [Clients -> Seq(OwnAction)] /\ player_input \in [Clients -> FrameOrNone]
      /\ player_input[c] \in Int
  BY FrameTypes DEF TypeOK
<1>2. CASE UNCHANGED <<own_actions, player_input>>
  BY <1>1, <1>2
<1>3. ASSUME NEW d \in Triggerers, NEW wait \in BOOLEAN, ClientTrigger(d, wait)
      PROVE  /\ own_actions' \in [Clients -> Seq(OwnAction)]
             /\ \A i \in DOMAIN own_actions[c] :
                  i \in DOMAIN own_actions'[c] /\ own_actions'[c][i] = own_actions[c][i]
             /\ player_input[c] <= player_input'[c]
  <2>1. UNCHANGED player_input
    BY <1>3 DEF ClientTrigger
  <2>2. PICK action \in OwnAction :
          /\ d \in Clients
          /\ own_actions' = [own_actions EXCEPT ![d] = Append(own_actions[d], action)]
          /\ own_actions'[d] \in Seq(OwnAction)
          /\ Len(own_actions[d]) \in Nat /\ DOMAIN own_actions[d] = 1 .. Len(own_actions[d])
          /\ DOMAIN own_actions'[d] = 1 .. Len(own_actions[d]) + 1
          /\ \A i \in DOMAIN own_actions[d] : own_actions'[d][i] = own_actions[d][i]
    BY <1>3, TriggerAdds
  <2> QED BY <1>1, <2>1, <2>2
<1>4. ASSUME NEW d \in Clients, NEW frame \in FrameOrNone, NEW checked \in FrameOrNone,
             ClientTick(d, frame, checked)
      PROVE  UNCHANGED own_actions /\ player_input[c] <= player_input'[c]
  <2>1. /\ frame \in {player_input[d], player_input[d] + 1}
        /\ player_input' = [player_input EXCEPT ![d] = frame]
        /\ UNCHANGED own_actions
    BY <1>4 DEF ClientTick
  <2>2. player_input[d] \in Int
    BY <1>1, FrameTypes
  <2> QED BY <1>1, <2>1, <2>2
<1>5. ASSUME NEW message \in to_server, AcceptAction(message) \/ RejectAction(message)
      PROVE  UNCHANGED <<own_actions, player_input>>
  BY <1>5 DEF AcceptAction, RejectAction
<1>6. ASSUME NEW message \in to_clients, ReceiveAction(message.to, message.token)
      PROVE  UNCHANGED <<own_actions, player_input>>
  BY <1>6 DEF ReceiveAction
<1>7. ASSUME NEW input \in [Clients -> FrameOrNone], ServerTick(input)
      PROVE  UNCHANGED <<own_actions, player_input>>
  BY <1>7 DEF ServerTick
<1>8. ASSUME NEW recipients \in Recipients, ServerTrigger(recipients)
      PROVE  UNCHANGED <<own_actions, player_input>>
  BY <1>8 DEF ServerTrigger
<1> QED BY <1>1, <1>2, <1>3, <1>4, <1>5, <1>6, <1>7, <1>8 DEF Next, vars

LEMMA TypeStep ==
  ASSUME IInv, [Next]_vars
  PROVE  TypeOK'
<1> USE DEF actionVars, serverVars, playerVars, clientVars
<1>1. TypeOK
  BY DEF IInv
<1>2. /\ server_actions' \in Seq(ServerAction) /\ own_actions' \in [Clients -> Seq(OwnAction)]
      /\ senders_info' \in [Clients -> Info] /\ server_sender_info' \in [Clients -> Info]
  BY <1>1, ActionsGrow, ClientsGrow, InfosStep, ClientsAssumption DEF IInv
<1>3. \A i \in DOMAIN server_actions' : i - 1 \in Tokens
  BY TokensStep
<1>4. ASSUME \A m \in to_clients' : m \in to_clients \/
               \E c \in Clients, i \in DOMAIN server_actions' : m = [to |-> c, token |-> i - 1]
      PROVE  to_clients' \subseteq [to : Clients, token : Tokens]
  <2> SUFFICES ASSUME NEW m \in to_clients'
               PROVE  m \in [to : Clients, token : Tokens]
    OBVIOUS
  <2>1. CASE m \in to_clients
    BY <1>1, <2>1 DEF TypeOK
  <2>2. CASE \E c \in Clients, i \in DOMAIN server_actions' : m = [to |-> c, token |-> i - 1]
    BY <1>3, <2>2
  <2> QED BY <1>4, <2>1, <2>2
<1>5. ASSUME NEW recipients \in Recipients, ServerTrigger(recipients)
      PROVE  TypeOK'
  <2> DEFINE a == [sender |-> Server, triggerer_action_token |-> Len(server_actions),
                   wait_server_validation |-> FALSE, recipients |-> recipients,
                   executed_input_id |-> peers_next_action_trigger_input_id,
                   sender_executed_time_changed |-> FALSE]
  <2>1. a \in ServerAction /\ Issue(a)
        /\ UNCHANGED <<server_input, peers_next_action_trigger_input_id, locally_executed,
                       to_server, clientVars>>
    BY <1>1, <1>5, TriggeredType DEF ServerTrigger
  <2> HIDE DEF a
  <2>2. send_count' \in [DOMAIN server_actions' -> 0 .. Redundancy]
        /\ to_clients' \subseteq [to : Clients, token : Tokens]
    BY <1>1, <1>4, <2>1, IssueSends
  <2> QED BY <1>1, <1>2, <2>1, <2>2 DEF TypeOK
<1>6. ASSUME NEW message \in to_server, AcceptAction(message)
      PROVE  TypeOK'
  <2>1. Accepted(message) \in ServerAction /\ Issue(Accepted(message))
        /\ UNCHANGED <<server_input, peers_next_action_trigger_input_id, locally_executed,
                       to_server, clientVars>>
    BY <1>1, <1>6, AcceptIssues, AcceptedType DEF AcceptAction
  <2>2. send_count' \in [DOMAIN server_actions' -> 0 .. Redundancy]
        /\ to_clients' \subseteq [to : Clients, token : Tokens]
    BY <1>1, <1>4, <2>1, IssueSends
  <2> QED BY <1>1, <1>2, <2>1, <2>2 DEF TypeOK
<1>7. ASSUME NEW message \in to_server, RejectAction(message)
      PROVE  TypeOK'
  <2>1. SendToClients(server_actions, send_count, {})
        /\ UNCHANGED <<server_input, peers_next_action_trigger_input_id, locally_executed,
                       to_server, clientVars>>
    BY <1>7 DEF RejectAction
  <2>2. send_count' \in [DOMAIN server_actions' -> 0 .. Redundancy]
        /\ to_clients' \subseteq [to : Clients, token : Tokens]
    BY <1>1, <1>4, <2>1, RejectSends
  <2> QED BY <1>1, <1>2, <2>1, <2>2 DEF TypeOK
<1>8. ASSUME NEW input \in [Clients -> FrameOrNone], ServerTick(input)
      PROVE  TypeOK'
  <2>1. /\ server_input' = input
        /\ locally_executed' = locally_executed \cup DueOnServer(input)
        /\ peers_next_action_trigger_input_id' =
             [c \in Clients |-> IF input[c] = NoInput THEN peers_next_action_trigger_input_id[c]
                                ELSE input[c] + 1]
        /\ UNCHANGED <<actionVars, to_server, to_clients, clientVars>>
    BY <1>8 DEF ServerTick
  <2>2. locally_executed' \subseteq Tokens
    BY <1>1, <1>3, <2>1 DEF TypeOK, DueOnServer
  <2>3. peers_next_action_trigger_input_id'
          \in [Clients -> {id + 1 : id \in FrameIds} \cup {NoInput}]
    BY <1>1, <2>1 DEF TypeOK, FrameOrNone
  <2> QED BY <1>1, <1>2, <2>1, <2>2, <2>3 DEF TypeOK
<1>9. ASSUME NEW c \in Triggerers, NEW wait \in BOOLEAN, ClientTrigger(c, wait)
      PROVE  TypeOK'
  <2> DEFINE n == Len(own_actions[c])
  <2>1. PICK action \in OwnAction :
          /\ c \in Clients
          /\ own_actions' = [own_actions EXCEPT ![c] = Append(own_actions[c], action)]
          /\ own_actions'[c] \in Seq(OwnAction) /\ n \in Nat /\ Len(own_actions'[c]) = n + 1
          /\ DOMAIN own_actions'[c] = 1 .. n + 1 /\ n + 1 <= MaxOwn
          /\ SendToServer(c, own_actions'[c], Append(own_send_count[c], 0),
                          {Len(own_actions'[c])})
    BY <1>1, <1>9, TriggerAdds
  <2>2. own_send_count[c] \in Seq(0 .. Redundancy) /\ Len(own_send_count[c]) = n
    BY <1>1, <2>1 DEF TypeOK
  <2>3. UNCHANGED <<serverVars, to_clients, playerVars, snapshot_actions, pending_actions,
                    heard, ran>>
    BY <1>9 DEF ClientTrigger
  <2>4. \A d \in Clients : d /= c => own_actions'[d] = own_actions[d]
    BY <1>1, <2>1 DEF TypeOK
  <2> HIDE DEF n
  <2>5. Append(own_send_count[c], 0) \in [1 .. n + 1 -> 0 .. Redundancy]
    BY <2>1, <2>2, CountsAppend, CountsAreSequences
  <2>6. /\ own_send_count' \in [Clients -> Seq(0 .. Redundancy)]
        /\ Len(own_send_count'[c]) = n + 1
        /\ \A d \in Clients : d /= c => own_send_count'[d] = own_send_count[d]
        /\ \A m \in to_server' : m \in to_server \/
             \E i \in 1 .. n + 1 :
               m = [from |-> c, token |-> i - 1,
                    wait_server_validation |-> own_actions'[c][i].wait_server_validation,
                    executed_input_id |-> own_actions'[c][i].executed_input_id]
    <3>1. n + 1 \in Nat
      BY <2>1
    <3> QED BY <1>1, <2>1, <2>5, <3>1, SendToServerSends
  <2>7. to_server' \subseteq [from : Triggerers, token : OwnTokens,
                              wait_server_validation : BOOLEAN, executed_input_id : FrameOrNone]
    <3> SUFFICES ASSUME NEW m \in to_server'
                 PROVE  m \in [from : Triggerers, token : OwnTokens,
                               wait_server_validation : BOOLEAN,
                               executed_input_id : FrameOrNone]
      OBVIOUS
    <3>1. CASE m \in to_server
      BY <1>1, <3>1 DEF TypeOK
    <3>2. ASSUME NEW i \in 1 .. n + 1,
                 m = [from |-> c, token |-> i - 1,
                      wait_server_validation |-> own_actions'[c][i].wait_server_validation,
                      executed_input_id |-> own_actions'[c][i].executed_input_id]
          PROVE  m \in [from : Triggerers, token : OwnTokens,
                        wait_server_validation : BOOLEAN, executed_input_id : FrameOrNone]
      <4>1. i - 1 \in OwnTokens
        BY <2>1, ActionBoundsAssumption DEF OwnTokens
      <4>2. own_actions'[c][i] \in OwnAction
        BY <2>1
      <4> QED BY <3>2, <4>1, <4>2 DEF OwnAction
    <3> QED BY <2>6, <3>1, <3>2
  <2>8. \A d \in Clients : Len(own_send_count'[d]) = Len(own_actions'[d])
    BY <1>1, <2>1, <2>4, <2>6 DEF TypeOK
  <2> QED BY <1>1, <1>2, <2>3, <2>6, <2>7, <2>8 DEF TypeOK
<1>10. ASSUME NEW message \in to_clients, ReceiveAction(message.to, message.token)
       PROVE  TypeOK'
  <2> DEFINE c == message.to
             token == message.token
             action == server_actions[token + 1]
             frame == action.executed_input_id[c]
             passed == AtLeast(player_input[c], frame)
             taken == passed => frame \in frames[c]
             gone == WithoutOriginal(c, action)
  <2>1. c \in Clients /\ token \in Tokens /\ token \in Nat
    BY <1>1, TokenTypes DEF TypeOK
  <2>2. /\ heard' = [heard EXCEPT ![c] = @ \cup {token}]
        /\ snapshot_actions' = [snapshot_actions EXCEPT ![c] =
             IF ~taken THEN @
             ELSE WithoutOriginal(c, action)
                    \cup (IF passed THEN {ServerEntry(token, frame)} ELSE {})]
        /\ pending_actions' = [pending_actions EXCEPT ![c] =
             IF taken /\ (IsPutOff(action, c) => action.wait_server_validation)
             THEN @ \cup {token} ELSE @]
        /\ UNCHANGED <<serverVars, to_server, to_clients, playerVars, own_actions,
                       own_send_count, ran>>
    BY <1>10 DEF ReceiveAction
  <2> HIDE DEF action, frame, c, token
  <2>3. gone \subseteq snapshot_actions[c] /\ snapshot_actions[c] \subseteq Entry
    BY <1>1, <2>1 DEF TypeOK, WithoutOriginal
  <2>4. taken /\ passed => ServerEntry(token, frame) \in Entry
    <3>1. frames[c] \subseteq FrameOrNone
      BY <1>1, <2>1 DEF TypeOK, FrameOrNone
    <3> QED BY <2>1, <3>1 DEF ServerEntry, Entry
  <2> HIDE DEF passed, taken, gone
  <2>5. snapshot_actions' \in [Clients -> SUBSET Entry]
    BY <1>1, <2>1, <2>2, <2>3, <2>4 DEF TypeOK, gone
  <2>6. pending_actions' \in [Clients -> SUBSET Tokens] /\ heard' \in [Clients -> SUBSET Tokens]
    BY <1>1, <2>1, <2>2 DEF TypeOK
  <2> QED BY <1>1, <1>2, <2>2, <2>5, <2>6 DEF TypeOK
<1>11. ASSUME NEW c \in Clients, NEW frame \in FrameOrNone, NEW checked \in FrameOrNone,
              ClientTick(c, frame, checked)
       PROVE  TypeOK'
  <2> DEFINE isNew == frame /= player_input[c]
             stored == IF isNew THEN frames[c] \cup {frame} ELSE frames[c]
             news == IF isNew THEN {OwnEntry(token, frame) : token \in DueOwn(c, frame)} ELSE {}
             due == {ServerEntry(token, frame) : token \in DuePending(c, frame)}
             n == Len(own_actions[c])
  <2>1. /\ frame \in {player_input[c], player_input[c] + 1}
        /\ frame \in FramesOf(c) \cup {NoInput}
        /\ player_input' = [player_input EXCEPT ![c] = frame]
        /\ ran' = [ran EXCEPT ![c] = @ \cup news \cup due]
        /\ pending_actions' = [pending_actions EXCEPT ![c] = @ \ DuePending(c, frame)]
        /\ frames' = [frames EXCEPT ![c] = {f \in stored : f > checked}]
        /\ snapshot_actions' = [snapshot_actions EXCEPT ![c] =
             {e \in @ \cup news : e.frame > checked}]
        /\ SendToServer(c, own_actions[c], own_send_count[c], {})
        /\ UNCHANGED <<serverVars, to_clients, own_actions, heard>>
    BY <1>11 DEF ClientTick
  <2>2. player_input[c] \in FrameOrNone /\ own_actions[c] \in Seq(OwnAction) /\ n \in Nat
        /\ own_send_count[c] \in Seq(0 .. Redundancy) /\ Len(own_send_count[c]) = n
        /\ DOMAIN own_actions[c] = 1 .. n
    BY <1>1 DEF TypeOK
  <2>3. isNew => frame \in FrameIds
    <3>1. player_input[c] >= NoInput /\ player_input[c] \in Int
      BY <2>2, FrameValues
    <3>2. CASE frame \in FramesOf(c)
      BY <3>2, FrameTypes
    <3>3. CASE frame = NoInput
      BY <2>1, <3>1, <3>3, FrameTypes
    <3> QED BY <2>1, <3>2, <3>3
  <2>4. news \subseteq Entry
    <3>1. DueOwn(c, frame) \subseteq Nat
      BY <2>2 DEF DueOwn
    <3>2. \A token \in Nat : OwnEntry(token, frame) \in Entry
      BY DEF OwnEntry, Entry
    <3> QED BY <3>1, <3>2
  <2>5. due \subseteq Entry
    <3>1. DuePending(c, frame) \subseteq Nat
      <4>1. pending_actions[c] \subseteq Tokens
        BY <1>1 DEF TypeOK
      <4> QED BY <4>1, TokenTypes DEF DuePending
    <3>2. \A token \in Nat : ServerEntry(token, frame) \in Entry
      BY DEF ServerEntry, Entry
    <3> QED BY <3>1, <3>2
  <2>6. stored \subseteq FrameIds
    BY <1>1, <2>3 DEF TypeOK
  <2> HIDE DEF isNew, stored, news, due, n
  <2>7. own_send_count[c] \in [1 .. n -> 0 .. Redundancy]
    BY <2>2, CountsAreSequences
  <2>8. /\ own_send_count' \in [Clients -> Seq(0 .. Redundancy)]
        /\ Len(own_send_count'[c]) = n
        /\ \A d \in Clients : d /= c => own_send_count'[d] = own_send_count[d]
        /\ \A m \in to_server' : m \in to_server \/
             \E i \in 1 .. n :
               m = [from |-> c, token |-> i - 1,
                    wait_server_validation |-> own_actions[c][i].wait_server_validation,
                    executed_input_id |-> own_actions[c][i].executed_input_id]
    BY <1>1, <2>1, <2>2, <2>7, SendToServerSends DEF n
  <2>9. to_server' \subseteq [from : Triggerers, token : OwnTokens,
                              wait_server_validation : BOOLEAN, executed_input_id : FrameOrNone]
    <3> SUFFICES ASSUME NEW m \in to_server'
                 PROVE  m \in [from : Triggerers, token : OwnTokens,
                               wait_server_validation : BOOLEAN,
                               executed_input_id : FrameOrNone]
      OBVIOUS
    <3>1. CASE m \in to_server
      BY <1>1, <3>1 DEF TypeOK
    <3>2. ASSUME NEW i \in 1 .. n,
                 m = [from |-> c, token |-> i - 1,
                      wait_server_validation |-> own_actions[c][i].wait_server_validation,
                      executed_input_id |-> own_actions[c][i].executed_input_id]
          PROVE  m \in [from : Triggerers, token : OwnTokens,
                        wait_server_validation : BOOLEAN, executed_input_id : FrameOrNone]
      <4>1. c \in Triggerers /\ n <= MaxOwn
        BY <2>2, <3>2 DEF IInv, OwnAreBounded, n
      <4>2. i - 1 \in OwnTokens
        BY <2>2, <4>1, ActionBoundsAssumption DEF OwnTokens
      <4>3. own_actions[c][i] \in OwnAction
        BY <2>2
      <4> QED BY <3>2, <4>1, <4>2, <4>3 DEF OwnAction
    <3> QED BY <2>8, <3>1, <3>2
  <2>10. \A d \in Clients : Len(own_send_count'[d]) = Len(own_actions'[d])
    BY <1>1, <2>1, <2>8 DEF TypeOK, n
  <2>11. /\ player_input' \in [Clients -> FrameOrNone] /\ frames' \in [Clients -> SUBSET FrameIds]
         /\ pending_actions' \in [Clients -> SUBSET Tokens]
    BY <1>1, <2>1, <2>6 DEF TypeOK
  <2>12. ran' \in [Clients -> SUBSET Entry] /\ snapshot_actions' \in [Clients -> SUBSET Entry]
    BY <1>1, <2>1, <2>4, <2>5 DEF TypeOK
  <2> QED BY <1>1, <1>2, <2>1, <2>8, <2>9, <2>10, <2>11, <2>12 DEF TypeOK
<1>12. CASE UNCHANGED vars
  BY <1>1, <1>2, <1>12 DEF vars, TypeOK
<1> QED BY <1>5, <1>6, <1>7, <1>8, <1>9, <1>10, <1>11, <1>12 DEF Next

-----------------------------------------------------------------------------
(***************************************************************************)
(* What is sent, and what a client hears.                                  *)
(***************************************************************************)
LEMMA OwnBoundStep ==
  ASSUME IInv, [Next]_vars
  PROVE  OwnAreBounded'
<1> USE DEF actionVars, serverVars, playerVars, clientVars
<1>1. TypeOK /\ OwnAreBounded /\ own_actions \in [Clients -> Seq(OwnAction)]
  BY DEF IInv, TypeOK
<1>2. ASSUME NEW c \in Triggerers, NEW wait \in BOOLEAN, ClientTrigger(c, wait)
      PROVE  OwnAreBounded'
  <2>1. PICK action \in OwnAction :
          /\ c \in Clients /\ Len(own_actions'[c]) = Len(own_actions[c]) + 1
          /\ own_actions' = [own_actions EXCEPT ![c] = Append(own_actions[c], action)]
          /\ Len(own_actions[c]) + 1 <= MaxOwn
    BY <1>1, <1>2, TriggerAdds
  <2>2. \A d \in Clients : d /= c => own_actions'[d] = own_actions[d]
    BY <1>1, <2>1
  <2> QED BY <1>1, <2>1, <2>2 DEF OwnAreBounded
<1>3. ASSUME UNCHANGED own_actions
      PROVE  OwnAreBounded'
  BY <1>1, <1>3 DEF OwnAreBounded
<1> QED BY <1>2, <1>3 DEF Next, vars, ServerTrigger, AcceptAction, RejectAction, ServerTick,
                          ReceiveAction, ClientTick

LEMMA SentStep ==
  ASSUME IInv, [Next]_vars
  PROVE  SentAreIssued'
<1> USE DEF actionVars, serverVars, playerVars, clientVars
<1>1. /\ TypeOK /\ SentAreIssued
      /\ \A i \in DOMAIN server_actions : i \in DOMAIN server_actions'
  BY ActionsGrow DEF IInv
<1>2. ASSUME \A m \in to_clients' : m \in to_clients \/
               \E c \in Clients, i \in DOMAIN server_actions' : m = [to |-> c, token |-> i - 1]
      PROVE  SentAreIssued'
  <2> SUFFICES ASSUME NEW m \in to_clients'
               PROVE  m.token + 1 \in DOMAIN server_actions'
    BY DEF SentAreIssued
  <2>1. CASE m \in to_clients
    BY <1>1, <2>1 DEF SentAreIssued
  <2>2. ASSUME NEW c \in Clients, NEW i \in DOMAIN server_actions',
               m = [to |-> c, token |-> i - 1]
        PROVE  m.token + 1 \in DOMAIN server_actions'
    <3>1. i \in Nat
      BY <1>1, ActionsGrow
    <3> QED BY <2>2, <3>1
  <2> QED BY <1>2, <2>1, <2>2
<1>3. ASSUME UNCHANGED to_clients
      PROVE  SentAreIssued'
  BY <1>1, <1>3 DEF SentAreIssued
<1>4. ASSUME NEW recipients \in Recipients, ServerTrigger(recipients)
      PROVE  SentAreIssued'
  <2> DEFINE a == [sender |-> Server, triggerer_action_token |-> Len(server_actions),
                   wait_server_validation |-> FALSE, recipients |-> recipients,
                   executed_input_id |-> peers_next_action_trigger_input_id,
                   sender_executed_time_changed |-> FALSE]
  <2>1. a \in ServerAction /\ Issue(a)
    BY <1>1, <1>4, TriggeredType DEF ServerTrigger
  <2> HIDE DEF a
  <2> QED BY <1>1, <1>2, <2>1, IssueSends
<1>5. ASSUME NEW message \in to_server, AcceptAction(message)
      PROVE  SentAreIssued'
  BY <1>1, <1>2, <1>5, AcceptIssues, AcceptedType, IssueSends
<1>6. ASSUME NEW message \in to_server, RejectAction(message)
      PROVE  SentAreIssued'
  BY <1>1, <1>2, <1>6, RejectSends DEF RejectAction
<1> QED BY <1>3, <1>4, <1>5, <1>6 DEF Next, vars, ServerTick, ClientTrigger, ReceiveAction,
                                     ClientTick

\* A client takes an action of the server it has not heard of.
LEMMA ReceivedIsNew ==
  ASSUME IInv, NEW c \in Clients, NEW token \in Tokens, ReceiveAction(c, token)
  PROVE  token \notin heard[c] /\ token \notin pending_actions[c]
         /\ (\A e \in ran[c] \cup snapshot_actions[c] : ~e.own => e.token /= token)
         /\ IsKnown(server_sender_info'[c], token)
<1>1. ~IsKnown(server_sender_info[c], token)
      /\ server_sender_info' = [server_sender_info EXCEPT ![c] = Noted(@, token)]
  BY DEF ReceiveAction
<1>2. server_sender_info \in [Clients -> Info] /\ InfoIsOrdered(server_sender_info[c])
  BY DEF IInv, TypeOK, InfosAreOrdered
<1>3. IsKnown(Noted(server_sender_info[c], token), token)
  BY <1>1, <1>2, NotedKnows
<1>4. token \notin heard[c]
  BY <1>1 DEF IInv, HeardAreKnown
<1> QED BY <1>1, <1>2, <1>3, <1>4 DEF IInv, HeardAreKnown

LEMMA HeardStep ==
  ASSUME IInv, [Next]_vars
  PROVE  HeardAreKnown' /\ ExecutedOnce'
<1> USE DEF actionVars, serverVars, playerVars, clientVars
<1>1. TypeOK /\ HeardAreKnown /\ ExecutedOnce /\ SentAreIssued
  BY DEF IInv
<1>2. \A i \in DOMAIN server_actions :
        i \in DOMAIN server_actions' /\ server_actions'[i] = server_actions[i]
  BY <1>1, ActionsGrow
<1>3. ASSUME NEW c \in Clients, NEW token \in heard[c]
      PROVE  /\ token + 1 \in DOMAIN server_actions /\ token + 1 \in DOMAIN server_actions'
             /\ server_actions'[token + 1] = server_actions[token + 1]
             /\ IsKnown(server_sender_info'[c], token)
  <2>1. token \in Nat
    BY <1>1, TokenTypes DEF TypeOK
  <2> QED BY <1>1, <1>2, <2>1, InfosStep DEF IInv, HeardAreKnown
<1>4. ASSUME NEW c \in Clients,
             heard'[c] = heard[c], pending_actions'[c] = pending_actions[c],
             ran'[c] = ran[c], snapshot_actions'[c] = snapshot_actions[c]
      PROVE  /\ \A token \in heard'[c] :
                  token + 1 \in DOMAIN server_actions' /\ IsKnown(server_sender_info'[c], token)
             /\ pending_actions'[c] \subseteq heard'[c]
             /\ \A e \in ran'[c] : ~e.own => e.token \in heard'[c]
             /\ \A e \in snapshot_actions'[c] : ~e.own =>
                  e.token \in heard'[c]
                  /\ e.frame = server_actions'[e.token + 1].executed_input_id[c]
             /\ \A e \in ran'[c] : ~e.own => e.token \notin pending_actions'[c]
  BY <1>1, <1>3, <1>4 DEF HeardAreKnown, ExecutedOnce
<1>5. ASSUME UNCHANGED <<heard, pending_actions, ran, snapshot_actions>>
      PROVE  HeardAreKnown' /\ ExecutedOnce'
  BY <1>4, <1>5 DEF HeardAreKnown, ExecutedOnce
<1>6. ASSUME NEW message \in to_clients, ReceiveAction(message.to, message.token)
      PROVE  HeardAreKnown' /\ ExecutedOnce'
  <2> DEFINE c == message.to
             token == message.token
             action == server_actions[token + 1]
             frame == action.executed_input_id[c]
             passed == AtLeast(player_input[c], frame)
             taken == passed => frame \in frames[c]
  <2>1. c \in Clients /\ token \in Tokens /\ token + 1 \in DOMAIN server_actions
    BY <1>1 DEF TypeOK, SentAreIssued
  <2>2. /\ heard' = [heard EXCEPT ![c] = @ \cup {token}]
        /\ snapshot_actions' = [snapshot_actions EXCEPT ![c] =
             IF ~taken THEN @
             ELSE WithoutOriginal(c, action)
                    \cup (IF passed THEN {ServerEntry(token, frame)} ELSE {})]
        /\ pending_actions' = [pending_actions EXCEPT ![c] =
             IF taken /\ (IsPutOff(action, c) => action.wait_server_validation)
             THEN @ \cup {token} ELSE @]
        /\ UNCHANGED <<server_actions, ran>>
    BY <1>6 DEF ReceiveAction
  <2>3. /\ heard \in [Clients -> SUBSET Tokens] /\ pending_actions \in [Clients -> SUBSET Tokens]
        /\ snapshot_actions \in [Clients -> SUBSET Entry]
    BY <1>1 DEF TypeOK
  <2>4. /\ \A e \in ran[c] : ~e.own => e.token /= token
        /\ IsKnown(server_sender_info'[c], token)
    BY <1>6, <2>1, ReceivedIsNew
  <2> HIDE DEF c, token, passed, taken
  <2>5. /\ heard'[c] = heard[c] \cup {token}
        /\ pending_actions'[c] \subseteq pending_actions[c] \cup {token}
        /\ snapshot_actions'[c] \subseteq snapshot_actions[c] \cup {ServerEntry(token, frame)}
    BY <2>1, <2>2, <2>3 DEF WithoutOriginal
  <2>6. ServerEntry(token, frame).token = token
        /\ ServerEntry(token, frame).frame = server_actions[token + 1].executed_input_id[c]
    BY DEF ServerEntry
  <2>7. \A d \in Clients : d /= c =>
          /\ heard'[d] = heard[d] /\ pending_actions'[d] = pending_actions[d]
          /\ ran'[d] = ran[d] /\ snapshot_actions'[d] = snapshot_actions[d]
    BY <2>2, <2>3
  <2> HIDE DEF action, frame
  <2>8. /\ \A t \in heard'[c] :
             t + 1 \in DOMAIN server_actions' /\ IsKnown(server_sender_info'[c], t)
        /\ pending_actions'[c] \subseteq heard'[c]
    BY <1>1, <1>3, <2>1, <2>2, <2>4, <2>5 DEF HeardAreKnown
  <2>9. \A e \in snapshot_actions'[c] : ~e.own =>
          e.token \in heard'[c] /\ e.frame = server_actions'[e.token + 1].executed_input_id[c]
    BY <1>1, <2>1, <2>2, <2>5, <2>6 DEF HeardAreKnown
  <2>10. \A e \in ran'[c] : ~e.own => e.token \in heard'[c] /\ e.token \notin pending_actions'[c]
    BY <1>1, <2>1, <2>2, <2>4, <2>5 DEF HeardAreKnown, ExecutedOnce
  <2> QED BY <1>4, <2>7, <2>8, <2>9, <2>10 DEF HeardAreKnown, ExecutedOnce
<1>7. ASSUME NEW c \in Clients, NEW frame \in FrameOrNone, NEW checked \in FrameOrNone,
             ClientTick(c, frame, checked)
      PROVE  HeardAreKnown' /\ ExecutedOnce'
  <2> DEFINE isNew == frame /= player_input[c]
             news == IF isNew THEN {OwnEntry(token, frame) : token \in DueOwn(c, frame)} ELSE {}
             due == {ServerEntry(token, frame) : token \in DuePending(c, frame)}
  <2>1. /\ ran' = [ran EXCEPT ![c] = @ \cup news \cup due]
        /\ pending_actions' = [pending_actions EXCEPT ![c] = @ \ DuePending(c, frame)]
        /\ snapshot_actions' = [snapshot_actions EXCEPT ![c] =
             {e \in @ \cup news : e.frame > checked}]
        /\ UNCHANGED <<server_actions, heard>>
    BY <1>7 DEF ClientTick
  <2>2. \A e \in news : e.own
    BY DEF OwnEntry
  <2>3. \A e \in due : e.token \in DuePending(c, frame)
    BY DEF ServerEntry
  <2>4. DuePending(c, frame) \subseteq pending_actions[c]
    BY DEF DuePending
  <2>5. /\ ran \in [Clients -> SUBSET Entry] /\ pending_actions \in [Clients -> SUBSET Tokens]
        /\ snapshot_actions \in [Clients -> SUBSET Entry]
    BY <1>1 DEF TypeOK
  <2> HIDE DEF news, due
  <2>6. /\ ran'[c] = ran[c] \cup news \cup due
        /\ pending_actions'[c] = pending_actions[c] \ DuePending(c, frame)
        /\ snapshot_actions'[c] \subseteq snapshot_actions[c] \cup news
    BY <2>1, <2>5
  <2>7. \A d \in Clients : d /= c =>
          /\ heard'[d] = heard[d] /\ pending_actions'[d] = pending_actions[d]
          /\ ran'[d] = ran[d] /\ snapshot_actions'[d] = snapshot_actions[d]
    BY <2>1, <2>5
  <2>8. /\ \A t \in heard'[c] :
             t + 1 \in DOMAIN server_actions' /\ IsKnown(server_sender_info'[c], t)
        /\ pending_actions'[c] \subseteq heard'[c]
    BY <1>1, <1>3, <2>1, <2>6 DEF HeardAreKnown
  <2>9. \A e \in snapshot_actions'[c] : ~e.own =>
          e.token \in heard'[c] /\ e.frame = server_actions'[e.token + 1].executed_input_id[c]
    BY <1>1, <2>1, <2>2, <2>6 DEF HeardAreKnown
  <2>10. \A e \in ran'[c] : ~e.own => e.token \in heard'[c] /\ e.token \notin pending_actions'[c]
    <3>1. DuePending(c, frame) \subseteq heard[c]
      BY <1>1, <2>4 DEF HeardAreKnown
    <3> QED BY <1>1, <2>1, <2>2, <2>3, <2>6, <3>1 DEF HeardAreKnown, ExecutedOnce
  <2> QED BY <1>4, <2>7, <2>8, <2>9, <2>10 DEF HeardAreKnown, ExecutedOnce
<1> QED BY <1>5, <1>6, <1>7 DEF Next, vars, ServerTrigger, AcceptAction, RejectAction,
                                 ServerTick, ClientTrigger

-----------------------------------------------------------------------------
(***************************************************************************)
(* The frames.                                                             *)
(***************************************************************************)
LEMMA FollowStep ==
  ASSUME IInv, [Next]_vars
  PROVE  NextFollows'
<1> USE DEF actionVars, serverVars, playerVars, clientVars
<1>1. TypeOK /\ NextFollows
      /\ \A c \in Clients : /\ server_input[c] \in FrameOrNone /\ player_input[c] \in FrameOrNone
                            /\ server_input[c] \in Int /\ player_input[c] \in Int
                            /\ server_input[c] >= NoInput
  BY FrameValues DEF IInv, TypeOK
<1>2. \A c \in Clients : player_input[c] <= player_input'[c] /\ player_input'[c] \in Int
  <2>1. \A c \in Clients : player_input[c] <= player_input'[c]
    BY <1>1, ClientsGrow
  <2>2. player_input' \in [Clients -> FrameOrNone]
    BY TypeStep DEF TypeOK
  <2> QED BY <2>1, <2>2, FrameValues
<1>3. ASSUME UNCHANGED <<server_input, peers_next_action_trigger_input_id>>
      PROVE  NextFollows'
  BY <1>1, <1>2, <1>3 DEF NextFollows
<1>4. ASSUME NEW input \in [Clients -> FrameOrNone], ServerTick(input)
      PROVE  NextFollows'
  <2>1. /\ \A c \in Clients :
             input[c] = server_input[c] \/ input[c] \in server_input[c] + 1 .. player_input[c]
        /\ server_input' = input
        /\ peers_next_action_trigger_input_id' =
             [c \in Clients |-> IF input[c] = NoInput THEN peers_next_action_trigger_input_id[c]
                                ELSE input[c] + 1]
        /\ UNCHANGED player_input
    BY <1>4 DEF ServerTick
  <2> SUFFICES ASSUME NEW c \in Clients
               PROVE  /\ input[c] <= player_input[c]
                      /\ peers_next_action_trigger_input_id'[c] =
                           IF input[c] = NoInput THEN NoInput ELSE input[c] + 1
    BY <2>1 DEF NextFollows
  <2>2. input[c] <= player_input[c]
    BY <1>1, <2>1 DEF NextFollows
  <2>3. input[c] = NoInput => server_input[c] = NoInput
    BY <1>1, <2>1, FrameTypes
  <2> QED BY <1>1, <2>1, <2>2, <2>3 DEF NextFollows
<1> QED BY <1>3, <1>4 DEF Next, vars, ServerTrigger, AcceptAction, RejectAction, ClientTrigger,
                          ReceiveAction, ClientTick

\* A frame the server gives an action is to come, or none.
LEMMA ScheduledAhead ==
  ASSUME IInv, NEW message \in to_server
  PROVE  LET at == Accepted(message).executed_input_id[message.from]
             input == server_input[message.from]
         IN  input = NoInput \/ at = NoInput \/ input < at
<1> DEFINE c == message.from
           input == server_input[c]
           next == peers_next_action_trigger_input_id[c]
           own == message.executed_input_id
<1>1. c \in Clients
  BY AcceptedType DEF IInv
<1>2. input \in Int /\ input >= -1 /\ next = IF input = NoInput THEN NoInput ELSE input + 1
  BY <1>1, FrameValues DEF IInv, TypeOK, NextFollows
<1>3. own \in Int
  BY FrameValues DEF IInv, TypeOK
<1>4. CASE IsLate(message)
  <2>1. Accepted(message).executed_input_id = Rescheduled(message)
    BY <1>4 DEF Accepted, Received
  <2>2. Rescheduled(message)[c] = IF next = NoInput THEN own ELSE next
    BY <1>1 DEF Rescheduled
  <2>3. input = NoInput \/ input < Rescheduled(message)[c]
    <3> HIDE DEF input, next
    <3> QED BY <1>2, <2>2 DEF NoInput
  <2> QED BY <2>1, <2>3
<1>5. CASE ~IsLate(message)
  <2>1. Accepted(message).executed_input_id = InStep(message)
    BY <1>5 DEF Accepted, Received
  <2>2. InStep(message)[c] = own
    BY <1>1 DEF InStep
  <2>3. input = NoInput \/ own = NoInput \/ input < own
    BY <1>2, <1>3, <1>5 DEF IsLate, AtLeast
  <2> QED BY <2>1, <2>2, <2>3
<1> QED BY <1>4, <1>5

LEMMA NeverTooLateStep ==
  ASSUME IInv, [Next]_vars
  PROVE  NeverTooLate'
<1> USE DEF actionVars, serverVars, playerVars, clientVars
<1> DEFINE n == Len(server_actions)
           Ahead(action, input) ==
             \/ input[Reference(action)] = NoInput \/ ReferenceFrame(action) = NoInput
             \/ input[Reference(action)] < ReferenceFrame(action)
<1>1. /\ TypeOK /\ NextFollows /\ n \in Nat /\ DOMAIN server_actions = 1 .. n
      /\ \A i \in 1 .. n : i - 1 \notin locally_executed => Ahead(server_actions[i], server_input)
  BY DEF IInv, TypeOK, NeverTooLate
<1>2. ASSUME NEW a \in ServerAction, Issue(a), Ahead(a, server_input),
             UNCHANGED <<server_input, locally_executed>>
      PROVE  NeverTooLate'
  <2>1. /\ DOMAIN server_actions' = 1 .. n + 1 /\ server_actions'[n + 1] = a
        /\ \A i \in 1 .. n : server_actions'[i] = server_actions[i]
    BY <1>1, <1>2, IssueSends
  <2> SUFFICES ASSUME NEW i \in 1 .. n + 1, i - 1 \notin locally_executed
               PROVE  Ahead(server_actions'[i], server_input)
    BY <1>2, <2>1 DEF NeverTooLate, Reference, ReferenceFrame
  <2> HIDE DEF Ahead, n
  <2>2. i \in 1 .. n \/ i = n + 1
    BY <1>1
  <2> QED BY <1>1, <1>2, <2>1, <2>2
<1>3. ASSUME UNCHANGED <<server_actions, server_input, locally_executed>>
      PROVE  NeverTooLate'
  BY <1>3 DEF IInv, NeverTooLate, Reference, ReferenceFrame
<1>4. ASSUME NEW recipients \in Recipients, ServerTrigger(recipients)
      PROVE  NeverTooLate'
  <2> DEFINE a == [sender |-> Server, triggerer_action_token |-> Len(server_actions),
                   wait_server_validation |-> FALSE, recipients |-> recipients,
                   executed_input_id |-> peers_next_action_trigger_input_id,
                   sender_executed_time_changed |-> FALSE]
  <2>1. a \in ServerAction /\ Issue(a)
        /\ a.executed_input_id = peers_next_action_trigger_input_id /\ a.sender = Server
        /\ UNCHANGED <<server_input, locally_executed>>
    BY <1>1, <1>4, TriggeredType DEF ServerTrigger
  <2> HIDE DEF a
  <2>2. Ahead(a, server_input)
    <3> DEFINE c == CHOOSE d \in Clients : TRUE
    <3>1. c \in Clients /\ Reference(a) = c
      BY <2>1, ClientsAssumption DEF Reference
    <3> HIDE DEF c
    <3>2. server_input[c] \in Int
      BY <1>1, <3>1, FrameValues DEF TypeOK
    <3> QED BY <1>1, <2>1, <3>1, <3>2 DEF NextFollows, ReferenceFrame
  <2> QED BY <1>2, <2>1, <2>2
<1>5. ASSUME NEW message \in to_server, AcceptAction(message)
      PROVE  NeverTooLate'
  <2>1. /\ Accepted(message) \in ServerAction /\ Issue(Accepted(message))
        /\ Reference(Accepted(message)) = message.from
        /\ UNCHANGED <<server_input, locally_executed>>
    BY <1>1, <1>5, AcceptIssues, AcceptedType DEF AcceptAction, Reference
  <2>2. Ahead(Accepted(message), server_input)
    BY <2>1, ScheduledAhead DEF ReferenceFrame
  <2> QED BY <1>2, <2>1, <2>2
<1>6. ASSUME NEW message \in to_server, RejectAction(message)
      PROVE  NeverTooLate'
  BY <1>1, <1>3, <1>6, RejectSends DEF RejectAction
<1>7. ASSUME NEW input \in [Clients -> FrameOrNone], ServerTick(input)
      PROVE  NeverTooLate'
  <2>1. /\ server_input' = input /\ locally_executed' = locally_executed \cup DueOnServer(input)
        /\ UNCHANGED server_actions
    BY <1>7 DEF ServerTick
  <2>9. NeverTooLate' <=> \A i \in DOMAIN server_actions' :
          i - 1 \notin locally_executed' => Ahead(server_actions'[i], server_input')
    BY DEF NeverTooLate, Reference, ReferenceFrame
  <2> SUFFICES ASSUME NEW i \in 1 .. n, i - 1 \notin DueOnServer(input)
               PROVE  Ahead(server_actions[i], input)
    <3> HIDE DEF Ahead
    <3> QED BY <1>1, <2>1, <2>9
  <2> DEFINE action == server_actions[i]
             c == Reference(action)
             at == ReferenceFrame(action)
  <2>2. ~(at = NoInput \/ AtLeast(input[c], at))
    BY <1>1 DEF DueOnServer
  <2>3. action \in ServerAction
    BY <1>1 DEF TypeOK
  <2>4. c \in Clients
    BY <2>3, ClientsAssumption DEF Reference, ServerAction
  <2>5. at \in Int
    BY <2>3, <2>4 DEF ReferenceFrame, ServerAction
  <2>6. input[c] \in Int
    BY <2>4, FrameValues
  <2> HIDE DEF action, c, at
  <2>7. input[c] < at
    BY <2>2, <2>5, <2>6 DEF AtLeast
  <2> QED BY <2>7 DEF action, c, at
<1> QED BY <1>3, <1>4, <1>5, <1>6, <1>7 DEF Next, vars, ClientTrigger, ReceiveAction, ClientTick

LEMMA FramesStep ==
  ASSUME IInv, [Next]_vars
  PROVE  FramesAreLatest'
<1> USE DEF actionVars, serverVars, playerVars, clientVars
<1>1. TypeOK /\ FramesAreLatest
  BY DEF IInv
<1>2. ASSUME UNCHANGED playerVars
      PROVE  FramesAreLatest'
  BY <1>1, <1>2 DEF FramesAreLatest
<1>3. ASSUME NEW c \in Clients, NEW frame \in FrameOrNone, NEW checked \in FrameOrNone,
             ClientTick(c, frame, checked)
      PROVE  FramesAreLatest'
  <2> DEFINE isNew == frame /= player_input[c]
             stored == IF isNew THEN frames[c] \cup {frame} ELSE frames[c]
  <2>1. /\ frame \in {player_input[c], player_input[c] + 1}
        /\ player_input' = [player_input EXCEPT ![c] = frame]
        /\ frames' = [frames EXCEPT ![c] = {f \in stored : f > checked}]
    BY <1>3 DEF ClientTick
  <2>2. /\ player_input \in [Clients -> FrameOrNone] /\ frames \in [Clients -> SUBSET FrameIds]
        /\ player_input[c] \in Int /\ frames[c] \subseteq Int /\ checked \in Int
    <3>1. /\ player_input \in [Clients -> FrameOrNone] /\ frames \in [Clients -> SUBSET FrameIds]
      BY <1>1 DEF TypeOK
    <3>2. frames[c] \subseteq FrameOrNone /\ player_input[c] \in FrameOrNone
      BY <3>1 DEF FrameOrNone
    <3> QED BY <3>1, <3>2, FrameValues
  <2>3. player_input'[c] = frame /\ frames'[c] = {f \in stored : f > checked}
        /\ \A d \in Clients : d /= c => player_input'[d] = player_input[d]
                                       /\ frames'[d] = frames[d]
    BY <2>1, <2>2
  <2>4. ASSUME NEW f \in stored
        PROVE  f \in Int /\ f <= frame /\ \A g \in f .. frame : g \in stored
    <3>1. CASE f \in frames[c]
      BY <1>1, <2>1, <2>2, <3>1 DEF FramesAreLatest
    <3>2. CASE isNew /\ f = frame
      BY <2>1, <2>2, <3>2
    <3> QED BY <2>4, <3>1, <3>2
  <2> HIDE DEF isNew, stored
  <2>5. \A f \in frames'[c] : f <= player_input'[c] /\ \A g \in f .. player_input'[c] : g \in frames'[c]
    BY <2>2, <2>3, <2>4
  <2> QED BY <1>1, <2>3, <2>5 DEF FramesAreLatest
<1> QED BY <1>2, <1>3 DEF Next, vars, ServerTrigger, AcceptAction, RejectAction, ServerTick,
                          ClientTrigger, ReceiveAction

-----------------------------------------------------------------------------
(***************************************************************************)
(* A client's own actions.                                                 *)
(***************************************************************************)
LEMMA SentOwnStep ==
  ASSUME IInv, [Next]_vars
  PROVE  SentAreOwn'
<1> USE DEF actionVars, serverVars, playerVars, clientVars
<1>1. TypeOK /\ SentAreOwn /\ own_actions \in [Clients -> Seq(OwnAction)]
  BY DEF IInv, TypeOK
<1>2. \A c \in Clients : \A i \in DOMAIN own_actions[c] :
        i \in DOMAIN own_actions'[c] /\ own_actions'[c][i] = own_actions[c][i]
  BY <1>1, ClientsGrow
<1>3. \A m \in to_server : m.from \in Clients
  BY <1>1, AcceptedType
<1>4. ASSUME NEW c \in Clients, NEW n \in Nat, DOMAIN own_actions'[c] = 1 .. n,
             \A m \in to_server' : m \in to_server \/
               \E i \in 1 .. n :
                 m = [from |-> c, token |-> i - 1,
                      wait_server_validation |-> own_actions'[c][i].wait_server_validation,
                      executed_input_id |-> own_actions'[c][i].executed_input_id]
      PROVE  SentAreOwn'
  <2> SUFFICES ASSUME NEW m \in to_server'
               PROVE  LET own == own_actions'[m.from][m.token + 1]
                      IN  /\ m.token + 1 \in DOMAIN own_actions'[m.from]
                          /\ m.wait_server_validation = own.wait_server_validation
                          /\ m.executed_input_id = own.executed_input_id
    BY DEF SentAreOwn
  <2>1. CASE m \in to_server
    BY <1>1, <1>2, <1>3, <2>1 DEF SentAreOwn
  <2>2. ASSUME NEW i \in 1 .. n,
               m = [from |-> c, token |-> i - 1,
                    wait_server_validation |-> own_actions'[c][i].wait_server_validation,
                    executed_input_id |-> own_actions'[c][i].executed_input_id]
        PROVE  LET own == own_actions'[m.from][m.token + 1]
               IN  /\ m.token + 1 \in DOMAIN own_actions'[m.from]
                   /\ m.wait_server_validation = own.wait_server_validation
                   /\ m.executed_input_id = own.executed_input_id
    <3>1. m.token + 1 = i
      BY <2>2
    <3> QED BY <1>4, <2>2, <3>1
  <2> QED BY <1>4, <2>1, <2>2
<1>5. ASSUME NEW c \in Triggerers, NEW wait \in BOOLEAN, ClientTrigger(c, wait)
      PROVE  SentAreOwn'
  <2> DEFINE n == Len(own_actions[c])
  <2>1. /\ c \in Clients /\ own_actions'[c] \in Seq(OwnAction) /\ n \in Nat
        /\ Len(own_actions'[c]) = n + 1 /\ DOMAIN own_actions'[c] = 1 .. n + 1
        /\ SendToServer(c, own_actions'[c], Append(own_send_count[c], 0),
                        {Len(own_actions'[c])})
    BY <1>1, <1>5, TriggerAdds
  <2>2. own_send_count[c] \in Seq(0 .. Redundancy) /\ Len(own_send_count[c]) = n
    BY <1>1, <2>1 DEF TypeOK
  <2> HIDE DEF n
  <2>3. Append(own_send_count[c], 0) \in [1 .. n + 1 -> 0 .. Redundancy] /\ n + 1 \in Nat
    <3>1. own_send_count[c] \in [1 .. n -> 0 .. Redundancy] /\ n + 1 \in Nat
      BY <2>1, <2>2, CountsAreSequences
    <3> QED BY <2>1, <3>1, CountsAppend
  <2>4. \A m \in to_server' : m \in to_server \/
          \E i \in 1 .. n + 1 :
            m = [from |-> c, token |-> i - 1,
                 wait_server_validation |-> own_actions'[c][i].wait_server_validation,
                 executed_input_id |-> own_actions'[c][i].executed_input_id]
    BY <1>1, <2>1, <2>3, SendToServerSends
  <2> QED BY <1>4, <2>1, <2>3, <2>4
<1>6. ASSUME NEW c \in Clients, NEW frame \in FrameOrNone, NEW checked \in FrameOrNone,
             ClientTick(c, frame, checked)
      PROVE  SentAreOwn'
  <2> DEFINE n == Len(own_actions[c])
  <2>1. SendToServer(c, own_actions[c], own_send_count[c], {}) /\ UNCHANGED own_actions
    BY <1>6 DEF ClientTick
  <2>2. /\ own_actions[c] \in Seq(OwnAction) /\ n \in Nat /\ DOMAIN own_actions[c] = 1 .. n
        /\ own_send_count[c] \in Seq(0 .. Redundancy) /\ Len(own_send_count[c]) = n
    BY <1>1 DEF TypeOK
  <2>3. own_send_count[c] \in [1 .. n -> 0 .. Redundancy]
    <3> HIDE DEF n
    <3> QED BY <2>2, CountsAreSequences
  <2>4. \A m \in to_server' : m \in to_server \/
          \E i \in 1 .. n :
            m = [from |-> c, token |-> i - 1,
                 wait_server_validation |-> own_actions[c][i].wait_server_validation,
                 executed_input_id |-> own_actions[c][i].executed_input_id]
    BY <1>1, <2>1, <2>2, <2>3, SendToServerSends
  <2> HIDE DEF n
  <2> QED BY <1>4, <2>1, <2>2, <2>4
<1>7. ASSUME UNCHANGED <<to_server, own_actions>>
      PROVE  SentAreOwn'
  BY <1>1, <1>7 DEF SentAreOwn
<1> QED BY <1>5, <1>6, <1>7 DEF Next, vars, ServerTrigger, AcceptAction, RejectAction, ServerTick,
                                ReceiveAction

\* What AcceptedAreOwn says of an action of a client.
IsOwnOf(action, c, own, played) ==
  /\ action.triggerer_action_token + 1 \in DOMAIN own
  /\ ~own[action.triggerer_action_token + 1].wait_server_validation =>
       \/ action.executed_input_id[c] = own[action.triggerer_action_token + 1].executed_input_id
       \/ /\ action.executed_input_id[c] > own[action.triggerer_action_token + 1].executed_input_id
          /\ played >= own[action.triggerer_action_token + 1].executed_input_id

LEMMA AcceptedIsOwn ==
  ASSUME IInv, NEW message \in to_server
  PROVE  IsOwnOf(Accepted(message), message.from, own_actions[message.from],
                 player_input[message.from])
<1> DEFINE c == message.from
           token == message.token
           at == Accepted(message).executed_input_id[c]
           input == server_input[c]
           next == peers_next_action_trigger_input_id[c]
           own == message.executed_input_id
<1>1. /\ c \in Clients /\ Accepted(message).triggerer_action_token = token
  BY AcceptedType DEF IInv
<1>2. /\ token + 1 \in DOMAIN own_actions[c]
      /\ message.wait_server_validation = own_actions[c][token + 1].wait_server_validation
      /\ own = own_actions[c][token + 1].executed_input_id
  BY DEF IInv, SentAreOwn
<1>3. input \in Int /\ player_input[c] \in Int /\ own \in Int
      /\ input >= -1 /\ input <= player_input[c]
      /\ next = IF input = NoInput THEN NoInput ELSE input + 1
  BY <1>1, FrameValues DEF IInv, TypeOK, NextFollows
<1>4. ASSUME ~message.wait_server_validation
      PROVE  at = own \/ (at > own /\ player_input[c] >= own)
  <2>1. CASE IsLate(message)
    <3>1. Accepted(message).executed_input_id = Rescheduled(message)
      BY <2>1 DEF Accepted, Received
    <3>2. Rescheduled(message)[c] = IF next = NoInput THEN own ELSE next
      BY <1>1 DEF Rescheduled
    <3>3. AtLeast(input, own)
      BY <1>4, <2>1 DEF IsLate
    <3>4. at = IF next = NoInput THEN own ELSE next
      BY <3>1, <3>2
    <3> HIDE DEF at, own, input, next
    <3> QED BY <1>3, <3>3, <3>4 DEF AtLeast, NoInput
  <2>2. CASE ~IsLate(message)
    <3>1. Accepted(message).executed_input_id = InStep(message)
      BY <2>2 DEF Accepted, Received
    <3>2. InStep(message)[c] = own
      BY <1>1 DEF InStep
    <3> QED BY <3>1, <3>2
  <2> QED BY <2>1, <2>2
<1> QED BY <1>1, <1>2, <1>4 DEF IsOwnOf

LEMMA AcceptedStep ==
  ASSUME IInv, [Next]_vars
  PROVE  AcceptedAreOwn'
<1> USE DEF actionVars, serverVars, playerVars, clientVars
<1> DEFINE n == Len(server_actions)
<1>1. /\ TypeOK /\ n \in Nat /\ DOMAIN server_actions = 1 .. n
      /\ own_actions \in [Clients -> Seq(OwnAction)]
  BY DEF IInv, TypeOK
<1>2. ASSUME NEW c \in Clients, NEW action, IsOwnOf(action, c, own_actions[c], player_input[c])
      PROVE  IsOwnOf(action, c, own_actions'[c], player_input'[c])
  <2> DEFINE i == action.triggerer_action_token + 1
  <2>1. /\ i \in DOMAIN own_actions'[c] /\ own_actions'[c][i] = own_actions[c][i]
        /\ player_input[c] <= player_input'[c]
    BY <1>1, <1>2, ClientsGrow DEF IsOwnOf
  <2>2. own_actions[c][i].executed_input_id \in Int
    <3>1. own_actions[c][i] \in OwnAction
      BY <1>1, <1>2 DEF IsOwnOf
    <3> QED BY <3>1, FrameValues DEF OwnAction
  <2>3. player_input[c] \in Int /\ player_input'[c] \in Int
    <3>1. player_input[c] \in FrameOrNone /\ player_input'[c] \in FrameOrNone
      BY <1>1, TypeStep DEF TypeOK
    <3> QED BY <3>1, FrameValues
  <2> QED BY <1>2, <2>1, <2>2, <2>3 DEF IsOwnOf
<1>3. \A c \in Clients, i \in 1 .. n : server_actions[i].sender = c =>
        IsOwnOf(server_actions[i], c, own_actions'[c], player_input'[c])
  BY <1>1, <1>2 DEF IInv, AcceptedAreOwn, IsOwnOf
<1>4. (\A c \in Clients, i \in DOMAIN server_actions' : server_actions'[i].sender = c =>
         IsOwnOf(server_actions'[i], c, own_actions'[c], player_input'[c]))
      => AcceptedAreOwn'
  BY DEF AcceptedAreOwn, IsOwnOf
<1>5. ASSUME UNCHANGED server_actions
      PROVE  AcceptedAreOwn'
  BY <1>1, <1>3, <1>4, <1>5
<1>6. ASSUME NEW a \in ServerAction, Issue(a),
             \A c \in Clients : a.sender = c =>
               IsOwnOf(a, c, own_actions'[c], player_input'[c])
      PROVE  AcceptedAreOwn'
  <2>1. /\ DOMAIN server_actions' = 1 .. n + 1 /\ server_actions'[n + 1] = a
        /\ \A i \in 1 .. n : server_actions'[i] = server_actions[i]
    BY <1>1, <1>6, IssueSends
  <2> HIDE DEF n
  <2>2. \A i \in 1 .. n + 1 : i \in 1 .. n \/ i = n + 1
    BY <1>1
  <2> QED BY <1>3, <1>4, <1>6, <2>1, <2>2
<1>7. ASSUME NEW recipients \in Recipients, ServerTrigger(recipients)
      PROVE  AcceptedAreOwn'
  <2> DEFINE a == [sender |-> Server, triggerer_action_token |-> Len(server_actions),
                   wait_server_validation |-> FALSE, recipients |-> recipients,
                   executed_input_id |-> peers_next_action_trigger_input_id,
                   sender_executed_time_changed |-> FALSE]
  <2>1. a \in ServerAction /\ Issue(a) /\ a.sender = Server
    BY <1>1, <1>7, TriggeredType DEF ServerTrigger
  <2> HIDE DEF a
  <2> QED BY <1>6, <2>1, ClientsAssumption
<1>8. ASSUME NEW message \in to_server, AcceptAction(message)
      PROVE  AcceptedAreOwn'
  <2>1. /\ Accepted(message) \in ServerAction /\ Issue(Accepted(message))
        /\ Accepted(message).sender = message.from /\ message.from \in Clients
    BY <1>1, <1>8, AcceptIssues, AcceptedType
  <2>2. IsOwnOf(Accepted(message), message.from, own_actions'[message.from],
                player_input'[message.from])
    BY <1>2, <2>1, AcceptedIsOwn
  <2> QED BY <1>6, <2>1, <2>2
<1>9. ASSUME NEW message \in to_server, RejectAction(message)
      PROVE  AcceptedAreOwn'
  BY <1>1, <1>5, <1>9, RejectSends DEF RejectAction
<1> QED BY <1>5, <1>7, <1>8, <1>9 DEF Next, vars, ServerTick, ClientTrigger, ReceiveAction,
                                     ClientTick

LEMMA RanStep ==
  ASSUME IInv, [Next]_vars
  PROVE  RanAreOwn'
<1> USE DEF actionVars, serverVars, playerVars, clientVars
<1>1. /\ TypeOK /\ ran \in [Clients -> SUBSET Entry]
      /\ player_input \in [Clients -> FrameOrNone]
      /\ own_actions \in [Clients -> Seq(OwnAction)]
  BY DEF IInv, TypeOK
<1>2. ASSUME NEW c \in Clients, NEW e \in ran[c], e.own
      PROVE  /\ e.token + 1 \in DOMAIN own_actions'[c] /\ e.frame <= player_input'[c]
             /\ ~own_actions'[c][e.token + 1].wait_server_validation
             /\ own_actions'[c][e.token + 1].executed_input_id = e.frame
  <2>1. /\ e.token + 1 \in DOMAIN own_actions[c] /\ e.frame <= player_input[c]
        /\ ~own_actions[c][e.token + 1].wait_server_validation
        /\ own_actions[c][e.token + 1].executed_input_id = e.frame
    BY <1>2 DEF IInv, RanAreOwn
  <2>2. player_input[c] <= player_input'[c]
        /\ e.token + 1 \in DOMAIN own_actions'[c]
        /\ own_actions'[c][e.token + 1] = own_actions[c][e.token + 1]
    BY <1>1, <2>1, ClientsGrow
  <2>3. e.frame \in Int /\ player_input[c] \in Int /\ player_input'[c] \in Int
    <3>1. player_input[c] \in FrameOrNone /\ player_input'[c] \in FrameOrNone
          /\ e.frame \in FrameOrNone
      BY <1>1, TypeStep DEF TypeOK, Entry
    <3> QED BY <3>1, FrameValues
  <2> QED BY <2>1, <2>2, <2>3
<1>3. ASSUME UNCHANGED ran
      PROVE  RanAreOwn'
  BY <1>2, <1>3 DEF RanAreOwn
<1>4. ASSUME NEW c \in Clients, NEW frame \in FrameOrNone, NEW checked \in FrameOrNone,
             ClientTick(c, frame, checked)
      PROVE  RanAreOwn'
  <2> DEFINE isNew == frame /= player_input[c]
             news == IF isNew THEN {OwnEntry(token, frame) : token \in DueOwn(c, frame)} ELSE {}
             due == {ServerEntry(token, frame) : token \in DuePending(c, frame)}
  <2>1. /\ player_input' = [player_input EXCEPT ![c] = frame]
        /\ ran' = [ran EXCEPT ![c] = @ \cup news \cup due]
        /\ UNCHANGED own_actions
    BY <1>4 DEF ClientTick
  <2>2. ran'[c] = ran[c] \cup news \cup due /\ player_input'[c] = frame
        /\ \A d \in Clients : d /= c => ran'[d] = ran[d]
    BY <1>1, <2>1
  <2>3. \A e \in due : ~e.own
    BY DEF ServerEntry
  <2>4. ASSUME NEW e \in news
        PROVE  /\ e.token + 1 \in DOMAIN own_actions[c] /\ e.frame <= frame
               /\ ~own_actions[c][e.token + 1].wait_server_validation
               /\ own_actions[c][e.token + 1].executed_input_id = e.frame
    <3>1. PICK token \in DueOwn(c, frame) : e = OwnEntry(token, frame)
      BY <2>4
    <3>2. PICK i \in DOMAIN own_actions[c] :
            /\ token = i - 1 /\ ~own_actions[c][i].wait_server_validation
            /\ own_actions[c][i].executed_input_id = frame
      BY DEF DueOwn
    <3>3. token + 1 = i
      <4>1. own_actions[c] \in Seq(OwnAction)
        BY <1>1
      <4>2. i \in Nat
        BY <4>1
      <4> QED BY <3>2, <4>2
    <3>4. e.token = token /\ e.frame = frame /\ frame <= frame
      BY <3>1, FrameValues DEF OwnEntry
    <3> QED BY <3>2, <3>3, <3>4
  <2> HIDE DEF news, due
  <2> QED BY <1>2, <2>1, <2>2, <2>3, <2>4 DEF RanAreOwn
<1> QED BY <1>3, <1>4 DEF Next, vars, ServerTrigger, AcceptAction, RejectAction, ServerTick,
                          ClientTrigger, ReceiveAction

-----------------------------------------------------------------------------
(***************************************************************************)
(* Rewinds.                                                                *)
(***************************************************************************)
\* The server has one action for an own action of a client.
LEMMA OneActionOf ==
  ASSUME IInv, NEW c \in Clients, NEW token, NEW t \in Nat, NEW u \in Nat,
         t + 1 \in DOMAIN server_actions, IsOf(server_actions[t + 1], c, token),
         u + 1 \in DOMAIN server_actions, IsOf(server_actions[u + 1], c, token)
  PROVE  t = u
<1>1. t + 1 = u + 1
  BY DEF IInv, IssuedOnce, IsOf
<1> QED BY <1>1

LEMMA ReplayedOnReceive ==
  ASSUME IInv, NEW c \in Clients, NEW tk \in Tokens, ReceiveAction(c, tk),
         tk + 1 \in DOMAIN server_actions,
         NEW e \in ran[c], e.own, e.frame \in frames[c]
  PROVE  Replays(c, e.token, e.frame)' <=> ~HeardPutOff(c, e.token, e.frame)'
<1> DEFINE action == server_actions[tk + 1]
           frame == action.executed_input_id[c]
           passed == AtLeast(player_input[c], frame)
           taken == passed => frame \in frames[c]
           t == e.token
           f == e.frame
<1>1. /\ server_actions' = server_actions
      /\ heard' = [heard EXCEPT ![c] = @ \cup {tk}]
      /\ snapshot_actions' = [snapshot_actions EXCEPT ![c] =
           IF ~taken THEN @
           ELSE WithoutOriginal(c, action) \cup (IF passed THEN {ServerEntry(tk, frame)} ELSE {})]
  BY DEF ReceiveAction, serverVars, actionVars
<1>2. /\ TypeOK /\ heard \in [Clients -> SUBSET Tokens]
      /\ snapshot_actions \in [Clients -> SUBSET Entry]
  BY DEF IInv, TypeOK
<1>3. /\ heard'[c] = heard[c] \cup {tk}
      /\ snapshot_actions'[c] =
           IF ~taken THEN snapshot_actions[c]
           ELSE WithoutOriginal(c, action) \cup (IF passed THEN {ServerEntry(tk, frame)} ELSE {})
  BY <1>1, <1>2
<1>4. /\ tk \notin heard[c] /\ \A x \in snapshot_actions[c] : ~x.own => x.token /= tk
      /\ \A x \in snapshot_actions[c] : ~x.own => x.token \in heard[c]
      /\ \A u \in heard[c] : u \in Nat /\ u + 1 \in DOMAIN server_actions
  <2>1. heard[c] \subseteq Tokens
    BY <1>2
  <2> QED BY <2>1, ReceivedIsNew, TokenTypes DEF IInv, HeardAreKnown
<1>5. Replays(c, t, f) <=> ~HeardPutOff(c, t, f)
  BY DEF IInv, OwnIsReplayed
<1>6. Replays(c, t, f)' <=> \E x \in snapshot_actions'[c] :
        x.frame = f /\ IF x.own THEN x.token = t ELSE IsOf(server_actions[x.token + 1], c, t)
  BY <1>1 DEF Replays
<1>7. HeardPutOff(c, t, f)' <=> \E u \in heard'[c] :
        /\ IsOf(server_actions[u + 1], c, t) /\ IsPutOff(server_actions[u + 1], c)
        /\ server_actions[u + 1].executed_input_id[c] /= f
  BY <1>1 DEF HeardPutOff
<1>8. ServerEntry(tk, frame).token = tk /\ ServerEntry(tk, frame).frame = frame
      /\ ~ServerEntry(tk, frame).own
  BY DEF ServerEntry
<1>9. tk \in Nat
  BY TokenTypes
<1> HIDE DEF action, frame, passed, t, f
<1>10. CASE ~IsOf(action, c, t)
  <2>1. HeardPutOff(c, t, f)' <=> HeardPutOff(c, t, f)
    BY <1>3, <1>7, <1>10 DEF HeardPutOff, action
  <2>2. Replays(c, t, f)' <=> Replays(c, t, f)
    BY <1>3, <1>6, <1>8, <1>10 DEF Replays, action, WithoutOriginal, IsPutOff, IsOf
  <2> QED BY <1>5, <2>1, <2>2 DEF t, f
<1>11. CASE IsOf(action, c, t)
  <2>1. \A u \in heard[c] : ~IsOf(server_actions[u + 1], c, t)
    <3> SUFFICES ASSUME NEW u \in heard[c], IsOf(server_actions[u + 1], c, t)
                 PROVE  FALSE
      OBVIOUS
    <3> QED BY <1>4, <1>9, <1>11, OneActionOf DEF action
  <2>2. Replays(c, t, f)
    BY <1>5, <2>1 DEF HeardPutOff
  <2>3. PICK x \in snapshot_actions[c] : x.own /\ x.token = t /\ x.frame = f
    BY <1>4, <2>1, <2>2 DEF Replays
  <2>4. HeardPutOff(c, t, f)' <=> IsPutOff(action, c) /\ frame /= f
    BY <1>3, <1>7, <1>11, <2>1 DEF action, frame
  <2>5. /\ t + 1 \in DOMAIN own_actions[c] /\ f <= player_input[c]
        /\ ~own_actions[c][t + 1].wait_server_validation
        /\ own_actions[c][t + 1].executed_input_id = f
    BY DEF IInv, RanAreOwn, t, f
  <2>6. frame = f \/ frame > f
    <3>1. action.sender = c /\ action.triggerer_action_token = t
      BY <1>11 DEF IsOf
    <3> QED BY <2>5, <3>1 DEF IInv, AcceptedAreOwn, action, frame
  <2>7. player_input[c] \in Int /\ f \in frames[c] /\ f \in Nat /\ frame \in Int
    <3>1. player_input[c] \in FrameOrNone /\ frames[c] \subseteq FrameIds /\ action \in ServerAction
      BY <1>2 DEF TypeOK, action
    <3> QED BY <3>1, FrameValues, FrameTypes DEF f, frame, ServerAction
  <2>8. CASE frame = f
    <3>1. passed /\ taken
      BY <2>5, <2>7, <2>8 DEF passed, AtLeast, NoInput
    <3>2. ServerEntry(tk, frame) \in snapshot_actions'[c]
      BY <1>3, <3>1
    <3>3. Replays(c, t, f)'
      BY <1>6, <1>8, <1>11, <2>8, <3>2 DEF action
    <3> QED BY <2>4, <2>8, <3>3 DEF t, f
  <2>9. CASE frame > f /\ IsPutOff(action, c)
    <3>1. frame /= f /\ frame /= NoInput
      BY <2>7, <2>9 DEF NoInput
    <3>2. taken
      <4> SUFFICES ASSUME passed
                   PROVE  frame \in frames[c]
        OBVIOUS
      <4>1. frame <= player_input[c]
        BY <2>5, <2>7, <3>1 DEF passed, AtLeast, NoInput
      <4>2. frame \in f .. player_input[c]
        BY <2>7, <2>9, <4>1
      <4> QED BY <2>7, <4>2 DEF IInv, FramesAreLatest
    <3>3. \A y \in snapshot_actions'[c] :
            \/ y = ServerEntry(tk, frame)
            \/ y \in snapshot_actions[c] /\ ~(y.own /\ y.token = t)
      <4>1. action.triggerer_action_token = t
        BY <1>11 DEF IsOf
      <4> QED BY <1>3, <2>9, <3>2, <4>1 DEF WithoutOriginal
    <3>4. ~Replays(c, t, f)'
      BY <1>4, <1>6, <1>8, <2>1, <3>1, <3>3
    <3> QED BY <2>4, <2>9, <3>1, <3>4 DEF t, f
  <2>10. CASE ~IsPutOff(action, c)
    <3>1. x \in snapshot_actions'[c]
      BY <1>3, <2>3, <2>10 DEF WithoutOriginal
    <3>2. Replays(c, t, f)'
      BY <1>6, <2>3, <3>1
    <3> QED BY <2>4, <2>10, <3>2 DEF t, f
  <2> QED BY <2>6, <2>8, <2>9, <2>10
<1> QED BY <1>10, <1>11

LEMMA ReplayedOnTick ==
  ASSUME IInv, NEW c \in Clients, NEW frame \in FrameOrNone, NEW checked \in FrameOrNone,
         ClientTick(c, frame, checked),
         NEW e \in ran'[c], e.own, e.frame \in frames'[c]
  PROVE  Replays(c, e.token, e.frame)' <=> ~HeardPutOff(c, e.token, e.frame)'
<1> DEFINE isNew == frame /= player_input[c]
           stored == IF isNew THEN frames[c] \cup {frame} ELSE frames[c]
           news == IF isNew THEN {OwnEntry(token, frame) : token \in DueOwn(c, frame)} ELSE {}
           due == {ServerEntry(token, frame) : token \in DuePending(c, frame)}
           t == e.token
           f == e.frame
<1>1. /\ frame \in {player_input[c], player_input[c] + 1}
      /\ ran' = [ran EXCEPT ![c] = @ \cup news \cup due]
      /\ frames' = [frames EXCEPT ![c] = {g \in stored : g > checked}]
      /\ snapshot_actions' = [snapshot_actions EXCEPT ![c] =
           {x \in @ \cup news : x.frame > checked}]
      /\ UNCHANGED <<server_actions, heard>>
  BY DEF ClientTick, serverVars, actionVars
<1>2. /\ TypeOK /\ ran \in [Clients -> SUBSET Entry] /\ frames \in [Clients -> SUBSET FrameIds]
      /\ snapshot_actions \in [Clients -> SUBSET Entry] /\ player_input[c] \in FrameOrNone
      /\ own_actions[c] \in Seq(OwnAction)
  BY DEF IInv, TypeOK
<1>3. /\ ran'[c] = ran[c] \cup news \cup due
      /\ frames'[c] = {g \in stored : g > checked}
      /\ snapshot_actions'[c] = {x \in snapshot_actions[c] \cup news : x.frame > checked}
  BY <1>1, <1>2
<1>4. HeardPutOff(c, t, f)' <=> HeardPutOff(c, t, f)
  BY <1>1 DEF HeardPutOff
<1>5. Replays(c, t, f)' <=> \E x \in snapshot_actions'[c] :
        x.frame = f /\ IF x.own THEN x.token = t ELSE IsOf(server_actions[x.token + 1], c, t)
  BY <1>1 DEF Replays
<1>6. (\A x \in news : x.own /\ x.frame = frame) /\ (\A x \in due : ~x.own)
  BY DEF OwnEntry, ServerEntry
<1>7. player_input[c] \in Int /\ frame \in Int /\ f > checked /\ f \in stored
      /\ (isNew => frame > player_input[c])
  <2>1. player_input[c] \in Int /\ frame \in Int
    BY <1>2, FrameValues
  <2>2. f > checked /\ f \in stored
    BY <1>3
  <2> QED BY <1>1, <2>1, <2>2
<1> HIDE DEF news, due, stored
<1>8. CASE e \in ran[c]
  <2>1. f <= player_input[c]
    BY <1>8 DEF IInv, RanAreOwn
  <2>2. f \in Int
    <3>1. f \in FrameOrNone
      BY <1>2, <1>8 DEF Entry
    <3> QED BY <3>1, FrameValues
  <2>3. isNew => f /= frame
    BY <1>7, <2>1, <2>2
  <2>4. f \in frames[c]
    BY <1>7, <2>3 DEF stored
  <2>5. Replays(c, t, f) <=> ~HeardPutOff(c, t, f)
    BY <1>8, <2>4 DEF IInv, OwnIsReplayed
  <2>6. \A x \in news : x.frame /= f
    BY <1>6, <2>3 DEF news
  <2>7. Replays(c, t, f)' <=> Replays(c, t, f)
    BY <1>3, <1>5, <1>7, <2>6 DEF Replays
  <2> QED BY <1>4, <2>5, <2>7
<1>9. CASE e \in news
  <2>1. PICK token \in DueOwn(c, frame) : e = OwnEntry(token, frame) /\ isNew
    BY <1>9 DEF news
  <2>2. t = token /\ f = frame
    BY <2>1 DEF OwnEntry
  <2>3. Replays(c, t, f)'
    BY <1>3, <1>5, <1>7, <1>9
  <2>4. ~HeardPutOff(c, t, f)
    <3> SUFFICES ASSUME NEW u \in heard[c], IsOf(server_actions[u + 1], c, t),
                        server_actions[u + 1].executed_input_id[c] /= f
                 PROVE  FALSE
      BY DEF HeardPutOff
    <3>1. /\ t + 1 \in DOMAIN own_actions[c]
          /\ ~own_actions[c][t + 1].wait_server_validation
          /\ own_actions[c][t + 1].executed_input_id = f
      <4>1. PICK i \in DOMAIN own_actions[c] :
              /\ token = i - 1 /\ ~own_actions[c][i].wait_server_validation
              /\ own_actions[c][i].executed_input_id = frame
        BY DEF DueOwn
      <4>2. i \in Nat
        BY <1>2, <4>1
      <4>3. token + 1 = i
        BY <4>1, <4>2
      <4> QED BY <2>2, <4>1, <4>3
    <3>2. u + 1 \in DOMAIN server_actions
      BY DEF IInv, HeardAreKnown
    <3>3. player_input[c] >= f
      BY <3>1, <3>2 DEF IInv, AcceptedAreOwn, IsOf
    <3> QED BY <1>7, <2>1, <2>2, <3>3
  <2> QED BY <1>4, <2>3, <2>4
<1> QED BY <1>3, <1>6, <1>8, <1>9

LEMMA ReplayedStep ==
  ASSUME IInv, [Next]_vars
  PROVE  OwnIsReplayed'
<1> USE DEF actionVars, serverVars, playerVars, clientVars
<1>1. TypeOK /\ HeardAreKnown /\ OwnIsReplayed
  BY DEF IInv
<1>2. \A i \in DOMAIN server_actions : server_actions'[i] = server_actions[i]
  BY <1>1, ActionsGrow
<1>3. ASSUME NEW c \in Clients, heard'[c] = heard[c], snapshot_actions'[c] = snapshot_actions[c],
             NEW t, NEW f
      PROVE  (Replays(c, t, f)' <=> Replays(c, t, f))
             /\ (HeardPutOff(c, t, f)' <=> HeardPutOff(c, t, f))
  <2>1. \A u \in heard[c] : server_actions'[u + 1] = server_actions[u + 1]
    BY <1>1, <1>2 DEF HeardAreKnown
  <2>2. \A x \in snapshot_actions[c] : ~x.own =>
          server_actions'[x.token + 1] = server_actions[x.token + 1]
    BY <1>1, <2>1 DEF HeardAreKnown
  <2> QED BY <1>3, <2>1, <2>2 DEF Replays, HeardPutOff
<1>4. ASSUME NEW c \in Clients, heard'[c] = heard[c], snapshot_actions'[c] = snapshot_actions[c],
             ran'[c] = ran[c], frames'[c] = frames[c]
      PROVE  \A e \in ran'[c] : e.own /\ e.frame \in frames'[c] =>
               (Replays(c, e.token, e.frame)' <=> ~HeardPutOff(c, e.token, e.frame)')
  BY <1>1, <1>3, <1>4 DEF OwnIsReplayed
<1>5. (\A c \in Clients : \A e \in ran'[c] : e.own /\ e.frame \in frames'[c] =>
         (Replays(c, e.token, e.frame)' <=> ~HeardPutOff(c, e.token, e.frame)'))
      => OwnIsReplayed'
  BY DEF OwnIsReplayed
<1>6. ASSUME UNCHANGED <<heard, snapshot_actions, ran, frames>>
      PROVE  OwnIsReplayed'
  BY <1>4, <1>5, <1>6
<1>7. ASSUME NEW message \in to_clients, ReceiveAction(message.to, message.token)
      PROVE  OwnIsReplayed'
  <2> DEFINE c == message.to
             token == message.token
  <2>1. c \in Clients /\ token \in Tokens /\ token + 1 \in DOMAIN server_actions
    BY <1>1 DEF TypeOK, IInv, SentAreIssued
  <2>2. UNCHANGED <<ran, frames>>
        /\ \A d \in Clients : d /= c =>
             heard'[d] = heard[d] /\ snapshot_actions'[d] = snapshot_actions[d]
    BY <1>1, <1>7 DEF ReceiveAction, TypeOK
  <2>3. \A e \in ran'[c] : e.own /\ e.frame \in frames'[c] =>
          (Replays(c, e.token, e.frame)' <=> ~HeardPutOff(c, e.token, e.frame)')
    BY <1>7, <2>1, <2>2, ReplayedOnReceive
  <2> HIDE DEF c
  <2> QED BY <1>4, <1>5, <2>2, <2>3
<1>8. ASSUME NEW c \in Clients, NEW frame \in FrameOrNone, NEW checked \in FrameOrNone,
             ClientTick(c, frame, checked)
      PROVE  OwnIsReplayed'
  <2>1. \A d \in Clients : d /= c =>
          /\ heard'[d] = heard[d] /\ snapshot_actions'[d] = snapshot_actions[d]
          /\ ran'[d] = ran[d] /\ frames'[d] = frames[d]
    BY <1>1, <1>8 DEF ClientTick, TypeOK
  <2>2. \A e \in ran'[c] : e.own /\ e.frame \in frames'[c] =>
          (Replays(c, e.token, e.frame)' <=> ~HeardPutOff(c, e.token, e.frame)')
    BY <1>8, ReplayedOnTick
  <2> QED BY <1>4, <1>5, <2>1, <2>2
<1> QED BY <1>6, <1>7, <1>8 DEF Next, vars, ServerTrigger, AcceptAction, RejectAction,
                                 ServerTick, ClientTrigger

-----------------------------------------------------------------------------
LEMMA IInvInit == Init => IInv
<1> SUFFICES ASSUME Init
             PROVE  IInv
  OBVIOUS
<1>1. TypeOK
  <2>1. NoInfo \in Info
    BY DEF NoInfo, Info
  <2>2. <<>> \in Seq(ServerAction) /\ <<>> \in Seq(OwnAction) /\ <<>> \in Seq(0 .. Redundancy)
        /\ Len(<<>>) = 0 /\ DOMAIN <<>> = {}
    OBVIOUS
  <2>3. send_count \in [DOMAIN server_actions -> 0 .. Redundancy]
    BY CountsAreSequences, <2>2 DEF Init
  <2> QED BY <2>1, <2>2, <2>3, FrameTypes DEF Init, TypeOK
<1>2. InfosAreOrdered
  BY DEF Init, InfosAreOrdered, InfoIsOrdered, NoInfo
<1>3. ActionsAreKnown /\ IssuedOnce /\ NeverTooLate /\ AcceptedAreOwn
  BY DEF Init, ActionsAreKnown, IssuedOnce, NeverTooLate, AcceptedAreOwn
<1>4. ServerOwnAreBounded
  <2>1. ServerOwn = {}
    BY DEF Init, ServerOwn
  <2> QED BY <2>1, FS_EmptySet, ActionBoundsAssumption DEF ServerOwnAreBounded
<1>5. OwnAreBounded
  BY ActionBoundsAssumption DEF Init, OwnAreBounded
<1>6. NextFollows
  BY DEF Init, NextFollows, NoInput
<1>7. SentAreIssued /\ HeardAreKnown /\ ExecutedOnce /\ FramesAreLatest /\ SentAreOwn
      /\ RanAreOwn /\ OwnIsReplayed
  BY DEF Init, SentAreIssued, HeardAreKnown, ExecutedOnce, FramesAreLatest, SentAreOwn,
         RanAreOwn, OwnIsReplayed
<1> QED BY <1>1, <1>2, <1>3, <1>4, <1>5, <1>6, <1>7 DEF IInv

LEMMA IInvStep == IInv /\ [Next]_vars => IInv'
<1> SUFFICES ASSUME IInv, [Next]_vars
             PROVE  IInv'
  OBVIOUS
<1>1. TypeOK' /\ InfosAreOrdered'
  BY TypeStep, InfosStep DEF IInv
<1> QED BY <1>1, IssuedStep, OwnBoundStep, SentStep, HeardStep, FollowStep, NeverTooLateStep,
           FramesStep, SentOwnStep, AcceptedStep, RanStep, ReplayedStep DEF IInv

(* The numbers of the actions, the frames they are given and what is kept  *)
(* of them have their types: above all, the server never numbers more      *)
(* actions than were triggered (on_actions_received, on_action_triggered). *)
THEOREM TypeCorrect == Spec => []TypeOK
<1>1. IInv => TypeOK
  BY DEF IInv
<1> QED BY <1>1, IInvInit, IInvStep, PTL DEF Spec

(* However often and in whatever order it is sent, an action of a client   *)
(* becomes one action of the server (process_received_action).             *)
THEOREM ActionsAreIssuedOnce == Spec => []IssuedOnce
<1>1. IInv => IssuedOnce
  BY DEF IInv
<1> QED BY <1>1, IInvInit, IInvStep, PTL DEF Spec

(* No action of the server that a client executed is ever pending again    *)
(* (ClientSynchronizer::on_actions_received).                              *)
THEOREM ActionsRunOnce == Spec => []ExecutedOnce
<1>1. IInv => ExecutedOnce
  BY DEF IInv
<1> QED BY <1>1, IInvInit, IInvStep, PTL DEF Spec

(* The frame of an action the server has not executed is still to come,    *)
(* whatever the delays (ServerSynchronizer::on_actions_received,           *)
(* execute_actions).                                                       *)
THEOREM ServerIsNeverTooLate == Spec => []NeverTooLate
<1>1. IInv => NeverTooLate
  BY DEF IInv
<1> QED BY <1>1, IInvInit, IInvStep, PTL DEF Spec

(* A rewind executes the client's own action in the frame the client       *)
(* executed it in, exactly until the client hears that it was put off to   *)
(* another one (store_snapshot, on_actions_received).                      *)
THEOREM RewindsReplayOwnActions == Spec => []OwnIsReplayed
<1>1. IInv => OwnIsReplayed
  BY DEF IInv
<1> QED BY <1>1, IInvInit, IInvStep, PTL DEF Spec
=============================================================================
