--------------------------- MODULE DollSync_proofs ---------------------------
(***************************************************************************)
(* Proofs about DollSync, for any thresholds, steps of the interpolation   *)
(* and bounds.                                                             *)
(*                                                                         *)
(* Three arguments that do not depend on one another.  The interpolation:  *)
(* what the doll reports is the rounded epoch of its alpha, which is       *)
(* monotone in alpha since the past epoch is never after the future one.   *)
(* The pause of a deactivated doll: the last pause on its way, or the one  *)
(* that arrived last, is not before any batch of its controller.  The      *)
(* activation: before any switch the epochs only grow, so the batch sent   *)
(* last is after every pause and not before any batch.                     *)
(***************************************************************************)
EXTENDS DollSync, TLAPS

(***************************************************************************)
(* The inductive invariant.                                                *)
(***************************************************************************)
\* What the doll reports is what it interpolates to, from a past epoch to a
\* later one.
Interpolates ==
  /\ past_epoch < future_epoch \/ (past_epoch = 0 /\ future_epoch = 0)
  /\ current_epoch = RoundedEpoch(interpolation_alpha)

\* The server sent no batch of a controller or an epoch to come.
BatchesAreSent ==
  \A batch \in batches :
    /\ batch.generation <= generation
    /\ batch.generation = generation => batch.epoch <= epoch

\* A doll that is deactivated has been told, or will be told by the last pause.
PauseCoversBatches ==
  peer = "inactive" =>
    \A batch \in batches : batch.generation = generation =>
      IF pauses = <<>>
      THEN client_paused \/ batch.epoch <= paused_epoch \/ batch.epoch <= future_epoch
      ELSE batch.epoch <= pauses[Len(pauses)]

\* Before any switch no pause is of an epoch after `last` ...
PausesUpTo(last) ==
  /\ \A i \in 1 .. Len(pauses) : pauses[i] <= last
  /\ client_paused \/ paused_epoch <= last

\* ... and the doll does not go beyond what the server has sent.
FirstEpochsAreOrdered ==
  generation = 0 =>
    /\ PausesUpTo(epoch) /\ future_epoch <= epoch
    /\ newest /= NoBatch =>
         /\ PausesUpTo(newest.epoch - 1) /\ future_epoch <= newest.epoch
         /\ \A batch \in batches : batch.epoch <= newest.epoch

IInv ==
  /\ TypeOK
  /\ Interpolates
  /\ BatchesAreSent
  /\ PauseCoversBatches
  /\ FirstEpochsAreOrdered

-----------------------------------------------------------------------------
(***************************************************************************)
(* Rounding.                                                               *)
(***************************************************************************)
LEMMA DivisionBounds ==
  ASSUME NEW x \in Int, NEW d \in Nat \ {0}
  PROVE  x \div d \in Int /\ d * (x \div d) <= x /\ x < d * (x \div d) + d
OBVIOUS

LEMMA QuotientIsUnique ==
  ASSUME NEW d \in Nat \ {0}, NEW q \in Int, NEW r \in Int, d * q < d * r + d
  PROVE  q <= r
<1> SUFFICES ASSUME r + 1 <= q
             PROVE  FALSE
  OBVIOUS
<1>1. d * (r + 1) <= d * q
  OBVIOUS
<1>2. d * (r + 1) = d * r + d
  OBVIOUS
<1> QED BY <1>1, <1>2

LEMMA DivisionIsMonotone ==
  ASSUME NEW x \in Int, NEW y \in Int, NEW d \in Nat \ {0}, x <= y
  PROVE  x \div d <= y \div d
<1> DEFINE q == x \div d
           r == y \div d
<1>1. q \in Int /\ r \in Int /\ d * q <= x /\ y < d * r + d
  BY DivisionBounds
<1> HIDE DEF q, r
<1>2. d * q < d * r + d
  BY <1>1
<1>3. q <= r
  BY <1>1, <1>2, QuotientIsUnique
<1> QED BY <1>3 DEF q, r

\* Twice an epoch in steps and a half more is rounded to the epoch.
LEMMA RoundsToEpoch ==
  ASSUME NEW e \in Nat
  PROVE  (2 * (e * Steps) + Steps) \div (2 * Steps) = e
<1> DEFINE d == 2 * Steps
           x == 2 * (e * Steps) + Steps
           q == x \div d
<1>1. Steps \in Nat \ {0}
  BY AlphaAssumption
<1>2. d \in Nat \ {0} /\ x \in Int
  BY <1>1
<1>3. x = d * e + Steps
  BY <1>1
<1>4. q \in Int /\ d * q <= x /\ x < d * q + d
  BY <1>2, DivisionBounds
<1>5. d * e < d * q + d /\ d * q < d * e + d
  BY <1>1, <1>2, <1>3, <1>4
<1> HIDE DEF d, x, q
<1>6. e <= q /\ q <= e
  BY <1>2, <1>4, <1>5, QuotientIsUnique
<1>7. q = e
  BY <1>4, <1>6
<1> QED BY <1>7 DEF d, x, q

\* The doll reports its past epoch at 0, its future epoch at Steps ...
LEMMA RoundedAtEnds ==
  ASSUME past_epoch \in Nat, future_epoch \in Nat
  PROVE  RoundedEpoch(0) = past_epoch /\ RoundedEpoch(Steps) = future_epoch
<1>1. Steps \in Nat \ {0}
  BY AlphaAssumption
<1>2. past_epoch * Steps + (future_epoch - past_epoch) * 0 = past_epoch * Steps
  BY <1>1
<1>3. past_epoch * Steps + (future_epoch - past_epoch) * Steps = future_epoch * Steps
  BY <1>1
<1> QED BY <1>2, <1>3, RoundsToEpoch DEF RoundedEpoch

\* ... and never less for a larger alpha.
LEMMA RoundedIsMonotone ==
  ASSUME past_epoch \in Nat, future_epoch \in Nat, past_epoch <= future_epoch,
         NEW a \in Nat, NEW b \in Nat, a <= b
  PROVE  RoundedEpoch(a) \in Int /\ RoundedEpoch(a) <= RoundedEpoch(b)
<1> DEFINE k == future_epoch - past_epoch
           X(alpha) == 2 * (past_epoch * Steps + k * alpha) + Steps
<1>1. Steps \in Nat \ {0} /\ 2 * Steps \in Nat \ {0} /\ k \in Nat
  BY AlphaAssumption
<1>2. past_epoch * Steps \in Nat
  BY <1>1
<1> HIDE DEF k
<1>3. k * a <= k * b /\ k * a \in Nat /\ k * b \in Nat
  BY <1>1
<1>4. X(a) \in Int /\ X(b) \in Int /\ X(a) <= X(b)
  BY <1>1, <1>2, <1>3
<1>5. \A alpha : RoundedEpoch(alpha) = X(alpha) \div (2 * Steps)
  BY DEF RoundedEpoch, k
<1> HIDE DEF X
<1>6. X(a) \div (2 * Steps) \in Int /\ X(a) \div (2 * Steps) <= X(b) \div (2 * Steps)
  BY <1>1, <1>4, DivisionBounds, DivisionIsMonotone
<1> QED BY <1>5, <1>6

-----------------------------------------------------------------------------
(***************************************************************************)
(* Types and the interpolation.                                            *)
(***************************************************************************)
LEMMA NextAlphaType ==
  ASSUME TypeOK
  PROVE  /\ NextAlpha \in 0 .. Steps + Overshot
         /\ interpolation_step /= 0 => interpolation_alpha <= NextAlpha
         /\ interpolation_step = 0 => NextAlpha = Steps
BY AlphaAssumption DEF TypeOK, NextAlpha

LEMMA InterpolatesMeans ==
  ASSUME TypeOK, Interpolates
  PROVE  /\ past_epoch <= future_epoch
         /\ InterpolatesForward
         /\ past_epoch < future_epoch \/ future_epoch = 0
<1>1. past_epoch \in Nat /\ future_epoch \in Nat /\ past_epoch <= future_epoch
  BY DEF TypeOK, Interpolates
<1>2. interpolation_alpha \in Nat /\ 0 \in Nat /\ 0 <= interpolation_alpha
  BY AlphaAssumption DEF TypeOK
<1>3. RoundedEpoch(0) <= RoundedEpoch(interpolation_alpha) /\ RoundedEpoch(0) = past_epoch
  BY <1>1, <1>2, RoundedIsMonotone, RoundedAtEnds
<1> QED BY <1>1, <1>3 DEF Interpolates, InterpolatesForward

LEMMA TypeInit == Init => TypeOK
<1>1. 0 \in 0 .. MaxSwitches /\ 0 \in 0 .. MaxEpoch /\ 0 \in 0 .. Steps + Overshot
  BY DollBoundsAssumption, AlphaAssumption
<1>2. NoBatch \in Batch
  BY DEF NoBatch, Batch
<1>3. <<>> \in Seq(Nat) /\ {} \subseteq Batch
  OBVIOUS
<1> SUFFICES ASSUME Init
             PROVE  TypeOK
  OBVIOUS
<1>4. generation \in 0 .. MaxSwitches /\ epoch \in 0 .. MaxEpoch
      /\ interpolation_alpha \in 0 .. Steps + Overshot
  BY <1>1 DEF Init
<1>5. future_epoch_buffer \in Batch /\ newest \in Batch
  BY <1>2 DEF Init
<1> QED BY <1>3, <1>4, <1>5 DEF Init, TypeOK

\* A frame shows the epoch of its alpha, never less than the one before but for
\* the future epoch, where it stops without a step.
LEMMA ProcessShows ==
  ASSUME TypeOK, Interpolates, DollProcess
  PROVE  /\ current_epoch' \in Nat
         /\ current_epoch' >= IF current_epoch > future_epoch THEN future_epoch
                              ELSE current_epoch
         /\ interpolation_alpha' \in 0 .. Steps + Overshot
         /\ Interpolates'
<1>1. /\ past_epoch \in Nat /\ future_epoch \in Nat /\ past_epoch <= future_epoch
      /\ current_epoch \in Nat /\ current_epoch = RoundedEpoch(interpolation_alpha)
  BY DEF TypeOK, Interpolates
<1>2. /\ interpolation_alpha \in Nat /\ NextAlpha \in Nat /\ 0 \in Nat /\ Steps \in Nat
      /\ 0 <= NextAlpha /\ NextAlpha \in 0 .. Steps + Overshot
  BY AlphaAssumption, NextAlphaType DEF TypeOK
<1>3. current_epoch' = RoundedEpoch(NextAlpha) /\ interpolation_alpha' = NextAlpha
  BY DEF DollProcess
<1>4. RoundedEpoch(0) <= RoundedEpoch(NextAlpha) /\ RoundedEpoch(0) = past_epoch
      /\ RoundedEpoch(NextAlpha) \in Int
  BY <1>1, <1>2, RoundedIsMonotone, RoundedAtEnds
<1>5. current_epoch' \in Nat
  BY <1>1, <1>3, <1>4
<1>6. CASE interpolation_step = 0
  <2>1. RoundedEpoch(NextAlpha) = future_epoch
    BY <1>1, <1>6, NextAlphaType, RoundedAtEnds
  <2>2. Interpolates'
    BY <1>3 DEF DollProcess, Interpolates, RoundedEpoch
  <2> QED BY <1>1, <1>2, <1>3, <1>5, <2>1, <2>2
<1>7. CASE interpolation_step /= 0
  <2>1. interpolation_alpha <= NextAlpha
    BY <1>7, NextAlphaType
  <2>2. RoundedEpoch(interpolation_alpha) <= RoundedEpoch(NextAlpha)
    BY <1>1, <1>2, <2>1, RoundedIsMonotone
  <2>3. Interpolates'
    BY <1>3 DEF DollProcess, Interpolates, RoundedEpoch
  <2> QED BY <1>1, <1>2, <1>3, <1>5, <2>2, <2>3
<1> QED BY <1>6, <1>7

\* A new batch sets the doll back to the last accepted one at most.
LEMMA AcceptShows ==
  ASSUME TypeOK, Interpolates, NEW batch \in batches, AcceptEpoch(batch)
  PROVE  /\ current_epoch' \in Nat /\ past_epoch' \in Nat /\ future_epoch' \in Nat
         /\ current_epoch' = IF current_epoch > future_epoch THEN future_epoch
                             ELSE current_epoch
         /\ Interpolates'
<1>1. batch.epoch \in Nat /\ current_epoch \in Nat /\ future_epoch \in Nat
  BY DEF TypeOK, Batch
<1>2. /\ past_epoch' = IF current_epoch > future_epoch THEN future_epoch ELSE current_epoch
      /\ current_epoch' = past_epoch'
      /\ future_epoch' = batch.epoch /\ batch.epoch > future_epoch
      /\ interpolation_alpha' = 0
  BY DEF AcceptEpoch
<1>3. past_epoch' \in Nat /\ past_epoch' < future_epoch'
  BY <1>1, <1>2
<1>4. RoundedEpoch(interpolation_alpha)' = past_epoch'
  <2>1. Steps \in Nat \ {0}
    BY AlphaAssumption
  <2>2. past_epoch' * Steps + (future_epoch' - past_epoch') * 0 = past_epoch' * Steps
    BY <1>1, <1>2, <1>3, <2>1
  <2> QED BY <1>2, <1>3, <2>2, RoundsToEpoch DEF RoundedEpoch
<1> QED BY <1>1, <1>2, <1>3, <1>4 DEF Interpolates

LEMMA InterpolatesKept ==
  ASSUME Interpolates, UNCHANGED epochVars
  PROVE  Interpolates'
BY DEF Interpolates, RoundedEpoch, epochVars

LEMMA PauseType ==
  ASSUME TypeOK, NotifyPause
  PROVE  pauses' \in Seq(Nat) /\ newest' \in Batch
BY DEF TypeOK, NotifyPause, NoBatch, Batch

LEMMA TypeStep == TypeOK /\ Interpolates /\ [Next]_vars => TypeOK' /\ Interpolates'
<1> SUFFICES ASSUME TypeOK, Interpolates, [Next]_vars
             PROVE  TypeOK' /\ Interpolates'
  OBVIOUS
<1> USE DollBoundsAssumption, ThresholdsAssumption, AlphaAssumption
    DEF peerVars, serverVars, pauseVars, epochVars, dollVars
<1>1. CASE DollSyncSend
  <2>1. epoch' \in 0 .. MaxEpoch /\ newest' \in Batch /\ batches' \subseteq Batch
    BY <1>1 DEF DollSyncSend, TypeOK, Batch
  <2> QED BY <1>1, <2>1, InterpolatesKept DEF DollSyncSend, TypeOK
<1>2. CASE DollSyncSkip
  <2>1. epoch' \in 0 .. MaxEpoch /\ doll_sync_timer' \in Nat
    BY <1>2 DEF DollSyncSkip, TypeOK
  <2>2. Interpolates'
    BY <1>2, InterpolatesKept DEF DollSyncSkip
  <2>3. TypeOK'
    BY <1>2, <2>1 DEF DollSyncSkip, TypeOK
  <2> QED BY <2>2, <2>3
<1>3. CASE MarkImportant
  BY <1>3, InterpolatesKept DEF MarkImportant, TypeOK
<1>4. CASE SetOwnerEnabled
  BY <1>4, InterpolatesKept, PauseType DEF SetOwnerEnabled, TypeOK
<1>5. ASSUME NEW active \in BOOLEAN, SetDollPeerActive(active)
      PROVE  TypeOK' /\ Interpolates'
  BY <1>5, InterpolatesKept, PauseType DEF SetDollPeerActive, TypeOK
<1>6. CASE ActivatePeer
  BY <1>6, InterpolatesKept DEF ActivatePeer, TypeOK
<1>7. CASE DeactivatePeer
  BY <1>7, InterpolatesKept DEF DeactivatePeer, TypeOK
<1>8. CASE SwitchControl
  <2>1. pauses' \in Seq(Nat) /\ newest' \in Batch
    <3>1. pauses \in Seq(Nat) /\ newest \in Batch /\ epoch \in Nat
      BY DEF TypeOK
    <3>2. NoBatch \in Batch
      BY DEF NoBatch, Batch
    <3> HIDE DollBoundsAssumption, ThresholdsAssumption, AlphaAssumption
    <3> QED BY <1>8, <3>1, <3>2 DEF SwitchControl
  <2>2. generation' \in 0 .. MaxSwitches /\ epoch' \in 0 .. MaxEpoch
        /\ peer' \in {"active", "inactive", "absent"}
    BY <1>8 DEF SwitchControl, TypeOK
  <2>3. Interpolates'
    BY <1>8, InterpolatesKept DEF SwitchControl
  <2>4. TypeOK'
    BY <1>8, <2>1, <2>2 DEF SwitchControl, TypeOK
  <2> QED BY <2>3, <2>4
<1>9. ASSUME NEW batch \in batches, RefuseEpoch(batch)
      PROVE  TypeOK' /\ Interpolates'
  BY <1>9, InterpolatesKept DEF RefuseEpoch, TypeOK
<1>10. ASSUME NEW batch \in batches, AcceptEpoch(batch)
       PROVE  TypeOK' /\ Interpolates'
  <2>1. 0 \in 0 .. Steps + Overshot /\ interpolation_step' \in Nat
    BY <1>10 DEF AcceptEpoch
  <2> QED BY <1>10, <2>1, AcceptShows DEF AcceptEpoch, TypeOK
<1>11. CASE DollProcess
  <2>1. /\ current_epoch' \in Nat /\ Interpolates'
        /\ interpolation_alpha' \in 0 .. Steps + Overshot
    BY <1>11, ProcessShows
  <2> QED BY <1>11, <2>1 DEF DollProcess, TypeOK
<1>12. CASE ReceivePause
  <2>1. pauses' \in Seq(Nat) /\ paused_epoch' \in Nat
    BY <1>12 DEF ReceivePause, TypeOK
  <2>2. Interpolates'
    BY <1>12, InterpolatesKept DEF ReceivePause
  <2>3. TypeOK'
    BY <1>12, <2>1 DEF ReceivePause, TypeOK
  <2> QED BY <2>2, <2>3
<1>13. CASE DisableSync
  BY <1>13, InterpolatesKept DEF DisableSync, TypeOK
<1>14. CASE EnableSync
  BY <1>14, InterpolatesKept DEF EnableSync, TypeOK
<1>15. CASE UNCHANGED vars
  BY <1>15, InterpolatesKept DEF vars, TypeOK
<1> QED BY <1>1, <1>2, <1>3, <1>4, <1>5, <1>6, <1>7, <1>8, <1>9, <1>10, <1>11, <1>12,
           <1>13, <1>14, <1>15 DEF Next, Server, Viewer

LEMMA InterpolatesInit == Init => Interpolates
<1>1. (0 * Steps + (0 - 0) * 0) = 0 * Steps
  BY AlphaAssumption
<1>2. (2 * (0 * Steps) + Steps) \div (2 * Steps) = 0
  BY RoundsToEpoch
<1> QED BY <1>1, <1>2 DEF Init, Interpolates, RoundedEpoch

LEMMA TypesAndInterpolation == Spec => [](TypeOK /\ Interpolates)
BY TypeInit, InterpolatesInit, TypeStep, PTL DEF Spec

(* The epochs, batches and pauses keep their types, the alpha its bounds.  *)
THEOREM TypeCorrect == Spec => []TypeOK
BY TypesAndInterpolation, PTL

(* The doll interpolates forward, and the epoch it reports does not go     *)
(* back but to the last accepted one, whatever the rounding, the step and  *)
(* the overshot (receive_epoch, DollController::process).                  *)
THEOREM DollGoesForward == Spec => NeverGoesBack
<1> DEFINE NotBack == current_epoch' >= IF current_epoch > future_epoch THEN future_epoch
                                        ELSE current_epoch
<1>1. TypeOK /\ Interpolates => InterpolatesForward
  BY InterpolatesMeans
<1>2. TypeOK /\ Interpolates /\ [Next]_vars => [NotBack]_vars
  <2> SUFFICES ASSUME TypeOK, Interpolates, Next
               PROVE  NotBack
    OBVIOUS
  <2>1. ASSUME NEW batch \in batches, AcceptEpoch(batch)
        PROVE  NotBack
    BY <2>1, AcceptShows DEF TypeOK
  <2>2. CASE DollProcess
    BY <2>2, ProcessShows
  <2>3. ASSUME UNCHANGED epochVars
        PROVE  NotBack
    BY <2>3 DEF TypeOK, epochVars
  <2> QED BY <2>1, <2>2, <2>3
          DEF Next, Server, Viewer, dollVars, DollSyncSend, DollSyncSkip, MarkImportant,
              SetOwnerEnabled, SetDollPeerActive, ActivatePeer, DeactivatePeer,
              SwitchControl, RefuseEpoch, ReceivePause, DisableSync, EnableSync
<1>3. InterpolatesForward' /\ [NotBack]_vars => [InterpolatesForward' /\ NotBack]_vars
  OBVIOUS
<1> QED BY <1>1, <1>2, <1>3, TypesAndInterpolation, PTL DEF Spec, NeverGoesBack

-----------------------------------------------------------------------------
(***************************************************************************)
(* The pauses.                                                             *)
(***************************************************************************)
\* A pause goes to the end of the queue and covers what was sent.
LEMMA NotifyPauseAppends ==
  ASSUME TypeOK, NotifyPause
  PROVE  /\ pauses' /= <<>> /\ Len(pauses') = Len(pauses) + 1 /\ Len(pauses) \in Nat
         /\ pauses'[Len(pauses')] = epoch
         /\ \A i \in 1 .. Len(pauses) : pauses'[i] = pauses[i]
BY DEF TypeOK, NotifyPause

LEMMA ReceivePauseShifts ==
  ASSUME TypeOK, ReceivePause
  PROVE  /\ Len(pauses) >= 1 /\ Len(pauses) \in Nat /\ Len(pauses') = Len(pauses) - 1
         /\ paused_epoch' = pauses[1]
         /\ \A i \in 1 .. Len(pauses') : pauses'[i] = pauses[i + 1]
         /\ pauses' = <<>> <=> Len(pauses) = 1
<1>1. pauses \in Seq(Nat) /\ pauses /= <<>> /\ pauses' = Tail(pauses)
      /\ paused_epoch' = Head(pauses)
  BY DEF TypeOK, ReceivePause
<1>2. Len(pauses) >= 1 /\ Len(pauses) \in Nat /\ Len(pauses') = Len(pauses) - 1
      /\ paused_epoch' = pauses[1] /\ pauses' \in Seq(Nat)
      /\ \A i \in 1 .. Len(pauses') : pauses'[i] = pauses[i + 1]
  BY <1>1
<1>3. pauses' = <<>> <=> Len(pauses') = 0
  BY <1>2
<1> QED BY <1>2, <1>3

\* Each controller numbers its own batches, and its epochs grow.
LEMMA SentStep == IInv /\ [Next]_vars => BatchesAreSent'
<1> SUFFICES ASSUME IInv, [Next]_vars
             PROVE  BatchesAreSent'
  OBVIOUS
<1> USE DEF IInv, BatchesAreSent, TypeOK, Batch, peerVars, serverVars
<1>1. CASE DollSyncSend
  BY <1>1 DEF DollSyncSend
<1>2. CASE DollSyncSkip
  BY <1>2 DEF DollSyncSkip
<1>3. CASE SwitchControl
  BY <1>3 DEF SwitchControl
<1>4. ASSUME UNCHANGED <<generation, epoch, batches>>
      PROVE  BatchesAreSent'
  BY <1>4
<1> QED BY <1>1, <1>2, <1>3, <1>4
        DEF Next, Server, Viewer, vars, MarkImportant, SetOwnerEnabled, SetDollPeerActive,
            ActivatePeer, DeactivatePeer, RefuseEpoch, AcceptEpoch, DollProcess,
            ReceivePause, DisableSync, EnableSync

\* The pause of the deactivation covers every batch, until it is the paused epoch.
LEMMA CoversStep == IInv /\ [Next]_vars => PauseCoversBatches'
<1> SUFFICES ASSUME IInv, [Next]_vars
             PROVE  PauseCoversBatches'
  OBVIOUS
<1> USE DEF peerVars, serverVars, pauseVars, epochVars, dollVars
<1>1. /\ TypeOK /\ BatchesAreSent /\ PauseCoversBatches
      /\ \A batch \in batches : batch.epoch \in Nat /\ batch.generation \in Nat
  BY DEF IInv, TypeOK, Batch
<1>2. CASE DollSyncSend
  BY <1>2 DEF DollSyncSend, PauseCoversBatches
<1>3. CASE SwitchControl
  BY <1>3 DEF SwitchControl, PauseCoversBatches
<1>4. ASSUME NEW active \in BOOLEAN, SetDollPeerActive(active)
      PROVE  PauseCoversBatches'
  <2>1. CASE active
    BY <1>4, <2>1 DEF SetDollPeerActive, PauseCoversBatches
  <2>2. CASE ~active
    <3>1. NotifyPause /\ UNCHANGED <<generation, batches>>
      BY <1>4, <2>2 DEF SetDollPeerActive
    <3> QED BY <1>1, <3>1, NotifyPauseAppends DEF PauseCoversBatches, BatchesAreSent
  <2> QED BY <2>1, <2>2
<1>5. CASE SetOwnerEnabled
  BY <1>1, <1>5 DEF SetOwnerEnabled, PauseCoversBatches
<1>6. CASE ReceivePause
  <2>1. UNCHANGED <<generation, batches, peer, future_epoch>> /\ client_paused' = FALSE
    BY <1>6 DEF ReceivePause
  <2>2. pauses /= <<>>
    BY <1>6 DEF ReceivePause
  <2>3. CASE Len(pauses) = 1
    BY <1>1, <1>6, <2>1, <2>2, <2>3, ReceivePauseShifts DEF PauseCoversBatches
  <2>4. CASE Len(pauses) /= 1
    <3>1. pauses'[Len(pauses')] = pauses[Len(pauses)] /\ pauses' /= <<>>
      BY <1>1, <1>6, <2>4, ReceivePauseShifts
    <3> QED BY <1>1, <2>1, <2>2, <3>1 DEF PauseCoversBatches
  <2> QED BY <2>3, <2>4
<1>7. ASSUME NEW batch \in batches, AcceptEpoch(batch)
      PROVE  PauseCoversBatches'
  <2>1. future_epoch' > future_epoch /\ future_epoch' \in Nat /\ future_epoch \in Nat
        /\ paused_epoch \in Nat
    BY <1>1, <1>7 DEF AcceptEpoch, TypeOK
  <2>2. UNCHANGED <<generation, batches, peer, pauses, paused_epoch, client_paused>>
    BY <1>7 DEF AcceptEpoch
  <2> QED BY <1>1, <2>1, <2>2 DEF PauseCoversBatches
<1>8. CASE DisableSync
  BY <1>1, <1>8 DEF DisableSync, PauseCoversBatches
<1>9. ASSUME NEW batch \in batches, RefuseEpoch(batch)
      PROVE  PauseCoversBatches'
  BY <1>1, <1>9 DEF RefuseEpoch, PauseCoversBatches
<1>10. ASSUME peer' \in {peer, "active", "absent"},
              UNCHANGED <<generation, batches, pauses, paused_epoch, future_epoch,
                          client_paused>>
       PROVE  PauseCoversBatches'
  BY <1>1, <1>10 DEF PauseCoversBatches
<1> QED BY <1>2, <1>3, <1>4, <1>5, <1>6, <1>7, <1>8, <1>9, <1>10
        DEF Next, Server, Viewer, vars, DollSyncSkip, MarkImportant, ActivatePeer,
            DeactivatePeer, DollProcess, EnableSync

-----------------------------------------------------------------------------
(***************************************************************************)
(* Before any switch.                                                      *)
(***************************************************************************)
LEMMA PausesUpToMore ==
  ASSUME TypeOK, NEW x \in Int, NEW y \in Int, x <= y, PausesUpTo(x)
  PROVE  PausesUpTo(y)
<1>1. (\A i \in 1 .. Len(pauses) : pauses[i] \in Nat) /\ paused_epoch \in Nat
  BY DEF TypeOK
<1> QED BY <1>1 DEF PausesUpTo

LEMMA FirstStep == IInv /\ [Next]_vars => FirstEpochsAreOrdered'
<1> SUFFICES ASSUME IInv, [Next]_vars, generation' = 0
             PROVE  FirstEpochsAreOrdered'
  BY DEF FirstEpochsAreOrdered
<1> USE DEF peerVars, serverVars, pauseVars, epochVars, dollVars
<1>1. TypeOK /\ TypeOK'
  BY TypeStep DEF IInv
<1>2. generation = 0 /\ ~SwitchControl
  BY <1>1 DEF Next, Server, Viewer, vars, TypeOK, SwitchControl, DollSyncSend, DollSyncSkip,
       MarkImportant, SetOwnerEnabled, SetDollPeerActive, ActivatePeer, DeactivatePeer,
       RefuseEpoch, AcceptEpoch, DollProcess, ReceivePause, DisableSync, EnableSync
<1>3. /\ PausesUpTo(epoch) /\ future_epoch <= epoch
      /\ newest /= NoBatch =>
           /\ PausesUpTo(newest.epoch - 1) /\ future_epoch <= newest.epoch
           /\ \A batch \in batches : batch.epoch <= newest.epoch
  BY <1>2 DEF IInv, FirstEpochsAreOrdered
<1>4. /\ \A batch \in batches : batch.epoch <= epoch /\ batch.epoch \in Nat
      /\ epoch \in Nat /\ newest.epoch \in Nat /\ future_epoch \in Nat /\ paused_epoch \in Nat
      /\ \A i \in 1 .. Len(pauses) : pauses[i] \in Nat
  <2>1. \A batch \in batches : batch.generation = 0
    BY <1>2 DEF IInv, BatchesAreSent, TypeOK, Batch
  <2> QED BY <1>2, <2>1 DEF IInv, BatchesAreSent, TypeOK, Batch
<1>5. CASE DollSyncSend
  <2>1. newest'.epoch = epoch + 1 /\ epoch' = epoch + 1 /\ batches' = batches \cup {newest'}
    BY <1>5 DEF DollSyncSend
  <2>2. UNCHANGED <<pauses, paused_epoch, client_paused, future_epoch>>
    BY <1>5 DEF DollSyncSend
  <2>3. PausesUpTo(epoch') /\ PausesUpTo(newest'.epoch - 1)
    BY <1>1, <1>3, <1>4, <2>1, PausesUpToMore
  <2> QED BY <1>3, <1>4, <2>1, <2>2, <2>3 DEF FirstEpochsAreOrdered, PausesUpTo
<1>6. CASE DollSyncSkip
  <2>1. epoch' = epoch + 1
    BY <1>6 DEF DollSyncSkip
  <2>2. UNCHANGED <<pauses, paused_epoch, client_paused, future_epoch, newest, batches>>
    BY <1>6 DEF DollSyncSkip
  <2>3. PausesUpTo(epoch')
    BY <1>1, <1>3, <1>4, <2>1, PausesUpToMore
  <2> QED BY <1>3, <1>4, <2>1, <2>2, <2>3 DEF FirstEpochsAreOrdered, PausesUpTo
<1>7. ASSUME NotifyPause, UNCHANGED <<epoch, batches, paused_epoch, client_paused, future_epoch>>
      PROVE  FirstEpochsAreOrdered'
  <2>1. newest' = NoBatch
    BY <1>7 DEF NotifyPause
  <2>2. \A i \in 1 .. Len(pauses') : pauses'[i] <= epoch
    BY <1>1, <1>3, <1>4, <1>7, NotifyPauseAppends DEF PausesUpTo
  <2> QED BY <1>3, <1>7, <2>1, <2>2 DEF FirstEpochsAreOrdered, PausesUpTo
<1>8. CASE ReceivePause
  <2>1. UNCHANGED <<epoch, newest, batches, future_epoch>> /\ client_paused' = FALSE
    BY <1>8 DEF ReceivePause
  <2>2. ASSUME NEW x, PausesUpTo(x)
        PROVE  (\A i \in 1 .. Len(pauses') : pauses'[i] <= x) /\ paused_epoch' <= x
    BY <1>1, <1>8, <2>2, ReceivePauseShifts DEF PausesUpTo
  <2> QED BY <1>3, <2>1, <2>2 DEF FirstEpochsAreOrdered, PausesUpTo
<1>9. ASSUME NEW batch \in batches, AcceptEpoch(batch)
      PROVE  FirstEpochsAreOrdered'
  <2>1. UNCHANGED <<epoch, newest, batches, pauses, paused_epoch, client_paused>>
        /\ future_epoch' = batch.epoch
    BY <1>9 DEF AcceptEpoch
  <2> QED BY <1>3, <1>4, <2>1 DEF FirstEpochsAreOrdered, PausesUpTo
<1>10. CASE DisableSync
  BY <1>3, <1>10 DEF DisableSync, FirstEpochsAreOrdered, PausesUpTo
<1>11. ASSUME UNCHANGED <<epoch, newest, batches, pauses, paused_epoch, client_paused,
                          future_epoch>>
       PROVE  FirstEpochsAreOrdered'
  BY <1>3, <1>11 DEF FirstEpochsAreOrdered, PausesUpTo
<1> QED BY <1>2, <1>5, <1>6, <1>7, <1>8, <1>9, <1>10, <1>11
        DEF Next, Server, Viewer, vars, MarkImportant, SetOwnerEnabled, SetDollPeerActive,
            ActivatePeer, DeactivatePeer, RefuseEpoch, DollProcess, EnableSync

-----------------------------------------------------------------------------
LEMMA IInvInit == Init => IInv
<1> SUFFICES ASSUME Init
             PROVE  IInv
  OBVIOUS
<1>1. TypeOK /\ Interpolates
  BY TypeInit, InterpolatesInit
<1>2. BatchesAreSent /\ PauseCoversBatches /\ FirstEpochsAreOrdered
  BY DEF Init, BatchesAreSent, PauseCoversBatches, FirstEpochsAreOrdered, PausesUpTo
<1> QED BY <1>1, <1>2 DEF IInv

LEMMA IInvStep == IInv /\ [Next]_vars => IInv'
<1> SUFFICES ASSUME IInv, [Next]_vars
             PROVE  IInv'
  OBVIOUS
<1>1. TypeOK' /\ Interpolates'
  BY TypeStep DEF IInv
<1> QED BY <1>1, SentStep, CoversStep, FirstStep DEF IInv

(* After the pause of a deactivation has arrived, every batch of the       *)
(* controller that is still on its way is refused: it starts no            *)
(* interpolation and changes no epoch (set_doll_peer_active,               *)
(* _rpc_doll_notify_sync_pause, receive_epoch).                            *)
THEOREM LateBatchesAreRefused == Spec => []PausedDollTakesNoBatch
<1>1. IInv => PausedDollTakesNoBatch
  BY DEF IInv, PauseCoversBatches, PausedDollTakesNoBatch
<1> QED BY <1>1, IInvInit, IInvStep, PTL DEF Spec

(* Before any switch, the batch sent last after a pause is accepted, or    *)
(* has been: no pause outlives the deactivation it was sent for.           *)
THEOREM NewestBatchMovesTheDoll == Spec => []NewestIsTakenUnswitched
<1>1. IInv => NewestIsTakenUnswitched
  <2> SUFFICES ASSUME IInv, generation = 0, ~client_paused, newest /= NoBatch
               PROVE  newest.epoch > paused_epoch /\ newest.epoch >= future_epoch
    BY DEF NewestIsTakenUnswitched, NewestIsTaken
  <2>1. newest.epoch \in Nat /\ paused_epoch \in Nat /\ future_epoch \in Nat
    BY DEF IInv, TypeOK, Batch
  <2> QED BY <2>1 DEF IInv, FirstEpochsAreOrdered, PausesUpTo
<1> QED BY <1>1, IInvInit, IInvStep, PTL DEF Spec
=============================================================================
