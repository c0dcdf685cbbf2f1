------------------------------ MODULE DollSync ------------------------------
(***************************************************************************)
(* How the server keeps a doll up to date: the part of ServerController    *)
(* that numbers the epochs of one controller and sends them to one viewing *)
(* peer, the unreliable batches and the reliable pauses on their way, and  *)
(* the DollController of that peer, which interpolates between the last    *)
(* state it showed and the last epoch it accepted.                         *)
(*                                                                         *)
(* Times are counted in ticks and the interpolation alpha in 1/Steps.      *)
(***************************************************************************)
EXTENDS Integers, Sequences

CONSTANTS
  MaxEpoch,       \* bound: epochs of one ServerController
  MaxSwitches,    \* bound: control mode switches
  MaxPauses,      \* bound: pauses in flight
  Thresholds,     \* the doll sync times the rate and its factor can give, in ticks
  Steps,          \* the alpha of the future epoch
  Overshot,       \* doll_interpolation_max_overshot
  Increments,     \* what a frame adds to alpha, depending on the network
  OwnerToggles,   \* whether the game disables and enables the owner of the controller
  ViewerToggles   \* ... and the viewer

ASSUME DollBoundsAssumption == MaxEpoch \in Nat /\ MaxSwitches \in Nat /\ MaxPauses \in Nat
ASSUME ThresholdsAssumption == Thresholds \subseteq Nat
ASSUME AlphaAssumption ==
  Steps \in Nat \ {0} /\ Overshot \in Nat /\ Increments \subseteq Nat \ {0}
ASSUME TogglesAssumption == OwnerToggles \in BOOLEAN /\ ViewerToggles \in BOOLEAN

VARIABLES
  \* The server.
  generation,               \* which ServerController of the node this is
  epoch,
  owner_enabled,            \* ServerController::enabled
  peer,                     \* the viewer among ServerController::peers
  doll_sync_timer,
  doll_sync_time_threshold,
  is_epoch_important,
  \* The network.
  batches,                  \* unreliable: every epoch sent, deliverable at any time
  pauses,                   \* reliable and ordered: the epochs of the pauses
  \* The viewer.
  sync_enabled,             \* ClientSynchronizer::enabled
  current_epoch,
  past_epoch,
  future_epoch,
  future_epoch_buffer,      \* the batch whose data is interpolated to
  paused_epoch,
  interpolation_alpha,
  interpolation_step,       \* delta / interpolation_time_window
  \* History.
  newest,                   \* the last batch sent, none after a pause
  client_paused             \* the last pause was the viewer's own

peerVars == <<peer, doll_sync_timer, doll_sync_time_threshold>>
serverVars == <<generation, epoch, owner_enabled, peerVars, is_epoch_important>>
pauseVars == <<paused_epoch, client_paused>>
epochVars == <<current_epoch, past_epoch, future_epoch, interpolation_alpha,
               interpolation_step>>
dollVars == <<sync_enabled, epochVars, future_epoch_buffer, pauseVars>>
vars == <<serverVars, batches, pauses, dollVars, newest>>

Batch == [generation : Nat, epoch : Nat]
NoBatch == [generation |-> 0, epoch |-> 0]

Init ==
  /\ generation = 0
  /\ epoch = 0
  /\ owner_enabled = TRUE
  /\ peer = "active"
  /\ doll_sync_timer = 0
  /\ doll_sync_time_threshold = 0
  /\ is_epoch_important = FALSE
  /\ batches = {}
  /\ pauses = <<>>
  /\ sync_enabled = TRUE
  /\ current_epoch = 0
  /\ past_epoch = 0
  /\ future_epoch = 0
  /\ future_epoch_buffer = NoBatch
  /\ paused_epoch = 0
  /\ interpolation_alpha = 0
  /\ interpolation_step = 0
  /\ newest = NoBatch
  /\ client_paused = FALSE

-----------------------------------------------------------------------------
\* Whether a peer's sync timer, advanced by this tick, has run out.
IsDue == is_epoch_important \/ doll_sync_timer + 1 >= doll_sync_time_threshold

\* ServerController::doll_sync, when the viewer gets a batch.
DollSyncSend ==
  /\ owner_enabled
  /\ epoch < MaxEpoch
  /\ peer = "active"
  /\ IsDue
  /\ epoch' = epoch + 1
  /\ doll_sync_timer' = 0
  /\ doll_sync_time_threshold' \in Thresholds
  /\ is_epoch_important' = FALSE
  /\ newest' = [generation |-> generation, epoch |-> epoch']
  /\ batches' = batches \cup {newest'}
  /\ UNCHANGED <<generation, owner_enabled, peer, pauses, dollVars>>

\* The same, when it does not.
DollSyncSkip ==
  /\ owner_enabled
  /\ epoch < MaxEpoch
  /\ \/ /\ peer = "active"
        /\ ~IsDue
        /\ doll_sync_timer' = doll_sync_timer + 1
     \/ /\ peer /= "active"
        /\ UNCHANGED doll_sync_timer
  /\ epoch' = epoch + 1
  /\ is_epoch_important' = FALSE
  /\ UNCHANGED <<generation, owner_enabled, peer, doll_sync_time_threshold,
                 batches, pauses, dollVars, newest>>

\* mark_epoch_as_important.
MarkImportant ==
  /\ is_epoch_important' = TRUE
  /\ UNCHANGED <<generation, epoch, owner_enabled, peerVars, batches, pauses,
                 dollVars, newest>>

\* Mutants of NotifyPause: the epoch of the last pause but one; the next epoch.
NotifyPauseStale ==
  /\ Len(pauses) < MaxPauses
  /\ pauses' = Append(pauses, IF epoch = 0 THEN 0 ELSE epoch - 1)
  /\ newest' = NoBatch
NotifyPauseNext ==
  /\ Len(pauses) < MaxPauses
  /\ pauses' = Append(pauses, epoch + 1)
  /\ newest' = NoBatch

\* The reliable message that tells the doll it is paused from this epoch.
NotifyPause ==
  /\ Len(pauses) < MaxPauses
  /\ pauses' = Append(pauses, epoch)
  /\ newest' = NoBatch

\* ServerController::set_enabled: either change pauses the active dolls.
SetOwnerEnabled ==
  /\ OwnerToggles
  /\ owner_enabled' = ~owner_enabled
  /\ is_epoch_important' = FALSE
  /\ \/ peer = "active" /\ NotifyPause
     \/ peer /= "active" /\ UNCHANGED <<pauses, newest>>
  /\ UNCHANGED <<generation, epoch, peerVars, batches, dollVars>>

\* set_doll_peer_active: the next tick syncs immediately, a deactivation is told.
SetDollPeerActive(active) ==
  /\ peer = IF active THEN "inactive" ELSE "active"
  /\ peer' = IF active THEN "active" ELSE "inactive"
  /\ doll_sync_timer' = 0
  /\ doll_sync_time_threshold' = 0
  /\ \/ active /\ UNCHANGED <<pauses, newest>>
     \/ ~active /\ NotifyPause
  /\ UNCHANGED <<generation, epoch, owner_enabled, is_epoch_important, batches,
                 dollVars>>

\* update_peers: the viewer is enabled again, as a new Peer.
ActivatePeer ==
  /\ peer = "absent"
  /\ peer' = "active"
  /\ doll_sync_timer' = 0
  /\ doll_sync_time_threshold' = 0
  /\ UNCHANGED <<generation, epoch, owner_enabled, is_epoch_important, batches,
                 pauses, dollVars, newest>>

\* update_peers or _on_peer_disconnected: the viewer is disabled or gone.
DeactivatePeer ==
  /\ ViewerToggles
  /\ peer /= "absent"
  /\ peer' = "absent"
  /\ UNCHANGED <<generation, epoch, owner_enabled, doll_sync_timer,
                 doll_sync_time_threshold, is_epoch_important, batches, pauses,
                 dollVars, newest>>

\* set_server_controlled: reset_controller makes a new ServerController, enabled
\* until update_peers, which activates the viewer on it, disables it again; when
\* the viewer comes first, it is told of a pause.
SwitchControl ==
  /\ generation < MaxSwitches
  /\ generation' = generation + 1
  /\ epoch' = 0
  /\ peer' = IF peer = "absent" THEN "absent" ELSE "active"
  /\ doll_sync_timer' = 0
  /\ doll_sync_time_threshold' = 0
  /\ is_epoch_important' = FALSE
  /\ newest' = NoBatch
  /\ \/ UNCHANGED pauses
     \/ /\ ~owner_enabled /\ peer' = "active" /\ Len(pauses) < MaxPauses
        /\ pauses' = Append(pauses, epoch')
  /\ UNCHANGED <<owner_enabled, batches, dollVars>>

-----------------------------------------------------------------------------
\* receive_epoch, for an epoch from before the pause or an old one: it is
\* refused, after its data were copied into the future buffer.
RefuseEpoch(batch) ==
  /\ sync_enabled
  /\ batch.epoch <= paused_epoch \/ batch.epoch <= future_epoch
  /\ future_epoch_buffer' = batch
  /\ UNCHANGED <<serverVars, batches, pauses, sync_enabled, epochVars, pauseVars, newest>>

\* Mutant of AcceptEpoch: an old epoch is taken.
AcceptEpochOld(batch) ==
  /\ sync_enabled
  /\ batch.epoch > paused_epoch
  /\ past_epoch' = IF current_epoch > future_epoch THEN future_epoch ELSE current_epoch
  /\ current_epoch' = past_epoch'
  /\ future_epoch' = batch.epoch
  /\ future_epoch_buffer' = batch
  /\ interpolation_alpha' = 0
  /\ interpolation_step' \in Increments
  /\ UNCHANGED <<serverVars, batches, pauses, sync_enabled, pauseVars, newest>>

\* receive_epoch, for a new one: the doll interpolates from where it is to it.
AcceptEpoch(batch) ==
  /\ sync_enabled
  /\ batch.epoch > paused_epoch /\ batch.epoch > future_epoch
  /\ past_epoch' = IF current_epoch > future_epoch THEN future_epoch ELSE current_epoch
  /\ current_epoch' = past_epoch'
  /\ future_epoch' = batch.epoch
  /\ future_epoch_buffer' = batch
  /\ interpolation_alpha' = 0
  /\ interpolation_step' \in Increments
  /\ UNCHANGED <<serverVars, batches, pauses, sync_enabled, pauseVars, newest>>

\* round(lerp(past, future, alpha / Steps)).
RoundedEpoch(alpha) ==
  (2 * (past_epoch * Steps + (future_epoch - past_epoch) * alpha) + Steps) \div (2 * Steps)

\* Mutant of NextAlpha: unbounded extrapolation.
NextAlphaUnbounded == interpolation_alpha + interpolation_step

NextAlpha ==
  IF interpolation_step = 0 THEN Steps
  ELSE IF interpolation_alpha + interpolation_step < Steps + Overshot
       THEN interpolation_alpha + interpolation_step ELSE Steps + Overshot

\* DollController::process, each frame once a batch arrived.
DollProcess ==
  /\ future_epoch_buffer /= NoBatch
  /\ interpolation_alpha' = NextAlpha
  /\ current_epoch' = RoundedEpoch(interpolation_alpha')
  /\ UNCHANGED <<serverVars, batches, pauses, sync_enabled, past_epoch, future_epoch,
                 future_epoch_buffer, pauseVars, interpolation_step, newest>>

\* _rpc_doll_notify_sync_pause.
ReceivePause ==
  /\ pauses /= <<>>
  /\ paused_epoch' = Head(pauses)
  /\ client_paused' = FALSE
  /\ pauses' = Tail(pauses)
  /\ UNCHANGED <<serverVars, batches, sync_enabled, epochVars, future_epoch_buffer, newest>>

\* The viewer's synchronizer is disabled: __on_sync_paused pauses the doll. The
\* server's update_peers may not have seen the peer disabled: a game that
\* enables it again within the tick only has it told of both.
DisableSync ==
  /\ ViewerToggles
  /\ sync_enabled
  /\ sync_enabled' = FALSE
  /\ paused_epoch' = current_epoch
  /\ client_paused' = TRUE
  /\ UNCHANGED <<serverVars, batches, pauses, epochVars, future_epoch_buffer, newest>>

\* ... and enabled again by the first state that arrives (parse_snapshot).
EnableSync ==
  /\ ~sync_enabled
  /\ sync_enabled' = TRUE
  /\ UNCHANGED <<serverVars, batches, pauses, epochVars, future_epoch_buffer,
                 pauseVars, newest>>

Server == \/ DollSyncSend \/ DollSyncSkip \/ MarkImportant \/ SetOwnerEnabled
          \/ \E active \in BOOLEAN : SetDollPeerActive(active)
          \/ ActivatePeer \/ DeactivatePeer \/ SwitchControl
Viewer == \/ \E batch \in batches : RefuseEpoch(batch) \/ AcceptEpoch(batch)
          \/ DollProcess \/ ReceivePause \/ DisableSync \/ EnableSync

Next == Server \/ Viewer

Spec == Init /\ [][Next]_vars

-----------------------------------------------------------------------------
TypeOK ==
  /\ generation \in 0 .. MaxSwitches
  /\ epoch \in 0 .. MaxEpoch
  /\ owner_enabled \in BOOLEAN
  /\ peer \in {"active", "inactive", "absent"}
  /\ doll_sync_timer \in Nat
  /\ doll_sync_time_threshold \in Nat
  /\ is_epoch_important \in BOOLEAN
  /\ batches \subseteq Batch
  /\ pauses \in Seq(Nat)
  /\ sync_enabled \in BOOLEAN
  /\ current_epoch \in Nat
  /\ past_epoch \in Nat
  /\ future_epoch \in Nat
  /\ future_epoch_buffer \in Batch
  /\ paused_epoch \in Nat
  /\ interpolation_alpha \in 0 .. Steps + Overshot
  /\ interpolation_step \in Nat
  /\ newest \in Batch
  /\ client_paused \in BOOLEAN

\* The doll interpolates from an epoch it has reached to a later one, whatever it
\* overshot, and never shows less than the former (receive_epoch sets it back).
InterpolatesForward ==
  /\ past_epoch < future_epoch \/ future_epoch = 0
  /\ past_epoch <= current_epoch

(* The doll always interpolates forward, and the epoch it reports never    *)
(* goes back, except to the last accepted one after an overshot            *)
(* (receive_epoch refuses the epochs that are late).                       *)
NeverGoesBack ==
  [][/\ InterpolatesForward'
     /\ current_epoch' >= IF current_epoch > future_epoch THEN future_epoch
                          ELSE current_epoch]_vars

(* A doll the server has deactivated takes no batch sent before the pause, *)
(* however late it arrives: none of them starts an interpolation or        *)
(* changes an epoch (receive_epoch).  That is all: the data of a refused   *)
(* batch are in future_epoch_buffer by then, and DollProcess shows them.   *)
PausedDollTakesNoBatch ==
  peer = "inactive" /\ pauses = <<>> /\ ~client_paused =>
    \A batch \in batches : batch.generation = generation =>
      batch.epoch <= paused_epoch \/ batch.epoch <= future_epoch

\* receive_epoch accepts the batch sent last, or has done so already.
NewestIsTaken ==
  newest = NoBatch \/ (newest.epoch > paused_epoch /\ newest.epoch >= future_epoch)

(* After a pause the doll moves again with the first batch sent: the pause *)
(* never outlives the deactivation it was sent for ("The activations are   *)
(* automatically handled when the first epoch is received").               *)
NewestIsTakenUnswitched == generation = 0 /\ ~client_paused => NewestIsTaken
=============================================================================
