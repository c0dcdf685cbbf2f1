------------------------------ MODULE InputLog ------------------------------
(***************************************************************************)
(* What the input stream of a NetworkedController promises, whatever the   *)
(* network does: the player appends its inputs to a log; the server walks  *)
(* the log forward, possibly jumping over inputs, never backwards and      *)
(* never past its end; the player forgets a prefix of the log only when    *)
(* the server has walked past it, and has at most WindowSize inputs that   *)
(* it has not forgotten.                                                   *)
(***************************************************************************)
EXTENDS Integers, Sequences

CONSTANTS
  Inputs,      \* the inputs a player can make
  WindowSize   \* the inputs a player may have outstanding

VARIABLES
  log,         \* every input the player has made, in order
  position,    \* the index in the log (from 0) the server is at, -1 for none
  released     \* how many inputs the player has forgotten

logVars == <<log, position, released>>

LogInit == log = <<>> /\ position = -1 /\ released = 0

\* The player makes an input, when its window has room.
Produce ==
  /\ Len(log) - released < WindowSize
  /\ \E input \in Inputs : log' = Append(log, input)
  /\ UNCHANGED <<position, released>>

\* The server moves to a later input.
Advance ==
  /\ position' \in (position + 1) .. (Len(log) - 1)
  /\ UNCHANGED <<log, released>>

\* The player forgets inputs, none of which the server still has to reach.
Release ==
  /\ released' \in (released + 1) .. (position + 1)
  /\ UNCHANGED <<log, position>>

LogNext == Produce \/ Advance \/ Release

LogSpec == LogInit /\ [][LogNext]_logVars
=============================================================================
