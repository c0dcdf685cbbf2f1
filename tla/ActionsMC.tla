----------------------------- MODULE ActionsMC -----------------------------
EXTENDS Actions, TLC

CONSTANTS c1, c2

\* The second client plays, or has only just connected.
BothPlay == (c1 :> 2) @@ (c2 :> 1)
OnePlays == (c1 :> 2) @@ (c2 :> 0)
=============================================================================
