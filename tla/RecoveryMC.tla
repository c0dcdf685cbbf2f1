----------------------------- MODULE RecoveryMC -----------------------------
EXTENDS Recovery, TLC

CONSTANTS body, arm, door, lamp, bird, pos, aim, bend, open, lit, light, height, switch, step

\* The controller (body) with its position and an aim the server does not know, what
\* it controls (arm, which the game may stop synchronizing), a door it may depend on, a
\* lamp the actions switch, whose light skips rewinds, and a bird that flies by itself.
NodeOfVar == (pos :> body) @@ (aim :> body) @@ (bend :> arm) @@ (open :> door)
             @@ (lit :> lamp) @@ (light :> lamp) @@ (height :> bird)

Turned(x) == (x + 1) % 3

\* The arm only moves with the body, every other node by itself.
Processes(n, w) ==
  [v \in DOMAIN w |-> IF NodeOfVar[v] = n /\ v \notin {pos, bend, lit} THEN Turned(w[v]) ELSE w[v]]

\* A step moves the body, more through an open door; the arm bends after it.
Controls(input, meets, w) ==
  LET moved == (w[pos] + (IF input = step THEN 1 ELSE 0) + (IF door \in meets THEN w[open] ELSE 0)) % 3
  IN  [w EXCEPT ![pos] = moved, ![bend] = (w[bend] + moved) % 3]

Acts(a, w) == [w EXCEPT ![lit] = Turned(@), ![light] = Turned(@)]

InitialWorld == [v \in DOMAIN NodeOfVar |-> 0]
SomeTouches == {v :> 2 : v \in {pos, open, lit, light, height}}
SomeDeeds == {[input |-> step, meets |-> {door}, action |-> NoAction],
              [input |-> Void, meets |-> {}, action |-> switch]}
=============================================================================
