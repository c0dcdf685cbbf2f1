----------------------------- MODULE SceneCopies -----------------------------
(***************************************************************************)
(* What the snapshots of a SceneSynchronizer promise, whatever is sent in  *)
(* full or in part, skipped or lost with a connection: a client's copy of  *)
(* the scene is at all times of one moment of the server's scene, and the  *)
(* moments it goes through are in the server's order.  What it has of a    *)
(* node it keeps while it has the node, and a call that tells everything   *)
(* leaves it nothing to miss.                                              *)
(***************************************************************************)
EXTENDS Integers, Sequences

CONSTANTS
  Clients, Nodes, VarIds, Values,
  Unset,       \* a variable of a copy without a value
  Sees         \* the nodes each client is told of

VARIABLES
  scene,       \* the values of the variables of each node
  coming,      \* the moments of the scene each client is going to be told
  moment,      \* the one its copy is of
  copy,
  has          \* the nodes that exist at the client

copyVars == <<scene, coming, moment, copy, has>>

Empty == [n \in Nodes |-> <<>>]
Blank == [v \in VarIds |-> Unset]
Copy == [Nodes -> [VarIds -> Values \cup {Unset}]]

\* What is in the copy is of the moment.
IsOf(c, s) ==
  \A n \in Nodes, v \in VarIds :
    c[n][v] /= Unset => v < Len(s[n]) /\ c[n][v] = s[n][v + 1]

\* It has all the variables that a node had then.
IsWhole(c, n, s) == \A v \in VarIds : v < Len(s[n]) => c[n][v] /= Unset

CopiesInit ==
  /\ scene = Empty
  /\ coming = [c \in Clients |-> <<>>]
  /\ moment = [c \in Clients |-> Empty]
  /\ copy = [c \in Clients |-> [n \in Nodes |-> Blank]]
  /\ has = [c \in Clients |-> {}]

\* The scene gets a variable, or a variable another value.
Change ==
  /\ UNCHANGED <<moment, copy, has, coming>>
  /\ \E n \in Nodes, x \in Values :
       \/ scene' = [scene EXCEPT ![n] = Append(@, x)]
       \/ \E v \in 1 .. Len(scene[n]) : scene' = [scene EXCEPT ![n][v] = x]

\* Some clients are going to be told the scene as it is, some of them all of it.
Show ==
  /\ UNCHANGED <<scene, moment, copy, has>>
  /\ \E clients \in SUBSET Clients : \E fully \in SUBSET clients :
       coming' = [c \in Clients |->
         IF c \in clients THEN Append(coming[c], [scene |-> scene, full |-> c \in fully])
                          ELSE coming[c]]

\* The moment a client is told last.
Latest(c) == IF coming[c] = <<>> THEN moment[c] ELSE coming[c][Len(coming[c])].scene

\* A client is going to be told something else.
Call(c) ==
  /\ UNCHANGED <<scene, moment, copy, has>>
  /\ coming' = [coming EXCEPT ![c] = Append(@, [scene |-> Latest(c), full |-> FALSE])]

\* A client's copy moves on to the next moment.
Take(c) ==
  /\ UNCHANGED <<scene, has>>
  /\ coming[c] /= <<>>
  /\ LET told == Head(coming[c]) IN
     /\ moment' = [moment EXCEPT ![c] = told.scene]
     /\ copy'[c] \in Copy
     /\ copy' = [copy EXCEPT ![c] = copy'[c]]
     /\ IsOf(copy'[c], told.scene)
     /\ \A n \in Nodes, v \in VarIds : copy[c][n][v] /= Unset => copy'[c][n][v] /= Unset
     /\ told.full => \A n \in has[c] \cap Sees[c] : IsWhole(copy'[c], n, told.scene)
  /\ coming' = [coming EXCEPT ![c] = Tail(@)]

Load(c) ==
  /\ UNCHANGED <<scene, moment, copy, coming>>
  /\ \E n \in Nodes \ has[c] : has' = [has EXCEPT ![c] = @ \cup {n}]

\* With the node goes what the client has of it.
Unload(c) ==
  /\ UNCHANGED <<scene, moment, coming>>
  /\ \E n \in has[c] :
       /\ has' = [has EXCEPT ![c] = @ \ {n}]
       /\ copy' = [copy EXCEPT ![c][n] = Blank]

\* With the connection go the copy and all that was to be told.
Leave(c) ==
  /\ UNCHANGED <<scene, has>>
  /\ coming' = [coming EXCEPT ![c] = <<>>]
  /\ moment' = [moment EXCEPT ![c] = Empty]
  /\ copy' = [copy EXCEPT ![c] = [n \in Nodes |-> Blank]]

CopiesNext ==
  \/ Change \/ Show
  \/ \E c \in Clients : Call(c) \/ Take(c) \/ Load(c) \/ Unload(c) \/ Leave(c)

CopiesSpec == CopiesInit /\ [][CopiesNext]_copyVars
=============================================================================
