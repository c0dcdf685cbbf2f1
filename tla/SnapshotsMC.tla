---------------------------- MODULE SnapshotsMC ----------------------------
EXTENDS Snapshots, TLC

CONSTANTS c1, c2, n1, n2, x1, x2

\* The client's character, and that of a peer of the crowd.
Characters == (n1 :> c1) @@ (n2 :> c2)
VarsEach == (n1 :> 2) @@ (n2 :> 0)
LoadedNodes == (c1 :> {n1})
FewMessages == (c1 :> 2)
ValuesAreAlike == Permutations(Values)
=============================================================================
