--------------------------- MODULE ChangeEventsMC ---------------------------
EXTENDS ChangeEvents

CONSTANTS a1, a2, b1, one, two, x1, x2

\* Two variables of one node, and one of another.
MCNodeOf == a1 :> "a" @@ a2 :> "a" @@ b1 :> "b"
MCArgumentCount == one :> 1 @@ two :> 2

SomeEvents == {"CHANGE", "END_SYNC", "SYNC_RECOVER", "SYNC_RESET", "SYNC_REWIND"}
Default == {"CHANGE", "END_SYNC"}
\* One watches the lone variable for the default events and two all of them for
\* all events: one more variable than its method has arguments.
MCTracks == ({b1} \X {one} \X {Default}) \cup ({a1, a2, b1} \X {two} \X {SomeEvents})
SomeBatches ==
  {{"CHANGE"}, {"SYNC_RECOVER", "SYNC_RESET"}, {"SYNC_RECOVER", "SYNC_REWIND"}, {"END_SYNC"}}

ValuesAreAlike == Permutations(Values)
=============================================================================
