---------------------------- MODULE ChangeEvents ----------------------------
(***************************************************************************)
(* How the listeners of the game hear of the variables that changed.  The  *)
(* synchronizer notes the changes of a batch (a tick, a recovery, its end) *)
(* in the listeners that watch them, then calls each of these once, with   *)
(* the old value of each variable that was noted last.  A callback may     *)
(* track and untrack variables and remove nodes.                           *)
(*                                                                         *)
(* A listener is a method of an object of its own.  The variables name     *)
(* their listeners by index in event_listener, the listeners name the      *)
(* variables they watch.                                                   *)
(***************************************************************************)
EXTENDS Integers, Sequences, SequencesExt

CONSTANTS
  Variables,
  NodeOf,                   \* the node of each variable
  Values,
  Listeners,
  ArgumentCount,            \* the arguments of each listener's method
  Events,                   \* of NetEventFlag
  Tracks,                   \* what the game has its listeners watch, and for which events
  Batches,                  \* the sets of events a batch is about
  MaxCalls,                 \* bound: what the game does in one callback
  Unset,                    \* no value
  Nobody                    \* the object_id of a listener whose object was found freed

ASSUME ListenersAssumption ==
  /\ Nobody \notin Listeners
  /\ Unset \notin Values
  /\ MaxCalls \in Nat
  /\ ArgumentCount \in [Listeners -> Nat]
ASSUME EventsAssumption ==
  /\ Batches \subseteq (SUBSET Events) \ {{}}
  /\ Tracks \subseteq Variables \X Listeners \X ((SUBSET Events) \ {{}})

VARIABLES
  alive,                    \* the listeners whose object exists
  registered,               \* the variables registered
  enabled,                  \* those not unregistered since
  value,                    \* the value the synchronizer has of each
  change_listeners,         \* of each variable, as indexes of event_listener: their order means nothing
  event_listener,
  event_flag,               \* the events of the batch
  phase,                    \* of the batch: "none", "adding" or "flushing"
  cursor,                   \* the listener that is next
  callback,                 \* what the game may still do in the callback that runs
  noted,                    \* history: the old values noted and not told yet, in this batch or before
  heard,                    \* history: the listeners something was noted for in this batch
  called,                   \* history: the listeners called in this flush
  passed,                   \* history: those not called, as they watch too few variables
  last_call                 \* history: the old values told in this turn of the flush

gameVars == <<alive, registered, enabled>>
phaseVars == <<event_flag, phase, cursor>>
batchVars == <<phaseVars, callback>>
callVars == <<called, passed, last_call>>
historyVars == <<noted, heard, callVars>>
vars == <<gameVars, value, change_listeners, event_listener, batchVars, historyVars>>

\* A variable watched, with its old value while old_set.
Watched == [var : Variables, old_value : Values \cup {Unset}]
ChangeListener == [
  listener : Listeners \cup {Nobody},
  flag : SUBSET Events,
  emitted : BOOLEAN,
  watching_vars : Seq(Watched)]

\* An old value noted or told: of which listener and variable.
Indexes == 1 .. Len(event_listener)
Note == [listener : Indexes, var : Variables, old_value : Values]

Init ==
  /\ alive = Listeners
  /\ registered = {}
  /\ enabled = {}
  /\ value = [v \in Variables |-> Unset]
  /\ change_listeners = [v \in Variables |-> {}]
  /\ event_listener = <<>>
  /\ event_flag = {}
  /\ phase = "none"
  /\ cursor = 1
  /\ callback = 0
  /\ noted = {}
  /\ heard = {}
  /\ called = {}
  /\ passed = {}
  /\ last_call = {}

\* The position of a variable among those a listener watches, if it is there.
Position(watching, v) == SelectInSeq(watching, LAMBDA w : w.var = v)
IsWatching(watching, v) == Position(watching, v) /= 0

\* LocalVector's erase and remove_unordered.
Erased(watching, v) == RemoveFirstMatch(watching, LAMBDA w : w.var = v)
RemovedUnordered(watching, k) ==
  SubSeq([watching EXCEPT ![k] = watching[Len(watching)]], 1, Len(watching) - 1)

\* drop_node_data takes the variables of a node out one after another.
WithoutFirst(watching, n) ==
  LET k == SelectInSeq(watching, LAMBDA w : NodeOf[w.var] = n)
  IN IF k = 0 THEN watching ELSE RemovedUnordered(watching, k)
WithoutNode(watching, n) ==
  LET After[k \in 0 .. Len(watching)] ==
        IF k = 0 THEN watching ELSE WithoutFirst(After[k - 1], n)
  IN After[Len(watching)]

\* The history of what is no longer watched ends.
ForgetWatch(Gone(_, _)) ==
  /\ noted' = {x \in noted : ~ Gone(x.listener, x.var)}
  /\ UNCHANGED <<heard, callVars>>

-----------------------------------------------------------------------------
(* The game, between the batches and in the callbacks. *)

GameRuns ==
  /\ phase = "none" \/ callback > 0
  /\ callback' = IF callback > 0 THEN callback - 1 ELSE 0

IndexOf(l) == SelectInSeq(event_listener, LAMBDA e : e.listener = l)

\* register_variable, and the register_node before it.
RegisterVariable(v, x) ==
  /\ GameRuns
  /\ v \notin enabled
  /\ registered' = registered \cup {v}
  /\ enabled' = enabled \cup {v}
  /\ value' = IF v \in registered THEN value ELSE [value EXCEPT ![v] = x]
  /\ UNCHANGED <<alive, change_listeners, event_listener, phaseVars, historyVars>>

\* The listener, which is added when the method has none yet.
ListenersWith(l, f) ==
  IF IndexOf(l) /= 0 THEN event_listener
  ELSE Append(event_listener,
         [listener |-> l, flag |-> f, emitted |-> TRUE, watching_vars |-> <<>>])

\* Mutant of Watching: without looking whether it is watched already.
WatchingAgain(watching, v) == Append(watching, [var |-> v, old_value |-> Unset])

\* What a listener watches with one more variable.
Watching(watching, v) ==
  IF IsWatching(watching, v) THEN watching
  ELSE Append(watching, [var |-> v, old_value |-> Unset])

\* track_variable_changes.
TrackVariableChanges(v, l, f) ==
  /\ GameRuns
  /\ v \in registered
  /\ l \in alive
  /\ IndexOf(l) /= 0 => event_listener[IndexOf(l)].flag = f
  /\ LET with == ListenersWith(l, f)
         i == IF IndexOf(l) = 0 THEN Len(with) ELSE IndexOf(l)
         watching == Watching(with[i].watching_vars, v)
     IN /\ event_listener' = [with EXCEPT ![i].watching_vars = watching]
        /\ change_listeners' = IF watching = with[i].watching_vars THEN change_listeners
                               ELSE [change_listeners EXCEPT ![v] = @ \cup {i}]
  /\ UNCHANGED <<gameVars, value, phaseVars, historyVars>>

\* untrack_variable_changes.
UntrackVariableChanges(v, l) ==
  LET i == IndexOf(l) IN
  /\ GameRuns
  /\ v \in registered
  /\ l \in alive
  /\ i /= 0
  /\ event_listener' = [event_listener EXCEPT ![i].watching_vars = Erased(@, v)]
  /\ change_listeners' = [change_listeners EXCEPT ![v] = @ \ {i}]
  /\ ForgetWatch(LAMBDA j, w : j = i /\ w = v)
  /\ UNCHANGED <<gameVars, value, phaseVars>>

\* Mutant of ListenersWithout: only the first of them.
FirstListenerWithout(v) ==
  [i \in DOMAIN event_listener |->
    IF \A j \in change_listeners[v] : i <= j
      THEN [event_listener[i] EXCEPT !.watching_vars = Erased(@, v)]
      ELSE event_listener[i]]

\* The listeners of a variable watch it no more.
ListenersWithout(v) ==
  [i \in DOMAIN event_listener |->
    IF i \in change_listeners[v]
      THEN [event_listener[i] EXCEPT !.watching_vars = Erased(@, v)]
      ELSE event_listener[i]]

\* unregister_variable: the variable keeps its place, without listeners.
UnregisterVariable(v) ==
  /\ GameRuns
  /\ v \in registered
  /\ enabled' = enabled \ {v}
  /\ event_listener' = ListenersWithout(v)
  /\ change_listeners' = [change_listeners EXCEPT ![v] = {}]
  /\ ForgetWatch(LAMBDA j, w : w = v)
  /\ UNCHANGED <<alive, registered, value, phaseVars>>

\* unregister_node, or the node leaves the tree: drop_node_data.
DropNode(n) ==
  LET gone == {v \in registered : NodeOf[v] = n} IN
  /\ GameRuns
  /\ gone /= {}
  /\ registered' = registered \ gone
  /\ enabled' = enabled \ gone
  /\ event_listener' = [i \in DOMAIN event_listener |->
       [event_listener[i] EXCEPT !.watching_vars = WithoutNode(@, n)]]
  /\ change_listeners' = [v \in Variables |-> IF v \in gone THEN {} ELSE change_listeners[v]]
  /\ value' = [v \in Variables |-> IF v \in gone THEN Unset ELSE value[v]]
  /\ ForgetWatch(LAMBDA j, w : w \in gone)
  /\ UNCHANGED <<alive, phaseVars>>

\* The object of a listener is freed.
FreeObject(l) ==
  /\ GameRuns
  /\ l \in alive
  /\ alive' = alive \ {l}
  /\ UNCHANGED <<registered, enabled, value, change_listeners, event_listener, phaseVars, historyVars>>

\* clear.
Clear ==
  /\ GameRuns
  /\ registered' = {}
  /\ enabled' = {}
  /\ change_listeners' = [v \in Variables |-> {}]
  /\ value' = [v \in Variables |-> Unset]
  /\ event_listener' = <<>>
  /\ noted' = {}
  /\ heard' = {}
  /\ called' = {}
  /\ passed' = {}
  /\ last_call' = {}
  /\ UNCHANGED <<alive, phaseVars>>

-----------------------------------------------------------------------------
(* A batch. *)

\* change_events_begin.
ChangeEventsBegin(f) ==
  /\ phase = "none"
  /\ phase' = "adding"
  /\ event_flag' = f
  /\ UNCHANGED <<gameVars, value, change_listeners, event_listener, cursor, callback, historyVars>>

\* The listeners that change_event_add notes a change of v in.
Hearing(v) ==
  {i \in change_listeners[v] : event_listener[i].flag \cap event_flag /= {}}

\* What a listener watches once the old value of v is noted.
OldNoted(watching, v, old) ==
  [watching EXCEPT ![Position(watching, v)].old_value = old]

\* What is a change to the code of each batch.  pull_node_changes compares the
\* variables in use, the end of a recovery those it remembered; a reset notes
\* every variable it sets, changed or not.
IsChange(v, old, new) ==
  \/ /\ event_flag \cap {"CHANGE", "SYNC_REWIND"} /= {}
     /\ v \in enabled /\ old = value[v] /\ new /= old
  \/ /\ "SYNC_RECOVER" \in event_flag /\ "SYNC_REWIND" \notin event_flag
     /\ v \in registered /\ old = value[v]
  \/ /\ "END_SYNC" \in event_flag
     /\ v \in registered /\ new = value[v] /\ old /= new

\* A change is found, and change_event_add.
ChangeEventAdd(v, old, new) ==
  /\ phase = "adding"
  /\ IsChange(v, old, new)
  /\ value' = [value EXCEPT ![v] = new]
  /\ event_listener' = [i \in DOMAIN event_listener |->
       IF i \in Hearing(v)
         THEN [event_listener[i] EXCEPT !.emitted = FALSE,
                                        !.watching_vars = OldNoted(@, v, old)]
         ELSE event_listener[i]]
  /\ noted' = {x \in noted : ~ (x.var = v /\ x.listener \in Hearing(v))}
       \cup {[listener |-> i, var |-> v, old_value |-> old] : i \in Hearing(v)}
  /\ heard' = heard \cup Hearing(v)
  /\ UNCHANGED <<gameVars, change_listeners, batchVars, callVars>>

\* change_events_flush begins.
FlushBegins ==
  /\ phase = "adding"
  /\ phase' = "flushing"
  /\ cursor' = 1
  /\ UNCHANGED <<gameVars, value, change_listeners, event_listener, event_flag, callback, historyVars>>

\* The listener whose turn it is.
Current == event_listener[cursor]

\* The argument of a variable: its old value, or its value if it did not change.
Argument(watched) == IF watched.old_value /= Unset THEN watched.old_value ELSE value[watched.var]

\* Mutant of Told: the old values stay for the next call.
ToldKept(watching, n) == watching

\* The first n old values are told.
Told(watching, n) ==
  [k \in DOMAIN watching |->
    IF k <= n THEN [watching[k] EXCEPT !.old_value = Unset] ELSE watching[k]]

\* A listener with nothing noted is passed over.
FlushSilent ==
  /\ Current.emitted
  /\ callback' = 0
  /\ last_call' = {}
  /\ UNCHANGED <<change_listeners, event_listener, noted, called, passed>>

\* The object of the listener is gone: it listens to nothing any more.
FlushFreed ==
  /\ ~ Current.emitted /\ Current.listener \notin alive
  /\ callback' = 0
  /\ event_listener' = [event_listener EXCEPT ![cursor] =
       [listener |-> Nobody, flag |-> {}, emitted |-> TRUE, watching_vars |-> <<>>]]
  /\ change_listeners' = [v \in Variables |->
       IF IsWatching(Current.watching_vars, v) THEN change_listeners[v] \ {cursor}
       ELSE change_listeners[v]]
  /\ noted' = {x \in noted : x.listener /= cursor}
  /\ last_call' = {}
  /\ UNCHANGED <<called, passed>>

\* Its method has more arguments than it watches variables: it is not called.
FlushBroken ==
  /\ ~ Current.emitted /\ Current.listener \in alive
  /\ ArgumentCount[Current.listener] > Len(Current.watching_vars)
  /\ callback' = 0
  /\ event_listener' = [event_listener EXCEPT ![cursor].emitted = TRUE]
  /\ passed' = passed \cup {cursor}
  /\ last_call' = {}
  /\ UNCHANGED <<change_listeners, noted, called>>

\* The listener is called.
FlushCall ==
  LET n == ArgumentCount[Current.listener] IN
  /\ ~ Current.emitted /\ Current.listener \in alive
  /\ n <= Len(Current.watching_vars)
  /\ callback' = MaxCalls
  /\ event_listener' = [event_listener EXCEPT ![cursor].emitted = TRUE,
                                              ![cursor].watching_vars = Told(@, n)]
  /\ called' = called \cup {cursor}
  /\ last_call' = {[listener |-> cursor, var |-> Current.watching_vars[k].var,
                    old_value |-> Argument(Current.watching_vars[k])] : k \in 1 .. n}
  /\ noted' = {x \in noted : \A y \in last_call' : x.listener = y.listener => x.var /= y.var}
  /\ UNCHANGED <<change_listeners, passed>>

\* A turn of the loop of change_events_flush.
FlushNext ==
  /\ phase = "flushing"
  /\ cursor <= Len(event_listener)
  /\ cursor' = cursor + 1
  /\ FlushSilent \/ FlushFreed \/ FlushBroken \/ FlushCall
  /\ UNCHANGED <<gameVars, value, event_flag, phase, heard>>

\* change_events_flush ends; nothing reads the events of the batch any more.
FlushEnds ==
  /\ phase = "flushing"
  /\ cursor > Len(event_listener)
  /\ phase' = "none"
  /\ cursor' = 1
  /\ event_flag' = {}
  /\ callback' = 0
  /\ heard' = {}
  /\ called' = {}
  /\ passed' = {}
  /\ last_call' = {}
  /\ UNCHANGED <<gameVars, value, change_listeners, event_listener, noted>>

-----------------------------------------------------------------------------
Game ==
  \/ \E v \in Variables, x \in Values : RegisterVariable(v, x)
  \/ \E t \in Tracks : TrackVariableChanges(t[1], t[2], t[3])
  \/ \E v \in Variables, l \in Listeners : UntrackVariableChanges(v, l)
  \/ \E v \in Variables : UnregisterVariable(v) \/ DropNode(NodeOf[v])
  \/ \E l \in Listeners : FreeObject(l)
  \/ Clear

Batch ==
  \/ \E f \in Batches : ChangeEventsBegin(f)
  \/ \E v \in Variables, old \in Values, new \in Values : ChangeEventAdd(v, old, new)
  \/ FlushBegins
  \/ FlushNext
  \/ FlushEnds

Spec == Init /\ [][Game \/ Batch]_vars

-----------------------------------------------------------------------------
TypeOK ==
  /\ alive \subseteq Listeners
  /\ enabled \subseteq registered /\ registered \subseteq Variables
  /\ value \in [Variables -> Values \cup {Unset}]
  /\ change_listeners \in [Variables -> SUBSET Indexes]
  /\ event_listener \in Seq(ChangeListener)
  /\ event_flag \in Batches \cup {{}}
  /\ phase \in {"none", "adding", "flushing"}
  /\ cursor \in Nat
  /\ callback \in 0 .. MaxCalls
  /\ noted \cup last_call \subseteq Note
  /\ heard \cup called \cup passed \subseteq Indexes
  /\ \A i \in Indexes : LET watching == event_listener[i].watching_vars IN
       \A j, k \in DOMAIN watching : watching[j].var = watching[k].var => j = k

\* The variables and the listeners name each other: a listener watches
\* exactly the variables that have its index, once each and only registered
\* ones, whatever is tracked, untracked, unregistered, dropped or freed,
\* during a flush or not.  ("This can't never happen because the
\* `NodeData::change_listeners` tracks the correct listener.",
\* change_event_add; drop_node_data, unregister_variable)
WatchersAgree ==
  /\ \A v \in Variables :
       /\ {i \in Indexes : IsWatching(event_listener[i].watching_vars, v)}
            = change_listeners[v]
       /\ change_listeners[v] /= {} => v \in registered
  /\ \A i, j \in Indexes : event_listener[i].listener = event_listener[j].listener
       => i = j \/ event_listener[i].listener = Nobody

\* What a call tells of a variable: the old value noted last, while it is not
\* told, and else the value the variable has.
IsRight(x) ==
  LET waiting == {y \in noted : y.listener = x.listener /\ y.var = x.var}
  IN IF waiting /= {} THEN x \in waiting ELSE x.old_value = value[x.var]

\* A flush calls the listeners that something was noted for in its batch, each
\* once, whatever its callbacks untrack, drop, free and clear; all but those whose
\* object is gone or whose method has more arguments than they watch variables.
\* A call tells of each variable the old value noted last and not told yet.  That
\* may be a note of an earlier batch, which had no argument to tell it, of a
\* variable that did not change in this one.  (change_event_add,
\* change_events_flush)
ChangesAreTold ==
  [][/\ FlushNext /\ cursor \in called' =>
          /\ cursor \in heard \ called
          /\ \A x \in last_call' : IsRight(x)
     /\ FlushEnds => \A i \in heard :
          i \in called \cup passed \/ event_listener[i].listener = Nobody]_vars

=============================================================================
