------------------------------ MODULE EventStore ------------------------------
(***************************************************************************)
(* What the parsing of recorded signatures promises, without jobs, locks,   *)
(* retries and lost answers.  A unit of work (a signature) stands for some  *)
(* of the events; it is marked as done in the step that stores all of them, *)
(* or once they are there.  Events are stored once and stay.                *)
(***************************************************************************)
CONSTANTS
  Units,   \* the units of work
  Events,  \* what there is to store
  Content  \* the events of each unit

VARIABLES
  events,  \* the events that are stored
  marked   \* the units that are done

storeVars == <<events, marked>>

Init == events = {} /\ marked = {}

\* A path that marks nothing stores something new.
Arrive(E) ==
  /\ E \cap events = {}
  /\ events' = events \cup E
  /\ UNCHANGED marked

\* One transaction: a single event that is there already rolls it back.
Save(u) ==
  /\ Content[u] \cap events = {}
  /\ events' = events \cup Content[u]
  /\ marked' = marked \cup {u}

\* Somebody else stored what u stands for.
Confirm(u) ==
  /\ Content[u] \subseteq events
  /\ marked' = marked \cup {u}
  /\ UNCHANGED events

Next ==
  \/ \E E \in SUBSET Events : Arrive(E)
  \/ \E u \in Units : Save(u) \/ Confirm(u)

Spec == Init /\ [][Next]_storeVars
=============================================================================
