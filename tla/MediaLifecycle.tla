---------------------------- MODULE MediaLifecycle ----------------------------
(***************************************************************************)
(* The media state machine on its own: whatever sequence of `transition()`  *)
(* calls the code makes now or after a refactor, this is all they can do.   *)
(***************************************************************************)
EXTENDS MediaStates

CONSTANT Media

VARIABLES
  state,   \* media_objects.state
  visited  \* the states the attachment has been in

vars == <<state, visited>>

Init ==
  /\ state = [m \in Media |-> "RECEIVED_REFERENCE"]
  /\ visited = [m \in Media |-> {"RECEIVED_REFERENCE"}]

\* transition(): InvalidTransition is raised and nothing is written otherwise.
Transition(m, target) ==
  /\ CanTransition(state[m], target)
  /\ state' = [state EXCEPT ![m] = target]
  /\ visited' = [visited EXCEPT ![m] = @ \cup {target}]

Next == \E m \in Media, target \in MediaState : Transition(m, target)

Spec == Init /\ [][Next]_vars

\* Every variable has its type.
TypeOK ==
  /\ state \in [Media -> MediaState]
  /\ visited \in [Media -> SUBSET MediaState]

\* Past the gates: a byte may have been fetched.
PastTheGate ==
  {"FETCHED", "VALIDATED", "EXTRACTION_PLANNED", "EXTRACTING",
   "READY_FOR_CAPABILITY", "COMPLETED", "FAILED"}

\* The gates every path to a fetch goes through.
Gates == {"ENTITLEMENT_CHECKED", "BRIEF_RECEIVED", "FETCH_QUEUED"}

\* "Stops a future refactor from quietly routing around the brief gate": an
\* attachment that was ever past the gates has been through every one of them.
NoWayAroundTheGate ==
  \A m \in Media : visited[m] \cap PastTheGate # {} => Gates \subseteq visited[m]
===============================================================================
