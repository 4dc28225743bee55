----------------------------- MODULE MediaStates -----------------------------
(***************************************************************************)
(* The media lifecycle of tutortwin/domain/media.py: the states of one      *)
(* attachment and the adjacency table `transition()` refuses to leave.      *)
(* Pure definitions, shared by MediaLifecycle and MediaJobs.                *)
(***************************************************************************)
EXTENDS Naturals, FiniteSets

MediaState ==
  {"RECEIVED_REFERENCE", "ENTITLEMENT_CHECKED", "WAITING_FOR_BRIEF",
   "BRIEF_RECEIVED", "FETCH_QUEUED", "FETCHED", "VALIDATED",
   "EXTRACTION_PLANNED", "EXTRACTING", "READY_FOR_CAPABILITY", "COMPLETED",
   "REJECTED", "FAILED", "EXPIRED"}

\* _ALLOWED: one set of successors per state.
Allowed == [s \in MediaState |->
  CASE s = "RECEIVED_REFERENCE"   -> {"ENTITLEMENT_CHECKED", "REJECTED", "EXPIRED"}
    [] s = "ENTITLEMENT_CHECKED"  -> {"WAITING_FOR_BRIEF", "BRIEF_RECEIVED",
                                      "REJECTED", "EXPIRED"}
    [] s = "WAITING_FOR_BRIEF"    -> {"BRIEF_RECEIVED", "EXPIRED", "REJECTED"}
    [] s = "BRIEF_RECEIVED"       -> {"FETCH_QUEUED", "REJECTED", "EXPIRED"}
    [] s = "FETCH_QUEUED"         -> {"FETCHED", "FAILED", "EXPIRED"}
    [] s = "FETCHED"              -> {"VALIDATED", "REJECTED", "FAILED"}
    [] s = "VALIDATED"            -> {"EXTRACTION_PLANNED", "REJECTED", "FAILED"}
    [] s = "EXTRACTION_PLANNED"   -> {"EXTRACTING", "FAILED"}
    [] s = "EXTRACTING"           -> {"READY_FOR_CAPABILITY", "FAILED"}
    [] s = "READY_FOR_CAPABILITY" -> {"COMPLETED", "FAILED", "EXPIRED"}
    [] s = "COMPLETED"            -> {"EXPIRED"}
    [] OTHER                      -> {}]

\* Mutant: a refactor that lets a held attachment be queued without a brief.
CanTransitionPastBrief(s, t) ==
  s = t \/ t \in Allowed[s] \/ (s = "WAITING_FOR_BRIEF" /\ t = "FETCH_QUEUED")

\* can_transition: staying put is always allowed.
CanTransition(s, t) == s = t \/ t \in Allowed[s]

\* The sets of states that `transition()` never leads out of.
ClosedSets == {c \in SUBSET MediaState : \A s \in c : Allowed[s] \subseteq c}

\* The states some sequence of `transition()` calls leads to.  A database
\* transaction makes several calls and commits only the last state.
Downstream ==
  [s \in MediaState |-> {t \in MediaState : \A c \in ClosedSets : s \in c => t \in c}]

Reaches(s, t) == t \in Downstream[s]
=============================================================================
