------------------------ MODULE MediaLifecycle_proofs ------------------------
(***************************************************************************)
(* There is no way around the gates, for any set of attachments.            *)
(***************************************************************************)
EXTENDS MediaLifecycle, TLAPS

\* The gates a state has behind it, whatever path led there.
Behind(s) ==
  IF s \in {"ENTITLEMENT_CHECKED", "WAITING_FOR_BRIEF"} THEN {"ENTITLEMENT_CHECKED"}
  ELSE IF s = "BRIEF_RECEIVED" THEN {"ENTITLEMENT_CHECKED", "BRIEF_RECEIVED"}
  ELSE IF s \in {"FETCH_QUEUED"} \cup PastTheGate THEN Gates
  ELSE {}

\* NoWayAroundTheGate alone is not inductive: it says nothing of the states
\* from which the gates are passed one by one.
IInv ==
  /\ TypeOK
  /\ NoWayAroundTheGate
  /\ \A m \in Media : Behind(state[m]) \subseteq visited[m]

\* Only FETCH_QUEUED leads past the gates from before them, and each gate is
\* reached only from states that have the earlier ones behind them.
LEMMA GatesInOrder ==
  ASSUME NEW s \in MediaState, NEW t \in MediaState, CanTransition(s, t)
  PROVE  /\ Behind(t) \subseteq Behind(s) \cup {t}
         /\ t \in PastTheGate => Behind(s) = Gates
<1>1. t = s \/ t \in Allowed[s]
  BY DEF CanTransition
<1>2. CASE t = s
  BY <1>2 DEF Behind, PastTheGate, Gates
<1>3. CASE t \in Allowed[s]
  BY <1>3 DEF Behind, PastTheGate, Gates, Allowed, MediaState
<1> QED BY <1>1, <1>2, <1>3

\* Every variable keeps its type, and no attachment is ever past the gates
\* without having been through them.
THEOREM GateTheorem == Spec => [](TypeOK /\ NoWayAroundTheGate)
<1>1. Init => IInv
  BY DEF Init, IInv, TypeOK, NoWayAroundTheGate, Behind, PastTheGate, Gates, MediaState
<1>2. IInv /\ [Next]_vars => IInv'
  <2> SUFFICES ASSUME IInv, [Next]_vars PROVE IInv'
    OBVIOUS
  <2>1. CASE UNCHANGED vars
    BY <2>1 DEF IInv, TypeOK, NoWayAroundTheGate, vars
  <2>2. ASSUME NEW m \in Media, NEW t \in MediaState, Transition(m, t)
        PROVE  IInv'
    <3>1. TypeOK'
      BY <2>2 DEF IInv, TypeOK, Transition
    <3>2. /\ state'[m] = t
          /\ visited'[m] = visited[m] \cup {t}
          /\ \A n \in Media \ {m} : state'[n] = state[n] /\ visited'[n] = visited[n]
      BY <2>2 DEF IInv, TypeOK, Transition
    <3>3. /\ Behind(t) \subseteq Behind(state[m]) \cup {t}
          /\ t \in PastTheGate => Behind(state[m]) = Gates
      BY <2>2, GatesInOrder DEF IInv, TypeOK, Transition
    <3>4. NoWayAroundTheGate'
      BY <3>2, <3>3 DEF IInv, NoWayAroundTheGate
    <3>5. \A n \in Media : Behind(state'[n]) \subseteq visited'[n]
      BY <3>2, <3>3 DEF IInv
    <3> QED BY <3>1, <3>4, <3>5 DEF IInv
  <2> QED BY <2>1, <2>2 DEF Next
<1> QED BY <1>1, <1>2, PTL DEF Spec, IInv
==============================================================================
