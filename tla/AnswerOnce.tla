----------------------------- MODULE AnswerOnce -----------------------------
(***************************************************************************)
(* What the entry service promises of one inbound message: at any time at   *)
(* most one request works on it, an owner may give up and another take      *)
(* over, and the answer, once recorded, is the answer for good.             *)
(***************************************************************************)
CONSTANTS Events, Requests, Answers, NoAnswer

VARIABLES
  owner,   \* the requests working on the message
  answer   \* what is recorded for it

vars == <<owner, answer>>

Init ==
  /\ owner = [e \in Events |-> {}]
  /\ answer = [e \in Events |-> NoAnswer]

Take(e, r) ==
  /\ owner[e] = {}
  /\ answer[e] = NoAnswer
  /\ owner' = [owner EXCEPT ![e] = {r}]
  /\ UNCHANGED answer

GiveUp(e, r) ==
  /\ owner[e] = {r}
  /\ owner' = [owner EXCEPT ![e] = {}]
  /\ UNCHANGED answer

Record(e, r, a) ==
  /\ owner[e] = {r}
  /\ owner' = [owner EXCEPT ![e] = {}]
  /\ answer' = [answer EXCEPT ![e] = a]

Next ==
  \E e \in Events, r \in Requests :
    Take(e, r) \/ GiveUp(e, r) \/ \E a \in Answers : Record(e, r, a)

Spec == Init /\ [][Next]_vars
=============================================================================
