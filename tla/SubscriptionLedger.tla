-------------------------- MODULE SubscriptionLedger --------------------------
(***************************************************************************)
(* What services/subscriptions.py promises, without transactions: a term    *)
(* is granted, the newest term of a student is the one in force, and no     *)
(* order is ever granted twice.                                             *)
(***************************************************************************)
EXTENDS Naturals, Sequences

CONSTANTS
  Students,
  Orders,   \* payments
  Comp      \* a grant by an operator, with no order behind it

VARIABLES
  terms,    \* per student, what granted each term, oldest first
  inForce   \* per student, the term that gives access, 0 = none

Granted == {o \in Orders : \E s \in Students : \E i \in DOMAIN terms[s] : terms[s][i] = o}

Init ==
  /\ terms = [s \in Students |-> <<>>]
  /\ inForce = [s \in Students |-> 0]

Grant(s, source) ==
  /\ source \notin Granted
  /\ terms' = [terms EXCEPT ![s] = Append(@, source)]
  /\ inForce' = [inForce EXCEPT ![s] = Len(terms[s]) + 1]

Next == \E s \in Students, source \in Orders \cup {Comp} : Grant(s, source)

Spec == Init /\ [][Next]_<<terms, inForce>>
===============================================================================
