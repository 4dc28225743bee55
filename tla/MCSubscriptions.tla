--------------------------- MODULE MCSubscriptions ---------------------------
(***************************************************************************)
(* Small instances of Subscriptions: every order is paid for the same       *)
(* student, each asking for a tutor of its own.                             *)
(***************************************************************************)
EXTENDS Subscriptions, TLC

CONSTANTS o1, o2, u1, u2

OnePayer  == [o \in Orders |-> CHOOSE s \in Students : TRUE]
OwnTutor  == [o \in Orders |-> IF o = o1 THEN u1 ELSE u2]

\* Requests are interchangeable.
TxSymmetry == Permutations(Tx)
==============================================================================
