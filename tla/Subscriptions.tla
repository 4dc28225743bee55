---------------------------- MODULE Subscriptions ----------------------------
(***************************************************************************)
(* A payment becomes a subscription.  Cashfree's webhook and the browser's  *)
(* poll of /public/orders/{id} both run activate_payment, an operator runs  *)
(* grant_manual_subscription, override_entitlement and assign_student; each *)
(* is one database transaction under READ COMMITTED, whose statements are   *)
(* the steps here.  Row locks are read off the steps of the transactions    *)
(* that hold them.                                                          *)
(***************************************************************************)
EXTENDS Naturals, Sequences, FiniteSets

CONSTANTS
  Students,      \* WhatsApp numbers
  Orders,        \* payments rows
  Payer,         \* [Orders -> Students], signups.whatsapp_number
  Tutors,
  Wanted,        \* [Orders -> Tutors], signups.tutor_name
  Tx,            \* requests served at once
  Comp,          \* the source of an operator's grant
  Grants,        \* bound on operator grants
  Overrides,     \* bound on entitlement overrides
  Reassigns,     \* bound on tutor reassignments
  Failures,      \* bound on failed attempts at paying
  MaxCrashes     \* bound on requests that die

ASSUME SubscriptionsAssumption ==
  /\ Payer \in [Orders -> Students]
  /\ Wanted \in [Orders -> Tutors]
  /\ Comp \notin Orders
  /\ Orders # {} /\ Students # {} /\ Tutors # {}
  /\ {Grants, Overrides, Reassigns, Failures, MaxCrashes} \subseteq Nat

VARIABLES
  known,     \* students with a committed tutortwin_subjects row
  pay,       \* payments: status and activated_at
  ents,      \* per student, the entitlements in order of insertion
  assigned,  \* per student, the tutor_assignments in order of insertion
  paid,      \* orders the gateway has the money of
  hook,      \* Cashfree's PAID webhook: none, due until a 2xx, done
  failHook,  \* its webhook for a failed attempt at the same order
  tx,        \* the requests
  notified,  \* per order, activation messages sent
  left       \* what remains of the bounds

vars == <<known, pay, ents, assigned, paid, hook, failHook, tx, notified, left>>

rows    == <<known, pay, ents, assigned>>
gateway == <<paid, hook, failHook>>

IdleTx == [pc |-> "idle", kind |-> "pay", hooked |-> FALSE, o |-> CHOOSE o \in Orders : TRUE,
           s |-> CHOOSE s \in Students : TRUE, tutor |-> CHOOSE u \in Tutors : TRUE,
           made |-> FALSE, retire |-> {}, insert |-> FALSE, old |-> {}]

Init ==
  /\ known \in SUBSET Students
  /\ pay = [o \in Orders |-> [status |-> "CREATED", activated |-> FALSE]]
  /\ ents = [s \in Students |-> <<>>]
  /\ assigned = [s \in Students |-> <<>>]
  /\ paid = {}
  /\ hook = [o \in Orders |-> "none"]
  /\ failHook = [o \in Orders |-> "none"]
  /\ tx = [t \in Tx |-> IdleTx]
  /\ notified = [o \in Orders |-> 0]
  /\ left = [grants |-> Grants, overrides |-> Overrides, reassigns |-> Reassigns,
             failures |-> Failures, crashes |-> MaxCrashes]

Go(t, pc) == tx' = [tx EXCEPT ![t].pc = pc]
End(t)    == tx' = [tx EXCEPT ![t] = IdleTx]

-----------------------------------------------------------------------------
(* The gateway.                                                             *)

AttemptFails(o) ==
  /\ o \notin paid
  /\ failHook[o] = "none"
  /\ left.failures > 0
  /\ left' = [left EXCEPT !.failures = @ - 1]
  /\ failHook' = [failHook EXCEPT ![o] = "due"]
  /\ UNCHANGED <<rows, paid, hook, tx, notified>>

StudentPays(o) ==
  /\ o \notin paid
  /\ paid' = paid \cup {o}
  /\ hook' = [hook EXCEPT ![o] = "due"]
  /\ UNCHANGED <<rows, failHook, tx, notified, left>>

\* A 2xx answer to the webhook stops it; a poll is somebody else's request.
Acked(t) == hook' = IF tx[t].hooked THEN [hook EXCEPT ![tx[t].o] = "done"] ELSE hook
-----------------------------------------------------------------------------
(* Locks.                                                                   *)

\* SELECT ... FOR UPDATE on the payments row, held to the end.
AfterPaymentLock == {"paid", "unknown", "known", "planned", "flushed", "locked", "read"}
HoldsPayment(t, o) == tx[t].kind = "pay" /\ tx[t].o = o /\ tx[t].pc \in AfterPaymentLock

\* SELECT ... FOR UPDATE on the subject row.
HoldsSubject(t, s) == tx[t].s = s /\ tx[t].pc \in {"locked", "read"}

\* The weaker lock an INSERT that references the subject takes.
SharesSubject(t, s) ==
  /\ tx[t].s = s
  /\ tx[t].pc \in {"flushed", "locked", "read"}
  /\ tx[t].insert \/ tx[t].kind = "grant"

Others(t) == Tx \ {t}

\* FOR UPDATE is granted when nobody else holds either lock.
SubjectFree(t) ==
  \A u \in Others(t) : ~HoldsSubject(u, tx[t].s) /\ ~SharesSubject(u, tx[t].s)

\* A referencing INSERT waits for FOR UPDATE only.
MayReference(t) == \A u \in Others(t) : ~HoldsSubject(u, tx[t].s)
-----------------------------------------------------------------------------
(* activate_payment and grant_manual_subscription.                          *)

\* _activate by a webhook (hooked) or by a poll that the gateway told the order
\* is paid.  The read takes no lock, and an activated order is left alone.
StartActivation(t, o, hooked) ==
  /\ tx[t].pc = "idle"
  /\ IF hooked THEN hook[o] = "due" ELSE o \in paid
  /\ ~pay[o].activated
  /\ tx' = [tx EXCEPT ![t] = [IdleTx EXCEPT !.pc = "unlocked", !.hooked = hooked, !.o = o,
                                           !.s = Payer[o], !.tutor = Wanted[o]]]
  /\ UNCHANGED <<rows, gateway, notified, left>>

\* payment_already_activated: the webhook is answered 200.
AlreadyActivated(o) ==
  /\ pay[o].activated
  /\ hook[o] = "due"
  /\ hook' = [hook EXCEPT ![o] = "done"]
  /\ UNCHANGED <<rows, paid, failHook, tx, notified, left>>

StartGrant(t, s, tutor) ==
  /\ tx[t].pc = "idle"
  /\ left.grants > 0
  /\ left' = [left EXCEPT !.grants = @ - 1]
  /\ tx' = [tx EXCEPT ![t] = [IdleTx EXCEPT !.pc = "paid", !.kind = "grant", !.s = s,
                                           !.tutor = tutor]]
  /\ UNCHANGED <<rows, gateway, notified>>

\* Mutant: the value read before the lock is trusted.
LostTheRaceNever(o) == FALSE

\* The re-check under the lock.
LostTheRace(o) == pay[o].activated

LockPayment(t) ==
  LET o == tx[t].o IN
  /\ tx[t].pc = "unlocked"
  /\ \A u \in Others(t) : ~HoldsPayment(u, o)
  /\ IF LostTheRace(o) THEN End(t) /\ Acked(t) ELSE Go(t, "paid") /\ UNCHANGED hook
  /\ UNCHANGED <<rows, paid, failHook, notified, left>>

\* get_or_create_subject: the SELECT ...
FindSubject(t) ==
  /\ tx[t].pc = "paid"
  /\ Go(t, IF tx[t].s \in known THEN "known" ELSE "unknown")
  /\ UNCHANGED <<rows, gateway, notified, left>>

\* Mutant: the rival's insert is caught and the webhook answered 200.
InsertSubjectCaught(t) ==
  /\ tx[t].pc = "unknown"
  /\ \A u \in Others(t) : ~(tx[u].made /\ tx[u].s = tx[t].s)
  /\ IF tx[t].s \in known
     THEN End(t) /\ Acked(t)
     ELSE tx' = [tx EXCEPT ![t].pc = "known", ![t].made = TRUE] /\ UNCHANGED hook
  /\ UNCHANGED <<rows, paid, failHook, notified, left>>

\* ... and the INSERT, which waits for a rival's insert of the same number
\* and fails if that one commits.
InsertSubject(t) ==
  /\ tx[t].pc = "unknown"
  /\ \A u \in Others(t) : ~(tx[u].made /\ tx[u].s = tx[t].s)
  /\ tx' = [tx EXCEPT ![t] = IF tx[t].s \in known THEN IdleTx
                             ELSE [@ EXCEPT !.pc = "known", !.made = TRUE]]
  /\ UNCHANGED <<rows, gateway, notified, left>>

ActiveTutors(s) == {i \in DOMAIN assigned[s] : assigned[s][i].active}

\* assign_named_tutor plans its writes; nothing is locked.
ReadAssignments(t) ==
  LET s    == tx[t].s
      mine == {i \in ActiveTutors(s) : assigned[s][i].tutor = tx[t].tutor}
  IN  /\ tx[t].pc = "known"
      /\ tx' = [tx EXCEPT ![t].pc = "planned",
                          ![t].retire = ActiveTutors(s) \ mine,
                          ![t].insert = mine = {}]
      /\ UNCHANGED <<rows, gateway, notified, left>>

\* The next statement flushes them.
FlushAssignments(t) ==
  /\ tx[t].pc = "planned"
  /\ tx[t].insert \/ tx[t].kind = "grant" => MayReference(t)
  /\ \A u \in Others(t) : tx[u].s = tx[t].s /\ tx[u].pc \in {"flushed", "locked", "read"}
                             => tx[u].retire \cap tx[t].retire = {}
  /\ Go(t, "flushed")
  /\ UNCHANGED <<rows, gateway, notified, left>>

\* Mutant: with_for_update is forgotten.
LockSubjectNot(t) ==
  /\ tx[t].pc = "flushed"
  /\ Go(t, "locked")
  /\ UNCHANGED <<rows, gateway, notified, left>>

\* _supersede_active_entitlements: the lock ...
LockSubject(t) ==
  /\ tx[t].pc = "flushed"
  /\ SubjectFree(t)
  /\ Go(t, "locked")
  /\ UNCHANGED <<rows, gateway, notified, left>>

Active(s) == {i \in DOMAIN ents[s] : ents[s][i].status = "ACTIVE"}

\* ... and the scan behind it.
ReadActive(t) ==
  /\ tx[t].pc = "locked"
  /\ tx' = [tx EXCEPT ![t].pc = "read", ![t].old = Active(tx[t].s)]
  /\ UNCHANGED <<rows, gateway, notified, left>>

\* Mutant: the previous term gets a status nobody knows.
SupersedeMislabelled(list, old) ==
  [i \in DOMAIN list |-> IF i \in old THEN [list[i] EXCEPT !.status = "REPLACED"] ELSE list[i]]

Supersede(list, old) ==
  [i \in DOMAIN list |-> IF i \in old THEN [list[i] EXCEPT !.status = "SUPERSEDED"] ELSE list[i]]

Retire(list, retired) ==
  [i \in DOMAIN list |-> IF i \in retired THEN [list[i] EXCEPT !.active = FALSE] ELSE list[i]]

SourceOf(t) == IF tx[t].kind = "pay" THEN tx[t].o ELSE Comp

\* Mutant: the previous term is left ACTIVE.
TermsAfterUnretired(t) ==
  Append(ents[tx[t].s], [source |-> SourceOf(t), status |-> "ACTIVE"])

\* The entitlements the transaction leaves.
TermsAfter(t) ==
  Append(Supersede(ents[tx[t].s], tx[t].old), [source |-> SourceOf(t), status |-> "ACTIVE"])

TutorsAfter(t) ==
  LET kept == Retire(assigned[tx[t].s], tx[t].retire)
  IN  IF tx[t].insert THEN Append(kept, [tutor |-> tx[t].tutor, active |-> TRUE]) ELSE kept

\* Everything is written by one COMMIT.
Commit(t) ==
  LET s == tx[t].s
      o == tx[t].o
  IN  /\ tx[t].pc = "read"
      /\ known' = known \cup {s}
      /\ ents' = [ents EXCEPT ![s] = TermsAfter(t)]
      /\ assigned' = [assigned EXCEPT ![s] = TutorsAfter(t)]
      /\ IF tx[t].kind = "pay"
         THEN /\ pay' = [pay EXCEPT ![o] = [status |-> "PAID", activated |-> TRUE]]
              /\ Go(t, "notify")
         ELSE UNCHANGED pay /\ End(t)
      /\ UNCHANGED <<gateway, notified, left>>

\* notify_activation, after the commit; then 200.
Notify(t) ==
  /\ tx[t].pc = "notify"
  /\ notified' = [notified EXCEPT ![tx[t].o] = @ + 1]
  /\ Acked(t)
  /\ End(t)
  /\ UNCHANGED <<rows, paid, failHook, left>>
-----------------------------------------------------------------------------
(* The other writers, none of which takes the subject's lock first.         *)

\* The webhook of a failed attempt reads activated_at without a lock ...
FailureReads(t, o) ==
  /\ tx[t].pc = "idle"
  /\ failHook[o] = "due"
  /\ IF pay[o].activated
     THEN failHook' = [failHook EXCEPT ![o] = "done"] /\ UNCHANGED tx
     ELSE /\ tx' = [tx EXCEPT ![t] = [IdleTx EXCEPT !.pc = "failing", !.kind = "fail", !.o = o]]
          /\ UNCHANGED failHook
  /\ UNCHANGED <<rows, paid, hook, notified, left>>

\* ... and writes the status once the row is free.
FailureWrites(t) ==
  LET o == tx[t].o IN
  /\ tx[t].pc = "failing"
  /\ \A u \in Others(t) : ~HoldsPayment(u, o)
  /\ pay' = [pay EXCEPT ![o].status = "FAILED"]
  /\ failHook' = [failHook EXCEPT ![o] = "done"]
  /\ End(t)
  /\ UNCHANGED <<known, ents, assigned, paid, hook, notified, left>>

\* override_entitlement: one ACTIVE row, if there is one, is superseded.
OverrideReads(t, s) ==
  /\ tx[t].pc = "idle"
  /\ left.overrides > 0
  /\ s \in known
  /\ left' = [left EXCEPT !.overrides = @ - 1]
  /\ \E old \in IF Active(s) = {} THEN {{}} ELSE {{i} : i \in Active(s)} :
       tx' = [tx EXCEPT ![t] = [IdleTx EXCEPT !.pc = "override", !.kind = "override",
                                             !.s = s, !.old = old]]
  /\ UNCHANGED <<rows, gateway, notified>>

OverrideWrites(t) ==
  LET s == tx[t].s IN
  /\ tx[t].pc = "override"
  /\ MayReference(t)
  /\ \E status \in {"ACTIVE", "SUSPENDED"} :
       ents' = [ents EXCEPT ![s] = Append(Supersede(@, tx[t].old),
                                          [source |-> Comp, status |-> status])]
  /\ End(t)
  /\ UNCHANGED <<known, pay, assigned, gateway, notified, left>>

\* assign_student: the active assignments are retired, a new one inserted.
ReassignReads(t, s, tutor) ==
  /\ tx[t].pc = "idle"
  /\ left.reassigns > 0
  /\ s \in known
  /\ left' = [left EXCEPT !.reassigns = @ - 1]
  /\ tx' = [tx EXCEPT ![t] = [IdleTx EXCEPT !.pc = "reassign", !.kind = "reassign", !.s = s,
                                           !.tutor = tutor, !.insert = TRUE,
                                           !.retire = ActiveTutors(s)]]
  /\ UNCHANGED <<rows, gateway, notified>>

ReassignWrites(t) ==
  /\ tx[t].pc = "reassign"
  /\ MayReference(t)
  /\ assigned' = [assigned EXCEPT ![tx[t].s] = TutorsAfter(t)]
  /\ End(t)
  /\ UNCHANGED <<known, pay, ents, gateway, notified, left>>
-----------------------------------------------------------------------------
(* Failures.                                                                *)

\* Postgres ends a deadlock by aborting one party: both hold the weak lock of
\* the student and want the strong one.
DeadlockVictim(t) ==
  /\ tx[t].pc = "flushed"
  /\ SharesSubject(t, tx[t].s)
  /\ \E u \in Others(t) : tx[u].pc = "flushed" /\ SharesSubject(u, tx[t].s)
  /\ End(t)
  /\ UNCHANGED <<rows, gateway, notified, left>>

\* The request dies: an exception, a lost connection, the container.  A webhook
\* gets no 2xx, and Cashfree will deliver it again.
Crash(t) ==
  /\ tx[t].pc # "idle"
  /\ left.crashes > 0
  /\ left' = [left EXCEPT !.crashes = @ - 1]
  /\ End(t)
  /\ UNCHANGED <<rows, gateway, notified>>
-----------------------------------------------------------------------------
Step(t) ==
  \/ LockPayment(t) \/ FindSubject(t) \/ InsertSubject(t) \/ ReadAssignments(t)
  \/ FlushAssignments(t) \/ LockSubject(t) \/ ReadActive(t) \/ Commit(t) \/ Notify(t)
  \/ FailureWrites(t) \/ OverrideWrites(t) \/ ReassignWrites(t) \/ DeadlockVictim(t)

Next ==
  \/ \E o \in Orders : AttemptFails(o) \/ StudentPays(o) \/ AlreadyActivated(o)
  \/ \E t \in Tx, o \in Orders : \/ \E hooked \in BOOLEAN : StartActivation(t, o, hooked)
                                  \/ FailureReads(t, o)
  \/ \E t \in Tx, s \in Students, tutor \in Tutors :
       StartGrant(t, s, tutor) \/ ReassignReads(t, s, tutor)
  \/ \E t \in Tx, s \in Students : OverrideReads(t, s)
  \/ \E t \in Tx : Step(t) \/ Crash(t)

Spec == Init /\ [][Next]_vars

\* The database and the handlers make progress, a lock that is free again
\* goes to the transaction that queues for it, and Cashfree repeats a webhook
\* until it is answered.  A poll is the student's choice.
Fairness ==
  /\ \A t \in Tx : /\ WF_vars(Step(t))
                   /\ SF_vars(LockPayment(t))
                   /\ SF_vars(LockSubject(t))
  /\ \A o \in Orders : SF_vars(\E t \in Tx : StartActivation(t, o, TRUE))

FairSpec == Spec /\ Fairness
-----------------------------------------------------------------------------
(* Properties.                                                              *)

Kind == {"pay", "grant", "fail", "override", "reassign"}
PC == {"idle", "unlocked", "notify", "failing", "override", "reassign"} \cup AfterPaymentLock

TxRow == [pc : PC, kind : Kind, hooked : BOOLEAN, o : Orders, s : Students, tutor : Tutors, made : BOOLEAN,
          retire : SUBSET Nat, insert : BOOLEAN, old : SUBSET Nat]

Term == [source : Orders \cup {Comp}, status : {"ACTIVE", "SUPERSEDED", "SUSPENDED"}]

\* Every variable has its type.
TypeOK ==
  /\ known \subseteq Students
  /\ pay \in [Orders -> [status : {"CREATED", "FAILED", "PAID"}, activated : BOOLEAN]]
  /\ ents \in [Students -> Seq(Term)]
  /\ assigned \in [Students -> Seq([tutor : Tutors, active : BOOLEAN])]
  /\ paid \subseteq Orders
  /\ hook \in [Orders -> {"none", "due", "done"}]
  /\ failHook \in [Orders -> {"none", "due", "done"}]
  /\ tx \in [Tx -> TxRow]
  /\ notified \in [Orders -> Nat]
  /\ left \in [grants : Nat, overrides : Nat, reassigns : Nat, failures : Nat, crashes : Nat]

\* The terms an order paid for.
GrantsOf(o) == {i \in DOMAIN ents[Payer[o]] : ents[Payer[o]][i].source = o}

\* An activated order has exactly one entitlement and any other order none,
\* whatever mix of webhooks, polls, crashes and deadlocks it goes through.
ActivatedMeansGrantedOnce ==
  \A o \in Orders : Cardinality(GrantsOf(o)) = IF pay[o].activated THEN 1 ELSE 0

\* The student is never messaged twice about one order, nor about an order
\* that was not activated.
ToldAtMostOnce == \A o \in Orders : notified[o] <= IF pay[o].activated THEN 1 ELSE 0

\* Without overrides: of all the terms a student was ever granted, the newest
\* and only the newest is ACTIVE.
NewestTermInForce ==
  \A s \in Students : Active(s) = IF ents[s] = <<>> THEN {} ELSE {Len(ents[s])}

\* The ledger this module implements when no operator overrides.
Ledger == INSTANCE SubscriptionLedger WITH
  terms   <- [s \in Students |-> [i \in DOMAIN ents[s] |-> ents[s][i].source]],
  inForce <- [s \in Students |->
                IF Cardinality(Active(s)) = 1 THEN CHOOSE i \in Active(s) : TRUE ELSE 0]

\* Every grant is one atomic grant of the abstract ledger.
ImplementsLedger == Ledger!Spec

\* Money that arrived becomes a subscription.
PaidOrdersActivate == \A o \in Orders : o \in paid ~> pay[o].activated
-----------------------------------------------------------------------------
(* What a comment in the code says of it and the code does not do.          *)

\* "One active assignment per student, which is the invariant the admin
\* reassign endpoint already enforces" (assign_named_tutor).
OneActiveTutor == \A s \in Students : Cardinality(ActiveTutors(s)) <= 1
=============================================================================
