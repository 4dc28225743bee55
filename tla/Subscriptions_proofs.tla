------------------------- MODULE Subscriptions_proofs -------------------------
(***************************************************************************)
(* What Subscriptions does for any number of students, orders, tutors and   *)
(* concurrent requests, and for any bounds on grants, overrides, failures   *)
(* and crashes.                                                             *)
(***************************************************************************)
EXTENDS Subscriptions, SequenceTheorems, FiniteSetTheorems, TLAPS

USE SubscriptionsAssumption

-----------------------------------------------------------------------------
(* Every variable keeps its type.                                           *)

LEMMA IdleTxType == IdleTx \in TxRow
<1>1. /\ (CHOOSE o \in Orders : TRUE) \in Orders
      /\ (CHOOSE s \in Students : TRUE) \in Students
      /\ (CHOOSE u \in Tutors : TRUE) \in Tutors
  OBVIOUS
<1> QED BY <1>1 DEF IdleTx, TxRow, PC, Kind

\* A request that moves on or ends is a request.
LEMMA TxKeepsType ==
  ASSUME tx \in [Tx -> TxRow], NEW t \in Tx
  PROVE  /\ \A pc \in PC : [tx EXCEPT ![t].pc = pc] \in [Tx -> TxRow]
         /\ \A row \in TxRow : [tx EXCEPT ![t] = row] \in [Tx -> TxRow]
         /\ [tx EXCEPT ![t] = IdleTx] \in [Tx -> TxRow]
<1>1. ASSUME NEW pc \in PC PROVE [tx EXCEPT ![t].pc = pc] \in [Tx -> TxRow]
  <2>1. [tx[t] EXCEPT !.pc = pc] \in TxRow
    BY DEF TxRow
  <2> QED BY <2>1
<1> QED BY <1>1, IdleTxType

\* What remains of the bounds, and what one step may take of it.
LeftRow == [grants : Nat, overrides : Nat, reassigns : Nat, failures : Nat, crashes : Nat]

LEMMA LeftKeepsType ==
  ASSUME left \in LeftRow, NEW n \in Nat
  PROVE  /\ [left EXCEPT !.grants = n] \in LeftRow
         /\ [left EXCEPT !.overrides = n] \in LeftRow
         /\ [left EXCEPT !.reassigns = n] \in LeftRow
         /\ [left EXCEPT !.failures = n] \in LeftRow
         /\ [left EXCEPT !.crashes = n] \in LeftRow
  BY DEF LeftRow

\* A bound that is not used up can be counted down.
LEMMA LeftCountsDown ==
  ASSUME left \in LeftRow
  PROVE  /\ left.grants > 0    => [left EXCEPT !.grants = @ - 1] \in LeftRow
         /\ left.overrides > 0 => [left EXCEPT !.overrides = @ - 1] \in LeftRow
         /\ left.reassigns > 0 => [left EXCEPT !.reassigns = @ - 1] \in LeftRow
         /\ left.failures > 0  => [left EXCEPT !.failures = @ - 1] \in LeftRow
         /\ left.crashes > 0   => [left EXCEPT !.crashes = @ - 1] \in LeftRow
<1>1. /\ left.grants > 0    => left.grants - 1 \in Nat
      /\ left.overrides > 0 => left.overrides - 1 \in Nat
      /\ left.reassigns > 0 => left.reassigns - 1 \in Nat
      /\ left.failures > 0  => left.failures - 1 \in Nat
      /\ left.crashes > 0   => left.crashes - 1 \in Nat
  BY DEF LeftRow
<1> QED BY <1>1, LeftKeepsType

\* The two ways a statement rewrites a list keep its length and its rows' type.
LEMMA SupersedeType ==
  ASSUME NEW list \in Seq(Term), NEW old
  PROVE  Supersede(list, old) \in Seq(Term) /\ Len(Supersede(list, old)) = Len(list)
<1>1. Len(list) \in Nat /\ list \in [1 .. Len(list) -> Term] /\ DOMAIN list = 1 .. Len(list)
  BY LenProperties
<1>2. ASSUME NEW row \in Term PROVE [row EXCEPT !.status = "SUPERSEDED"] \in Term
  BY DEF Term
<1>3. Supersede(list, old) \in [1 .. Len(list) -> Term]
  BY <1>1, <1>2 DEF Supersede
<1>4. Supersede(list, old) \in Seq(Term)
  BY <1>1, <1>3, SeqDef
<1> QED BY <1>1, <1>3, <1>4, LenProperties

LEMMA RetireType ==
  ASSUME NEW list \in Seq([tutor : Tutors, active : BOOLEAN]), NEW retired
  PROVE  Retire(list, retired) \in Seq([tutor : Tutors, active : BOOLEAN])
<1> DEFINE Row == [tutor : Tutors, active : BOOLEAN]
<1>1. Len(list) \in Nat /\ list \in [1 .. Len(list) -> Row] /\ DOMAIN list = 1 .. Len(list)
  BY LenProperties
<1>2. ASSUME NEW row \in Row PROVE [row EXCEPT !.active = FALSE] \in Row
  OBVIOUS
<1> HIDE DEF Row
<1>3. Retire(list, retired) \in [1 .. Len(list) -> Row]
  BY <1>1, <1>2 DEF Retire
<1>4. Retire(list, retired) \in Seq(Row)
  BY <1>1, <1>3, SeqDef
<1> QED BY <1>4 DEF Row

\* Indices of a list are numbers.
LEMMA IndexTypes ==
  ASSUME TypeOK, NEW s \in Students
  PROVE  Active(s) \subseteq Nat /\ ActiveTutors(s) \subseteq Nat
<1>1. ents[s] \in Seq(Term) /\ assigned[s] \in Seq([tutor : Tutors, active : BOOLEAN])
  BY DEF TypeOK
<1>2. DOMAIN ents[s] \subseteq Nat /\ DOMAIN assigned[s] \subseteq Nat
  BY <1>1, LenProperties
<1> QED BY <1>2 DEF Active, ActiveTutors

LEMMA WritesKeepType ==
  ASSUME TypeOK, NEW t \in Tx
  PROVE  /\ TermsAfter(t) \in Seq(Term)
         /\ TutorsAfter(t) \in Seq([tutor : Tutors, active : BOOLEAN])
<1>1. tx[t] \in TxRow /\ tx[t].s \in Students /\ tx[t].o \in Orders /\ tx[t].tutor \in Tutors
  BY DEF TypeOK, TxRow
<1>2. [source |-> SourceOf(t), status |-> "ACTIVE"] \in Term
  BY <1>1 DEF SourceOf, Term
<1>3. Supersede(ents[tx[t].s], tx[t].old) \in Seq(Term)
  BY <1>1, SupersedeType DEF TypeOK
<1>4. Retire(assigned[tx[t].s], tx[t].retire) \in Seq([tutor : Tutors, active : BOOLEAN])
  BY <1>1, RetireType DEF TypeOK
<1>5. TermsAfter(t) \in Seq(Term)
  BY <1>2, <1>3 DEF TermsAfter
<1>6. [tutor |-> tx[t].tutor, active |-> TRUE] \in [tutor : Tutors, active : BOOLEAN]
  BY <1>1
<1>7. TutorsAfter(t) \in Seq([tutor : Tutors, active : BOOLEAN])
  <2> DEFINE Row  == [tutor : Tutors, active : BOOLEAN]
             kept == Retire(assigned[tx[t].s], tx[t].retire)
             new  == [tutor |-> tx[t].tutor, active |-> TRUE]
  <2>1. kept \in Seq(Row) /\ new \in Row
    BY <1>4, <1>6
  <2>2. TutorsAfter(t) = IF tx[t].insert THEN Append(kept, new) ELSE kept
    BY DEF TutorsAfter
  <2> HIDE DEF Row, kept, new
  <2>3. TutorsAfter(t) \in Seq(Row)
    BY <2>1, <2>2
  <2> QED BY <2>3 DEF Row
<1> QED BY <1>5, <1>7

LEMMA InitTypes == Init => TypeOK
<1> SUFFICES ASSUME Init PROVE TypeOK
  OBVIOUS
<1>1. tx \in [Tx -> TxRow]
  BY IdleTxType DEF Init
<1>2. left \in LeftRow
  BY DEF Init, LeftRow
<1>3. \A s \in Students : <<>> \in Seq(Term) /\ <<>> \in Seq([tutor : Tutors, active : BOOLEAN])
  OBVIOUS
<1> QED BY <1>1, <1>2, <1>3 DEF Init, TypeOK, LeftRow

LEMMA TypeStep == TypeOK /\ [Next]_vars => TypeOK'
<1> SUFFICES ASSUME TypeOK, [Next]_vars PROVE TypeOK'
  OBVIOUS
<1> USE DEF rows, gateway
<1>0. \A t \in Tx : /\ tx[t] \in TxRow /\ tx[t].s \in Students /\ tx[t].o \in Orders
                    /\ tx[t].old \subseteq Nat /\ tx[t].retire \subseteq Nat
  BY DEF TypeOK, TxRow
<1>a. left \in LeftRow /\ tx \in [Tx -> TxRow]
  BY DEF TypeOK, LeftRow
<1>1. CASE UNCHANGED vars
  BY <1>1 DEF vars, TypeOK
<1>2. ASSUME NEW o \in Orders, AttemptFails(o) \/ StudentPays(o) \/ AlreadyActivated(o)
      PROVE TypeOK'
  <2>1. left' \in LeftRow
    BY <1>2, <1>a, LeftCountsDown DEF AttemptFails, StudentPays, AlreadyActivated
  <2>2. UNCHANGED <<known, pay, ents, assigned, tx, notified>>
    BY <1>2 DEF AttemptFails, StudentPays, AlreadyActivated
  <2>3. /\ paid' \subseteq Orders
        /\ hook' \in [Orders -> {"none", "due", "done"}]
        /\ failHook' \in [Orders -> {"none", "due", "done"}]
    BY <1>2 DEF AttemptFails, StudentPays, AlreadyActivated, TypeOK
  <2> QED BY <2>1, <2>2, <2>3 DEF TypeOK, LeftRow
<1>3. ASSUME NEW t \in Tx, NEW o \in Orders, NEW hooked \in BOOLEAN, StartActivation(t, o, hooked)
      PROVE TypeOK'
  <2>1. [IdleTx EXCEPT !.pc = "unlocked", !.hooked = hooked, !.o = o,
                       !.s = Payer[o], !.tutor = Wanted[o]] \in TxRow
    BY IdleTxType DEF TxRow, PC
  <2>2. tx' \in [Tx -> TxRow]
    BY <1>3, <2>1 DEF StartActivation, TypeOK
  <2> QED BY <1>3, <2>2 DEF StartActivation, TypeOK
<1>4. ASSUME NEW t \in Tx, NEW o \in Orders, FailureReads(t, o) PROVE TypeOK'
  <2>1. [IdleTx EXCEPT !.pc = "failing", !.kind = "fail", !.o = o] \in TxRow
    BY IdleTxType DEF TxRow, PC, Kind
  <2>2. tx' \in [Tx -> TxRow]
    <3> DEFINE row == [IdleTx EXCEPT !.pc = "failing", !.kind = "fail", !.o = o]
    <3>1. UNCHANGED tx \/ tx' = [tx EXCEPT ![t] = row]
      BY <1>4 DEF FailureReads
    <3> HIDE DEF row
    <3> QED BY <1>a, <2>1, <3>1 DEF row
  <2>3. failHook' \in [Orders -> {"none", "due", "done"}]
    <3>1. UNCHANGED failHook \/ failHook' = [failHook EXCEPT ![o] = "done"]
      BY <1>4 DEF FailureReads
    <3> QED BY <3>1 DEF TypeOK
  <2> QED BY <1>4, <2>2, <2>3 DEF FailureReads, TypeOK
<1>5. ASSUME NEW t \in Tx, NEW s \in Students, NEW tutor \in Tutors, StartGrant(t, s, tutor)
      PROVE TypeOK'
  <2>1. [IdleTx EXCEPT !.pc = "paid", !.kind = "grant", !.s = s, !.tutor = tutor] \in TxRow
    BY IdleTxType DEF TxRow, PC, Kind, AfterPaymentLock
  <2>2. tx' \in [Tx -> TxRow]
    BY <1>5, <2>1 DEF StartGrant, TypeOK
  <2>3. left' \in LeftRow
    BY <1>5, <1>a, LeftCountsDown DEF StartGrant
  <2> QED BY <1>5, <2>2, <2>3 DEF StartGrant, TypeOK, LeftRow
<1>6. ASSUME NEW t \in Tx, NEW s \in Students, NEW tutor \in Tutors, ReassignReads(t, s, tutor)
      PROVE TypeOK'
  <2>1. [IdleTx EXCEPT !.pc = "reassign", !.kind = "reassign", !.s = s, !.tutor = tutor,
                       !.insert = TRUE, !.retire = ActiveTutors(s)] \in TxRow
    BY IdleTxType, IndexTypes DEF TxRow, PC, Kind
  <2>2. tx' \in [Tx -> TxRow]
    BY <1>6, <2>1 DEF ReassignReads, TypeOK
  <2>3. left' \in LeftRow
    BY <1>6, <1>a, LeftCountsDown DEF ReassignReads
  <2> QED BY <1>6, <2>2, <2>3 DEF ReassignReads, TypeOK, LeftRow
<1>7. ASSUME NEW t \in Tx, NEW s \in Students, OverrideReads(t, s) PROVE TypeOK'
  <2>1. PICK old \in IF Active(s) = {} THEN {{}} ELSE {{i} : i \in Active(s)} :
          tx' = [tx EXCEPT ![t] = [IdleTx EXCEPT !.pc = "override", !.kind = "override",
                                                !.s = s, !.old = old]]
    BY <1>7 DEF OverrideReads
  <2>2. old \subseteq Nat
    BY IndexTypes
  <2>3. [IdleTx EXCEPT !.pc = "override", !.kind = "override", !.s = s, !.old = old] \in TxRow
    BY <2>2, IdleTxType DEF TxRow, PC, Kind
  <2>4. tx' \in [Tx -> TxRow]
    BY <2>1, <2>3 DEF TypeOK
  <2>5. left' \in LeftRow
    BY <1>7, <1>a, LeftCountsDown DEF OverrideReads
  <2> QED BY <1>7, <2>4, <2>5 DEF OverrideReads, TypeOK, LeftRow
<1>8. ASSUME NEW t \in Tx, Step(t) PROVE TypeOK'
  <2>1. CASE LockPayment(t)
    <3>1. "paid" \in PC
      BY DEF PC, AfterPaymentLock
    <3>2. tx' \in [Tx -> TxRow]
      <4>1. tx' = [tx EXCEPT ![t].pc = "paid"] \/ tx' = [tx EXCEPT ![t] = IdleTx]
        BY <2>1 DEF LockPayment, Go, End
      <4> QED BY <1>a, <3>1, <4>1, TxKeepsType
    <3>3. hook' \in [Orders -> {"none", "due", "done"}]
      BY <1>0, <2>1 DEF LockPayment, Acked, TypeOK
    <3> QED BY <2>1, <3>2, <3>3 DEF LockPayment, TypeOK
  <2>2. CASE FindSubject(t)
    <3>1. {"known", "unknown"} \subseteq PC
      BY DEF PC, AfterPaymentLock
    <3>2. tx' \in [Tx -> TxRow]
      BY <2>2, <3>1, TxKeepsType DEF FindSubject, Go, TypeOK
    <3> QED BY <2>2, <3>2 DEF FindSubject, TypeOK
  <2>3. CASE InsertSubject(t)
    <3>1. [tx[t] EXCEPT !.pc = "known", !.made = TRUE] \in TxRow
      BY <1>0 DEF TxRow, PC, AfterPaymentLock
    <3>2. tx' \in [Tx -> TxRow]
      BY <2>3, <3>1, TxKeepsType DEF InsertSubject, TypeOK
    <3> QED BY <2>3, <3>2 DEF InsertSubject, TypeOK
  <2>4. CASE ReadAssignments(t)
    <3>1. PICK retire \in SUBSET Nat, insert \in BOOLEAN :
            tx' = [tx EXCEPT ![t].pc = "planned", ![t].retire = retire, ![t].insert = insert]
      BY <1>0, <2>4, IndexTypes DEF ReadAssignments
    <3>2. [tx[t] EXCEPT !.pc = "planned", !.retire = retire, !.insert = insert] \in TxRow
      BY <1>0 DEF TxRow, PC, AfterPaymentLock
    <3>3. tx' = [tx EXCEPT ![t] = [tx[t] EXCEPT !.pc = "planned", !.retire = retire,
                                                !.insert = insert]]
      BY <3>1
    <3>4. tx' \in [Tx -> TxRow]
      BY <3>2, <3>3, TxKeepsType DEF TypeOK
    <3> QED BY <2>4, <3>4 DEF ReadAssignments, TypeOK
  <2>5. CASE FlushAssignments(t)
    <3>1. "flushed" \in PC
      BY DEF PC, AfterPaymentLock
    <3>2. tx' \in [Tx -> TxRow]
      BY <2>5, <3>1, TxKeepsType DEF FlushAssignments, Go, TypeOK
    <3> QED BY <2>5, <3>2 DEF FlushAssignments, TypeOK
  <2>6. CASE LockSubject(t)
    <3>1. "locked" \in PC
      BY DEF PC, AfterPaymentLock
    <3>2. tx' \in [Tx -> TxRow]
      BY <2>6, <3>1, TxKeepsType DEF LockSubject, Go, TypeOK
    <3> QED BY <2>6, <3>2 DEF LockSubject, TypeOK
  <2>7. CASE ReadActive(t)
    <3>1. Active(tx[t].s) \in SUBSET Nat
      BY <1>0, IndexTypes
    <3>2. [tx[t] EXCEPT !.pc = "read", !.old = Active(tx[t].s)] \in TxRow
      BY <1>0, <3>1 DEF TxRow, PC, AfterPaymentLock
    <3>3. tx' = [tx EXCEPT ![t] = [tx[t] EXCEPT !.pc = "read", !.old = Active(tx[t].s)]]
      BY <2>7 DEF ReadActive
    <3>4. tx' \in [Tx -> TxRow]
      BY <3>2, <3>3, TxKeepsType DEF TypeOK
    <3> QED BY <2>7, <3>4 DEF ReadActive, TypeOK
  <2>8. CASE Commit(t)
    <3>1. "notify" \in PC
      BY DEF PC
    <3>2. tx' \in [Tx -> TxRow]
      <4>1. tx' = [tx EXCEPT ![t].pc = "notify"] \/ tx' = [tx EXCEPT ![t] = IdleTx]
        BY <2>8 DEF Commit, Go, End
      <4> QED BY <1>a, <3>1, <4>1, TxKeepsType
    <3>3. pay' \in [Orders -> [status : {"CREATED", "FAILED", "PAID"}, activated : BOOLEAN]]
      <4>1. [status |-> "PAID", activated |-> TRUE]
              \in [status : {"CREATED", "FAILED", "PAID"}, activated : BOOLEAN]
        OBVIOUS
      <4>2. \/ UNCHANGED pay
            \/ pay' = [pay EXCEPT ![tx[t].o] = [status |-> "PAID", activated |-> TRUE]]
        BY <2>8 DEF Commit
      <4> QED BY <1>0, <4>1, <4>2 DEF TypeOK
    <3>4. ents' \in [Students -> Seq(Term)]
      BY <1>0, <2>8, WritesKeepType DEF Commit, TypeOK
    <3>5. assigned' \in [Students -> Seq([tutor : Tutors, active : BOOLEAN])]
      BY <1>0, <2>8, WritesKeepType DEF Commit, TypeOK
    <3> QED BY <1>0, <2>8, <3>2, <3>3, <3>4, <3>5 DEF Commit, TypeOK
  <2>9. CASE Notify(t)
    <3>1. tx' \in [Tx -> TxRow]
      BY <2>9, TxKeepsType DEF Notify, End, TypeOK
    <3>2. notified[tx[t].o] + 1 \in Nat
      <4>1. \A n \in Nat : n + 1 \in Nat
        OBVIOUS
      <4>2. notified \in [Orders -> Nat]
        BY DEF TypeOK
      <4> QED BY <1>0, <4>1, <4>2
    <3>3. notified' \in [Orders -> Nat]
      <4>1. notified' = [notified EXCEPT ![tx[t].o] = notified[tx[t].o] + 1]
        BY <2>9 DEF Notify
      <4> QED BY <1>0, <3>2, <4>1 DEF TypeOK
    <3>4. hook' \in [Orders -> {"none", "due", "done"}]
      BY <1>0, <2>9 DEF Notify, Acked, TypeOK
    <3> QED BY <2>9, <3>1, <3>3, <3>4 DEF Notify, TypeOK
  <2>10. CASE FailureWrites(t)
    <3>1. tx' \in [Tx -> TxRow]
      BY <2>10, TxKeepsType DEF FailureWrites, End, TypeOK
    <3>2. \A row \in [status : {"CREATED", "FAILED", "PAID"}, activated : BOOLEAN] :
            [row EXCEPT !.status = "FAILED"] \in [status : {"CREATED", "FAILED", "PAID"}, activated : BOOLEAN]
      OBVIOUS
    <3>3. pay' \in [Orders -> [status : {"CREATED", "FAILED", "PAID"}, activated : BOOLEAN]]
      BY <1>0, <2>10, <3>2 DEF FailureWrites, TypeOK
    <3>4. failHook' \in [Orders -> {"none", "due", "done"}]
      BY <1>0, <2>10 DEF FailureWrites, TypeOK
    <3> QED BY <2>10, <3>1, <3>3, <3>4 DEF FailureWrites, TypeOK
  <2>11. CASE OverrideWrites(t)
    <3>1. tx' \in [Tx -> TxRow]
      BY <2>11, TxKeepsType DEF OverrideWrites, End, TypeOK
    <3>2. PICK status \in {"ACTIVE", "SUSPENDED"} :
            ents' = [ents EXCEPT ![tx[t].s] = Append(Supersede(@, tx[t].old),
                                                     [source |-> Comp, status |-> status])]
      BY <2>11 DEF OverrideWrites
    <3>3. [source |-> Comp, status |-> status] \in Term
      BY DEF Term
    <3>4. Supersede(ents[tx[t].s], tx[t].old) \in Seq(Term)
      BY <1>0, SupersedeType DEF TypeOK
    <3>5. ents' \in [Students -> Seq(Term)]
      BY <1>0, <3>2, <3>3, <3>4 DEF TypeOK
    <3> QED BY <2>11, <3>1, <3>5 DEF OverrideWrites, TypeOK
  <2>12. CASE ReassignWrites(t)
    <3>1. tx' \in [Tx -> TxRow]
      BY <2>12, TxKeepsType DEF ReassignWrites, End, TypeOK
    <3>2. assigned' \in [Students -> Seq([tutor : Tutors, active : BOOLEAN])]
      BY <1>0, <2>12, WritesKeepType DEF ReassignWrites, TypeOK
    <3> QED BY <2>12, <3>1, <3>2 DEF ReassignWrites, TypeOK
  <2>13. CASE DeadlockVictim(t)
    <3>1. tx' \in [Tx -> TxRow]
      BY <2>13, TxKeepsType DEF DeadlockVictim, End, TypeOK
    <3> QED BY <2>13, <3>1 DEF DeadlockVictim, TypeOK
  <2> QED BY <1>8, <2>1, <2>2, <2>3, <2>4, <2>5, <2>6, <2>7, <2>8, <2>9, <2>10, <2>11, <2>12,
             <2>13 DEF Step
<1>9. ASSUME NEW t \in Tx, Crash(t) PROVE TypeOK'
  <2>1. tx' \in [Tx -> TxRow]
    BY <1>9, TxKeepsType DEF Crash, End, TypeOK
  <2>2. left' \in LeftRow
    BY <1>9, <1>a, LeftCountsDown DEF Crash
  <2> QED BY <1>9, <2>1, <2>2 DEF Crash, TypeOK, LeftRow
<1> QED BY <1>1, <1>2, <1>3, <1>4, <1>5, <1>6, <1>7, <1>8, <1>9 DEF Next

\* No interleaving of activations, grants, overrides and crashes writes a row
\* of the wrong shape.
THEOREM SubscriptionTypes == Spec => []TypeOK
  BY InitTypes, TypeStep, PTL DEF Spec

-----------------------------------------------------------------------------
(* The order under the payment lock, and the one grant it buys.             *)

\* A request that activates an order works for the student who pays it.
WorksForThePayer(t) ==
  /\ tx[t].pc \in {"unlocked", "notify"} => tx[t].kind = "pay"
  /\ tx[t].pc \in AfterPaymentLock => tx[t].kind \in {"pay", "grant"}
  /\ tx[t].pc # "idle" /\ tx[t].kind = "pay" => tx[t].s = Payer[tx[t].o]

\* Behind the lock the order is not activated yet; the request that tells the
\* student is the one that activated it.
KnowsTheOrder(t) ==
  /\ HoldsPayment(t, tx[t].o) => ~pay[tx[t].o].activated
  /\ tx[t].pc = "notify" => pay[tx[t].o].activated /\ notified[tx[t].o] = 0

\* One request at a time is behind an order's lock, and one tells its student.
OneAtATime(t, u) ==
  /\ \A o \in Orders : ~(HoldsPayment(t, o) /\ HoldsPayment(u, o))
  /\ tx[t].pc = "notify" /\ tx[u].pc = "notify" => tx[t].o # tx[u].o

\* An activated order is the source of one term of its payer, any other of none.
GrantedOnce(o) ==
  IF pay[o].activated THEN \E i \in DOMAIN ents[Payer[o]] : GrantsOf(o) = {i}
                      ELSE GrantsOf(o) = {}

\* Nobody holds a term that somebody else paid for.
TermsArePayers ==
  \A s \in Students : \A i \in DOMAIN ents[s] :
    ents[s][i].source \in Orders => Payer[ents[s][i].source] = s

OrderInv ==
  /\ TypeOK
  /\ \A t \in Tx : WorksForThePayer(t) /\ KnowsTheOrder(t)
  /\ \A t, u \in Tx : t # u => OneAtATime(t, u)
  /\ \A o \in Orders : GrantedOnce(o)
  /\ TermsArePayers
  /\ ToldAtMostOnce

\* What a step of one request does that writes no term and tells nobody.
Quiet(t) ==
  /\ UNCHANGED <<ents, notified>>
  /\ \A o \in Orders : pay'[o].activated = pay[o].activated
  /\ tx' = [tx EXCEPT ![t] = tx'[t]]

SameErrand(t) == tx'[t].kind = tx[t].kind /\ tx'[t].o = tx[t].o /\ tx'[t].s = tx[t].s

\* The request ends, starts, gets the order's lock or goes on behind it.
Moves(t) ==
  \/ tx'[t] = IdleTx
  \/ tx'[t].pc = "unlocked" /\ tx'[t].kind = "pay" /\ tx'[t].s = Payer[tx'[t].o]
  \/ tx'[t].pc = "paid" /\ tx'[t].kind = "grant"
  \/ /\ tx'[t].pc \in {"failing", "override", "reassign"}
     /\ tx'[t].kind \in {"fail", "override", "reassign"}
     /\ tx'[t].pc = "override" => left.overrides > 0
  \/ /\ tx[t].pc = "unlocked" /\ tx'[t].pc = "paid" /\ SameErrand(t)
     /\ \A u \in Others(t) : ~HoldsPayment(u, tx[t].o)
     /\ ~pay[tx[t].o].activated
  \/ /\ tx[t].pc \in AfterPaymentLock /\ tx'[t].pc \in AfterPaymentLock /\ SameErrand(t)
     /\ tx'[t].pc = "locked" => tx[t].pc = "flushed" /\ SubjectFree(t)
     /\ tx'[t].pc = "read" => tx[t].pc = "locked" /\ tx'[t].old = Active(tx[t].s)

\* Only three actions write a term or tell a student.
LEMMA StepsOfRequests ==
  ASSUME TypeOK, [Next]_vars
  PROVE  \/ UNCHANGED <<tx, pay, ents, notified>>
         \/ \E t \in Tx : Quiet(t) /\ Moves(t)
         \/ \E t \in Tx : Commit(t) \/ Notify(t) \/ OverrideWrites(t)
<1> DEFINE Goal(t) == Quiet(t) /\ Moves(t)
<1> USE DEF rows
<1>0. tx \in [Tx -> TxRow] /\ \A t \in Tx : tx[t] \in TxRow
  BY DEF TypeOK
<1>1. CASE UNCHANGED vars
  BY <1>1 DEF vars
<1>2. ASSUME NEW o \in Orders, AttemptFails(o) \/ StudentPays(o) \/ AlreadyActivated(o)
      PROVE UNCHANGED <<tx, pay, ents, notified>>
  BY <1>2 DEF AttemptFails, StudentPays, AlreadyActivated
<1>3. ASSUME NEW t \in Tx, UNCHANGED <<pay, ents, notified>>,
             \E row : tx' = [tx EXCEPT ![t] = row]
      PROVE  Quiet(t)
  BY <1>0, <1>3 DEF Quiet
<1>4. ASSUME NEW t \in Tx, NEW o \in Orders, NEW hooked \in BOOLEAN, StartActivation(t, o, hooked)
      PROVE Goal(t)
  <2>1. Quiet(t)
    BY <1>3, <1>4 DEF StartActivation
  <2>2. tx'[t] = [IdleTx EXCEPT !.pc = "unlocked", !.hooked = hooked, !.o = o,
                               !.s = Payer[o], !.tutor = Wanted[o]]
    BY <1>0, <1>4 DEF StartActivation
  <2>3. tx'[t].pc = "unlocked" /\ tx'[t].kind = "pay" /\ tx'[t].o = o /\ tx'[t].s = Payer[o]
    BY <2>2 DEF IdleTx
  <2> QED BY <2>1, <2>3 DEF Moves
<1>5. ASSUME NEW t \in Tx, NEW o \in Orders, FailureReads(t, o)
      PROVE UNCHANGED <<tx, pay, ents, notified>> \/ Goal(t)
  <2>1. CASE UNCHANGED tx
    BY <1>5, <2>1 DEF FailureReads
  <2>2. CASE tx' = [tx EXCEPT ![t] = [IdleTx EXCEPT !.pc = "failing", !.kind = "fail", !.o = o]]
    <3>1. Quiet(t)
      BY <1>3, <1>5, <2>2 DEF FailureReads
    <3>2. tx'[t].pc = "failing" /\ tx'[t].kind = "fail"
      BY <1>0, <2>2 DEF IdleTx
    <3> QED BY <3>1, <3>2 DEF Moves
  <2> QED BY <1>5, <2>1, <2>2 DEF FailureReads
<1>6. ASSUME NEW t \in Tx, NEW s \in Students, NEW tutor \in Tutors, StartGrant(t, s, tutor)
      PROVE Goal(t)
  <2>1. Quiet(t)
    BY <1>3, <1>6 DEF StartGrant
  <2>2. tx'[t].pc = "paid" /\ tx'[t].kind = "grant"
    BY <1>0, <1>6 DEF StartGrant, IdleTx
  <2> QED BY <2>1, <2>2 DEF Moves
<1>7. ASSUME NEW t \in Tx, NEW s \in Students, NEW tutor \in Tutors, ReassignReads(t, s, tutor)
      PROVE Goal(t)
  <2>1. Quiet(t)
    BY <1>3, <1>7 DEF ReassignReads
  <2>2. tx'[t].pc = "reassign" /\ tx'[t].kind = "reassign"
    BY <1>0, <1>7 DEF ReassignReads, IdleTx
  <2> QED BY <2>1, <2>2 DEF Moves
<1>8. ASSUME NEW t \in Tx, NEW s \in Students, OverrideReads(t, s) PROVE Goal(t)
  <2>1. PICK old : tx' = [tx EXCEPT ![t] = [IdleTx EXCEPT !.pc = "override", !.kind = "override",
                                                       !.s = s, !.old = old]]
    BY <1>8 DEF OverrideReads
  <2>2. Quiet(t)
    BY <1>3, <1>8, <2>1 DEF OverrideReads
  <2>3. tx'[t].pc = "override" /\ tx'[t].kind = "override"
    BY <1>0, <2>1 DEF IdleTx
  <2>4. left.overrides > 0
    BY <1>8 DEF OverrideReads
  <2> QED BY <2>2, <2>3, <2>4 DEF Moves
<1>9. ASSUME NEW t \in Tx, End(t), UNCHANGED <<ents, notified>>,
             \A o \in Orders : pay'[o].activated = pay[o].activated
      PROVE Goal(t)
  BY <1>0, <1>9 DEF End, Quiet, Moves
<1>10. ASSUME NEW t \in Tx, NEW to \in AfterPaymentLock, Go(t, to), UNCHANGED <<pay, ents, notified>>
       PROVE Quiet(t) /\ SameErrand(t) /\ tx'[t].pc = to
  <2>1. tx' = [tx EXCEPT ![t] = [tx[t] EXCEPT !.pc = to]]
    BY <1>10 DEF Go
  <2>2. Quiet(t)
    BY <1>3, <1>10, <2>1
  <2>3. tx'[t] = [tx[t] EXCEPT !.pc = to]
    BY <1>0, <2>1
  <2> QED BY <1>0, <2>2, <2>3 DEF SameErrand, TxRow
<1>11. ASSUME NEW t \in Tx, Step(t)
       PROVE  Goal(t) \/ Commit(t) \/ Notify(t) \/ OverrideWrites(t)
  <2> USE DEF AfterPaymentLock
  <2>1. CASE LockPayment(t)
    <3>1. CASE End(t)
      BY <1>9, <2>1, <3>1 DEF LockPayment
    <3>2. CASE Go(t, "paid") /\ ~pay[tx[t].o].activated
      BY <1>10, <2>1, <3>2 DEF LockPayment, Moves
    <3> QED BY <2>1, <3>1, <3>2 DEF LockPayment, LostTheRace
  <2>2. CASE FindSubject(t)
    <3>1. PICK to \in {"known", "unknown"} : Go(t, to)
      BY <2>2 DEF FindSubject
    <3> QED BY <1>10, <2>2, <3>1 DEF FindSubject, Moves
  <2>3. CASE InsertSubject(t)
    <3>1. CASE tx' = [tx EXCEPT ![t] = IdleTx]
      BY <1>9, <2>3, <3>1 DEF InsertSubject, End
    <3>2. CASE tx' = [tx EXCEPT ![t] = [tx[t] EXCEPT !.pc = "known", !.made = TRUE]]
      <4>1. Quiet(t)
        BY <1>3, <2>3, <3>2 DEF InsertSubject
      <4>2. tx'[t].pc = "known" /\ SameErrand(t)
        BY <1>0, <3>2 DEF SameErrand, TxRow
      <4> QED BY <2>3, <4>1, <4>2 DEF InsertSubject, Moves
    <3> QED BY <2>3, <3>1, <3>2 DEF InsertSubject
  <2>4. CASE ReadAssignments(t)
    <3>1. PICK retire, insert :
            tx' = [tx EXCEPT ![t] = [tx[t] EXCEPT !.pc = "planned", !.retire = retire,
                                                  !.insert = insert]]
      BY <2>4 DEF ReadAssignments
    <3>2. Quiet(t)
      BY <1>3, <2>4, <3>1 DEF ReadAssignments
    <3>3. tx'[t].pc = "planned" /\ SameErrand(t)
      BY <1>0, <3>1 DEF SameErrand, TxRow
    <3> QED BY <2>4, <3>2, <3>3 DEF ReadAssignments, Moves
  <2>5. CASE FlushAssignments(t)
    BY <1>10, <2>5 DEF FlushAssignments, Moves
  <2>6. CASE LockSubject(t)
    BY <1>10, <2>6 DEF LockSubject, Moves
  <2>7. CASE ReadActive(t)
    <3>1. tx' = [tx EXCEPT ![t] = [tx[t] EXCEPT !.pc = "read", !.old = Active(tx[t].s)]]
      BY <2>7 DEF ReadActive
    <3>2. Quiet(t)
      BY <1>3, <2>7, <3>1 DEF ReadActive
    <3>3. tx'[t].pc = "read" /\ tx'[t].old = Active(tx[t].s) /\ SameErrand(t)
      BY <1>0, <3>1 DEF SameErrand, TxRow
    <3> QED BY <2>7, <3>2, <3>3 DEF ReadActive, Moves
  <2>8. CASE FailureWrites(t)
    <3>1. \A o \in Orders : pay'[o].activated = pay[o].activated
      <4>1. pay' = [pay EXCEPT ![tx[t].o] = [pay[tx[t].o] EXCEPT !.status = "FAILED"]]
        BY <2>8 DEF FailureWrites
      <4>2. pay \in [Orders -> [status : {"CREATED", "FAILED", "PAID"}, activated : BOOLEAN]]
        BY DEF TypeOK
      <4> QED BY <4>1, <4>2
    <3> QED BY <1>9, <2>8, <3>1 DEF FailureWrites
  <2>9. CASE ReassignWrites(t)
    BY <1>9, <2>9 DEF ReassignWrites
  <2>10. CASE DeadlockVictim(t)
    BY <1>9, <2>10 DEF DeadlockVictim
  <2> QED BY <1>11, <2>1, <2>2, <2>3, <2>4, <2>5, <2>6, <2>7, <2>8, <2>9, <2>10 DEF Step
<1>12. ASSUME NEW t \in Tx, Crash(t) PROVE Goal(t)
  BY <1>9, <1>12 DEF Crash
<1> QED BY <1>1, <1>2, <1>4, <1>5, <1>6, <1>7, <1>8, <1>11, <1>12 DEF Next

\* A list with some rows superseded and one row appended.
Grown(list, old, row) == Append(Supersede(list, old), row)

LEMMA GrownList ==
  ASSUME NEW list \in Seq(Term), NEW old, NEW row \in Term
  PROVE  /\ Len(list) \in Nat
         /\ DOMAIN list = 1 .. Len(list)
         /\ DOMAIN Grown(list, old, row) = 1 .. Len(list) + 1
         /\ Len(Grown(list, old, row)) = Len(list) + 1
         /\ Grown(list, old, row)[Len(list) + 1] = row
         /\ \A i \in 1 .. Len(list) :
              /\ Grown(list, old, row)[i].source = list[i].source
              /\ Grown(list, old, row)[i].status =
                   IF i \in old THEN "SUPERSEDED" ELSE list[i].status
<1> DEFINE grown == Grown(list, old, row)
<1> DEFINE base == Supersede(list, old)
<1>1. base \in Seq(Term) /\ Len(base) = Len(list)
  BY SupersedeType
<1>2. Len(list) \in Nat /\ DOMAIN list = 1 .. Len(list) /\ \A i \in DOMAIN list : list[i] \in Term
  BY LenProperties
<1>3. \A i \in 1 .. Len(list) :
        /\ base[i].source = list[i].source
        /\ base[i].status = IF i \in old THEN "SUPERSEDED" ELSE list[i].status
  BY <1>2 DEF Supersede, Term
<1> HIDE DEF base
<1>4. /\ Len(grown) = Len(list) + 1
      /\ DOMAIN grown = 1 .. Len(list) + 1
      /\ grown[Len(list) + 1] = row
      /\ \A i \in 1 .. Len(list) : grown[i] = base[i]
  BY <1>1, <1>2 DEF base, Grown
<1> HIDE DEF grown
<1>5. \A i \in 1 .. Len(list) :
        /\ grown[i].source = list[i].source
        /\ grown[i].status = IF i \in old THEN "SUPERSEDED" ELSE list[i].status
  BY <1>3, <1>4
<1> QED BY <1>2, <1>4, <1>5 DEF grown

\* A quiet step keeps what is known of orders and of the requests behind them.
LEMMA QuietKeepsOrders ==
  ASSUME OrderInv, NEW t \in Tx, Quiet(t), Moves(t), TypeOK'
  PROVE  OrderInv'
<1>0. /\ tx \in [Tx -> TxRow] /\ tx' \in [Tx -> TxRow]
      /\ \A u \in Tx : u # t => tx'[u] = tx[u]
      /\ \A u \in Tx : tx[u].o \in Orders /\ tx'[u].o \in Orders
      /\ IdleTx.pc = "idle"
  BY DEF OrderInv, TypeOK, Quiet, TxRow, IdleTx
<1>1. ASSUME NEW u \in Tx PROVE WorksForThePayer(u)' /\ KnowsTheOrder(u)'
  <2>1. WorksForThePayer(u) /\ KnowsTheOrder(u)
    BY DEF OrderInv
  <2>2. CASE u # t
    BY <1>0, <2>1, <2>2 DEF Quiet, WorksForThePayer, KnowsTheOrder, HoldsPayment
  <2>3. CASE u = t
    <3>1. WorksForThePayer(t)'
      BY <1>0, <2>1, <2>3 DEF Moves, SameErrand, WorksForThePayer, AfterPaymentLock
    <3>2. KnowsTheOrder(t)'
      BY <1>0, <2>1, <2>3 DEF Quiet, Moves, SameErrand, KnowsTheOrder, HoldsPayment, AfterPaymentLock
    <3> QED BY <2>3, <3>1, <3>2
  <2> QED BY <2>2, <2>3
<1>2. ASSUME NEW u \in Tx, u # t, NEW o \in Orders
      PROVE ~(HoldsPayment(t, o)' /\ HoldsPayment(u, o)')
  <2>1. ~(HoldsPayment(t, o) /\ HoldsPayment(u, o))
    BY <1>2 DEF OrderInv, OneAtATime
  <2>2. HoldsPayment(u, o)' => HoldsPayment(u, o)
    BY <1>0, <1>2 DEF HoldsPayment
  <2>3. HoldsPayment(t, o)' => HoldsPayment(t, o) \/ \A v \in Others(t) : ~HoldsPayment(v, o)
    BY <1>0 DEF Moves, SameErrand, HoldsPayment, AfterPaymentLock
  <2> QED BY <1>2, <2>1, <2>2, <2>3 DEF Others
<1>3. tx'[t].pc # "notify"
  BY <1>0 DEF Moves, AfterPaymentLock
<1>4. ASSUME NEW u \in Tx, NEW v \in Tx, u # v PROVE OneAtATime(u, v)'
  <2>1. OneAtATime(u, v)
    BY <1>4 DEF OrderInv
  <2>2. ASSUME NEW o \in Orders PROVE ~(HoldsPayment(u, o)' /\ HoldsPayment(v, o)')
    <3>1. CASE u # t /\ v # t
      BY <1>0, <2>1, <3>1 DEF OneAtATime, HoldsPayment
    <3> QED BY <1>2, <1>4, <3>1
  <2>3. tx'[u].pc = "notify" /\ tx'[v].pc = "notify" => tx'[u].o # tx'[v].o
    BY <1>0, <1>3, <2>1 DEF OneAtATime
  <2> QED BY <2>2, <2>3 DEF OneAtATime
<1>5. \A o \in Orders : GrantedOnce(o)'
  BY DEF OrderInv, Quiet, GrantedOnce, GrantsOf
<1>6. TermsArePayers'
  BY DEF OrderInv, Quiet, TermsArePayers
<1>7. ToldAtMostOnce'
  BY DEF OrderInv, Quiet, ToldAtMostOnce
<1> QED BY <1>1, <1>4, <1>5, <1>6, <1>7 DEF OrderInv

\* The write both a grant and an override end in.
WritesTerm(s, old, row) == ents' = [ents EXCEPT ![s] = Grown(ents[s], old, row)]

\* A term is written: it is its source's, and every other order keeps its own.
LEMMA TermWritten ==
  ASSUME TypeOK, NEW s \in Students, NEW old, NEW row \in Term,
         WritesTerm(s, old, row)
  PROVE  /\ \A p \in Orders : p # row.source => GrantsOf(p)' = GrantsOf(p)
         /\ \A p \in Orders : p = row.source /\ s = Payer[p]
              => GrantsOf(p)' = GrantsOf(p) \cup {Len(ents[s]) + 1}
         /\ \A p \in Orders : DOMAIN ents[Payer[p]] \subseteq DOMAIN ents'[Payer[p]]
         /\ Len(ents[s]) + 1 \in DOMAIN ents'[s]
         /\ TermsArePayers /\ (row.source \in Orders => Payer[row.source] = s) => TermsArePayers'
<1> DEFINE list == ents[s]
           grown == Grown(list, old, row)
<1>1. list \in Seq(Term) /\ ents \in [Students -> Seq(Term)]
  BY DEF TypeOK
<1>2. ents'[s] = grown /\ \A z \in Students : z # s => ents'[z] = ents[z]
  BY <1>1 DEF WritesTerm
<1> HIDE DEF list
<1>3. /\ Len(list) \in Nat
      /\ DOMAIN list = 1 .. Len(list)
      /\ DOMAIN grown = 1 .. Len(list) + 1
      /\ grown[Len(list) + 1] = row
      /\ \A i \in 1 .. Len(list) : grown[i].source = list[i].source
  BY <1>1, GrownList
<1> HIDE DEF grown
<1>4. DOMAIN grown = DOMAIN list \cup {Len(list) + 1}
  BY <1>3
<1>5. ASSUME NEW p \in Orders, p # row.source PROVE GrantsOf(p)' = GrantsOf(p)
  <2>1. CASE Payer[p] = s
    <3>1. GrantsOf(p)' = {i \in DOMAIN grown : grown[i].source = p}
      BY <1>2, <2>1 DEF GrantsOf
    <3>2. GrantsOf(p) = {i \in DOMAIN list : list[i].source = p}
      BY <2>1 DEF GrantsOf, list
    <3> QED BY <1>3, <1>4, <1>5, <3>1, <3>2
  <2>2. CASE Payer[p] # s
    BY <1>2, <2>2 DEF GrantsOf
  <2> QED BY <2>1, <2>2
<1>6. ASSUME NEW p \in Orders, p = row.source, s = Payer[p]
      PROVE GrantsOf(p)' = GrantsOf(p) \cup {Len(list) + 1}
  <2>1. GrantsOf(p)' = {i \in DOMAIN grown : grown[i].source = p}
    BY <1>2, <1>6 DEF GrantsOf
  <2>2. GrantsOf(p) = {i \in DOMAIN list : list[i].source = p}
    BY <1>6 DEF GrantsOf, list
  <2> QED BY <1>3, <1>4, <1>6, <2>1, <2>2
<1>7. \A p \in Orders : DOMAIN ents[Payer[p]] \subseteq DOMAIN ents'[Payer[p]]
  BY <1>2, <1>4 DEF list
<1>8. Len(list) + 1 \in DOMAIN ents'[s]
  BY <1>2, <1>4
<1>9. ASSUME TermsArePayers, row.source \in Orders => Payer[row.source] = s
      PROVE  TermsArePayers'
  <2> SUFFICES ASSUME NEW z \in Students, NEW i \in DOMAIN ents'[z], ents'[z][i].source \in Orders
               PROVE  Payer[ents'[z][i].source] = z
    BY DEF TermsArePayers
  <2>1. CASE z # s
    BY <1>2, <1>9, <2>1 DEF TermsArePayers
  <2>2. CASE z = s /\ i = Len(list) + 1
    BY <1>2, <1>3, <1>9, <2>2
  <2>3. CASE z = s /\ i \in DOMAIN list
    BY <1>2, <1>3, <1>9, <2>3 DEF TermsArePayers, list
  <2> QED BY <1>2, <1>4, <2>1, <2>2, <2>3
<1> QED BY <1>5, <1>6, <1>7, <1>8, <1>9 DEF list

\* The commit of an activation marks the order and writes its one term; the
\* lock keeps every other request for the order away.
LEMMA CommitKeepsOrders ==
  ASSUME OrderInv, NEW t \in Tx, Commit(t), TypeOK'
  PROVE  OrderInv'
<1> DEFINE s   == tx[t].s
           o   == tx[t].o
           row == [source |-> SourceOf(t), status |-> "ACTIVE"]
<1>0. /\ TypeOK /\ TermsArePayers /\ ToldAtMostOnce
      /\ \A p \in Orders : GrantedOnce(p)
      /\ tx \in [Tx -> TxRow] /\ tx' \in [Tx -> TxRow]
      /\ notified \in [Orders -> Nat]
      /\ pay \in [Orders -> [status : {"CREATED", "FAILED", "PAID"}, activated : BOOLEAN]]
      /\ s \in Students /\ o \in Orders
      /\ tx[t].pc = "read" /\ tx[t].kind \in {"pay", "grant"}
  BY DEF OrderInv, TypeOK, TxRow, Commit, WorksForThePayer, AfterPaymentLock
<1>1. /\ WritesTerm(s, tx[t].old, row)
      /\ UNCHANGED notified
      /\ tx[t].kind = "pay" => /\ pay' = [pay EXCEPT ![o] = [status |-> "PAID", activated |-> TRUE]]
                               /\ tx' = [tx EXCEPT ![t].pc = "notify"]
      /\ tx[t].kind = "grant" => UNCHANGED pay /\ tx' = [tx EXCEPT ![t] = IdleTx]
  BY <1>0 DEF Commit, TermsAfter, Go, End, WritesTerm, Grown
<1>2. row \in Term /\ row.source = IF tx[t].kind = "pay" THEN o ELSE Comp
  BY <1>0 DEF Term, SourceOf
<1>3. \A u \in Tx : u # t => tx'[u] = tx[u]
  BY <1>0, <1>1
<1>4. \A u \in Tx : tx[u].o \in Orders
  BY <1>0 DEF TxRow
<1>t. TypeOK'
  OBVIOUS
<1>w. /\ \A p \in Orders : p # row.source => GrantsOf(p)' = GrantsOf(p)
      /\ \A p \in Orders : p = row.source /\ s = Payer[p]
           => GrantsOf(p)' = GrantsOf(p) \cup {Len(ents[s]) + 1}
      /\ \A p \in Orders : DOMAIN ents[Payer[p]] \subseteq DOMAIN ents'[Payer[p]]
      /\ Len(ents[s]) + 1 \in DOMAIN ents'[s]
      /\ (row.source \in Orders => Payer[row.source] = s) => TermsArePayers'
  <2> DEFINE old == tx[t].old
  <2>1. WritesTerm(s, old, row)
    BY <1>1
  <2>2. s \in Students /\ row \in Term /\ TypeOK /\ TermsArePayers
    BY <1>0, <1>2
  <2> HIDE DEF s, row, old
  <2> QED BY <2>1, <2>2, TermWritten
<1>5. CASE tx[t].kind = "pay"
  <2>1. s = Payer[o] /\ ~pay[o].activated /\ HoldsPayment(t, o) /\ GrantsOf(o) = {}
    BY <1>0, <1>5 DEF OrderInv, WorksForThePayer, KnowsTheOrder, HoldsPayment, AfterPaymentLock,
                      GrantedOnce
  <2>2. /\ pay'[o].activated
        /\ \A p \in Orders : p # o => pay'[p] = pay[p]
    BY <1>0, <1>1, <1>5
  <2>3. /\ tx'[t].pc = "notify" /\ tx'[t].kind = "pay" /\ tx'[t].o = o /\ tx'[t].s = s
    <3>1. tx' = [tx EXCEPT ![t] = [tx[t] EXCEPT !.pc = "notify"]]
      BY <1>1, <1>5
    <3> QED BY <1>0, <1>5, <3>1 DEF TxRow
  <2>4. notified[o] = 0
    BY <1>0, <2>1 DEF ToldAtMostOnce
  <2>5. ASSUME NEW u \in Tx, u # t
        PROVE  ~HoldsPayment(u, o) /\ (tx[u].pc = "notify" => tx[u].o # o)
    <3>1. OneAtATime(t, u) /\ KnowsTheOrder(u)
      BY <2>5 DEF OrderInv
    <3> QED BY <1>0, <2>1, <3>1 DEF OneAtATime, KnowsTheOrder
  <2>6. ASSUME NEW u \in Tx PROVE WorksForThePayer(u)' /\ KnowsTheOrder(u)'
    <3>1. WorksForThePayer(u) /\ KnowsTheOrder(u)
      BY DEF OrderInv
    <3>2. CASE u = t
      BY <1>1, <2>1, <2>2, <2>3, <2>4, <3>2
         DEF WorksForThePayer, KnowsTheOrder, HoldsPayment, AfterPaymentLock
    <3>3. CASE u # t
      <4>1. tx[u].o # o => pay'[tx[u].o] = pay[tx[u].o]
        BY <1>4, <2>2
      <4>2. tx'[u] = tx[u]
        BY <1>3, <3>3
      <4>3. WorksForThePayer(u)'
        BY <3>1, <4>2 DEF WorksForThePayer
      <4>4. KnowsTheOrder(u)'
        BY <1>1, <2>5, <3>1, <3>3, <4>1, <4>2 DEF KnowsTheOrder, HoldsPayment
      <4> QED BY <4>3, <4>4
    <3> QED BY <3>2, <3>3
  <2>7. ASSUME NEW u \in Tx, NEW v \in Tx, u # v PROVE OneAtATime(u, v)'
    <3>1. OneAtATime(u, v)
      BY <2>7 DEF OrderInv
    <3> QED BY <1>3, <2>3, <2>5, <2>7, <3>1 DEF OneAtATime, HoldsPayment, AfterPaymentLock
  <2>8. ASSUME NEW p \in Orders PROVE GrantedOnce(p)'
    <3>1. CASE p = o
      <4>1. GrantsOf(p)' = GrantsOf(p) \cup {Len(ents[s]) + 1}
        BY <1>2, <1>5, <1>w, <2>1, <3>1
      <4>2. GrantsOf(p) = {}
        BY <2>1, <3>1
      <4>3. Len(ents[s]) + 1 \in DOMAIN ents'[Payer[p]]
        BY <1>w, <2>1, <3>1
      <4>4. pay'[p].activated
        BY <2>2, <3>1
      <4> HIDE DEF s, o, row
      <4> QED BY <4>1, <4>2, <4>3, <4>4 DEF GrantedOnce
    <3>2. CASE p # o
      <4>1. GrantsOf(p)' = GrantsOf(p) /\ DOMAIN ents[Payer[p]] \subseteq DOMAIN ents'[Payer[p]]
        BY <1>2, <1>5, <1>w, <3>2
      <4> QED BY <1>0, <2>2, <3>2, <4>1 DEF GrantedOnce
    <3> QED BY <3>1, <3>2
  <2>9. TermsArePayers'
    BY <1>2, <1>5, <1>w, <2>1
  <2>10. ToldAtMostOnce'
    <3>1. ASSUME NEW p \in Orders PROVE notified'[p] <= IF pay'[p].activated THEN 1 ELSE 0
      <4>1. notified'[p] = notified[p] /\ notified[p] <= IF pay[p].activated THEN 1 ELSE 0
        BY <1>0, <1>1 DEF ToldAtMostOnce
      <4>2. CASE p = o
        BY <1>1, <2>2, <2>4, <4>2
      <4>3. CASE p # o
        BY <2>2, <4>1, <4>3
      <4> QED BY <4>2, <4>3
    <3> QED BY <3>1 DEF ToldAtMostOnce
  <2> QED BY <1>t, <2>6, <2>7, <2>8, <2>9, <2>10 DEF OrderInv
<1>6. CASE tx[t].kind = "grant"
  <2>1. UNCHANGED pay /\ tx'[t] = IdleTx /\ row.source = Comp
    BY <1>0, <1>1, <1>2, <1>6
  <2>2. ASSUME NEW u \in Tx PROVE WorksForThePayer(u)' /\ KnowsTheOrder(u)'
    <3>1. WorksForThePayer(u) /\ KnowsTheOrder(u)
      BY DEF OrderInv
    <3> QED BY <1>1, <1>3, <2>1, <3>1
            DEF WorksForThePayer, KnowsTheOrder, HoldsPayment, AfterPaymentLock, IdleTx
  <2>3. ASSUME NEW u \in Tx, NEW v \in Tx, u # v PROVE OneAtATime(u, v)'
    <3>1. OneAtATime(u, v)
      BY <2>3 DEF OrderInv
    <3> QED BY <1>3, <2>1, <2>3, <3>1 DEF OneAtATime, HoldsPayment, AfterPaymentLock, IdleTx
  <2>4. ASSUME NEW p \in Orders PROVE GrantedOnce(p)'
    <3>1. GrantsOf(p)' = GrantsOf(p) /\ DOMAIN ents[Payer[p]] \subseteq DOMAIN ents'[Payer[p]]
      BY <1>w, <2>1
    <3> QED BY <1>0, <2>1, <3>1 DEF GrantedOnce
  <2>5. TermsArePayers'
    BY <1>w, <2>1
  <2>6. ToldAtMostOnce'
    BY <1>0, <1>1, <2>1 DEF ToldAtMostOnce
  <2> QED BY <1>t, <2>2, <2>3, <2>4, <2>5, <2>6 DEF OrderInv
<1> QED BY <1>0, <1>5, <1>6

\* Telling the student is done once, by the request that activated the order.
LEMMA NotifyKeepsOrders ==
  ASSUME OrderInv, NEW t \in Tx, Notify(t), TypeOK'
  PROVE  OrderInv'
<1> DEFINE o == tx[t].o
<1>t. TypeOK'
  OBVIOUS
<1>0. /\ tx \in [Tx -> TxRow] /\ notified \in [Orders -> Nat] /\ o \in Orders
      /\ UNCHANGED <<pay, ents>>
      /\ tx'[t] = IdleTx /\ \A u \in Tx : u # t => tx'[u] = tx[u]
      /\ tx[t].pc = "notify"
      /\ \A u \in Tx : tx[u].o \in Orders
  BY DEF OrderInv, TypeOK, TxRow, Notify, End, rows
<1>1. notified'[o] = notified[o] + 1 /\ \A p \in Orders : p # o => notified'[p] = notified[p]
  BY <1>0 DEF Notify
<1>2. pay[o].activated /\ notified[o] = 0
  BY <1>0 DEF OrderInv, KnowsTheOrder
<1> HIDE DEF o
<1>3. ASSUME NEW u \in Tx PROVE WorksForThePayer(u)' /\ KnowsTheOrder(u)'
  <2>1. WorksForThePayer(u) /\ KnowsTheOrder(u)
    BY DEF OrderInv
  <2>2. CASE u = t
    BY <1>0, <2>2 DEF WorksForThePayer, KnowsTheOrder, HoldsPayment, AfterPaymentLock, IdleTx
  <2>3. CASE u # t
    <3>1. OneAtATime(t, u)
      BY <2>3 DEF OrderInv
    <3>2. tx[u].pc = "notify" => tx[u].o # o
      BY <1>0, <3>1 DEF OneAtATime, o
    <3> QED BY <1>0, <1>1, <2>1, <2>3, <3>2 DEF WorksForThePayer, KnowsTheOrder, HoldsPayment
  <2> QED BY <2>2, <2>3
<1>4. ASSUME NEW u \in Tx, NEW v \in Tx, u # v PROVE OneAtATime(u, v)'
  <2>1. OneAtATime(u, v)
    BY <1>4 DEF OrderInv
  <2> QED BY <1>0, <1>4, <2>1 DEF OneAtATime, HoldsPayment, AfterPaymentLock, IdleTx
<1>5. \A p \in Orders : GrantedOnce(p)'
  BY <1>0 DEF OrderInv, GrantedOnce, GrantsOf
<1>6. TermsArePayers'
  BY <1>0 DEF OrderInv, TermsArePayers
<1>7. ASSUME NEW p \in Orders PROVE notified'[p] <= IF pay'[p].activated THEN 1 ELSE 0
  <2>1. notified[p] <= IF pay[p].activated THEN 1 ELSE 0
    BY DEF OrderInv, ToldAtMostOnce
  <2> QED BY <1>0, <1>1, <1>2, <2>1
<1>8. ToldAtMostOnce'
  BY <1>7 DEF ToldAtMostOnce
<1> QED BY <1>t, <1>3, <1>4, <1>5, <1>6, <1>8 DEF OrderInv

\* An override's term has no order behind it.
LEMMA OverrideKeepsOrders ==
  ASSUME OrderInv, NEW t \in Tx, OverrideWrites(t), TypeOK'
  PROVE  OrderInv'
<1> DEFINE s == tx[t].s
<1>t. TypeOK'
  OBVIOUS
<1>0. /\ TypeOK /\ TermsArePayers /\ tx \in [Tx -> TxRow] /\ s \in Students
      /\ UNCHANGED <<pay, notified>>
      /\ tx'[t] = IdleTx /\ \A u \in Tx : u # t => tx'[u] = tx[u]
  BY DEF OrderInv, TypeOK, TxRow, OverrideWrites, End
<1>1. PICK status \in {"ACTIVE", "SUSPENDED"} :
        WritesTerm(s, tx[t].old, [source |-> Comp, status |-> status])
  BY DEF OverrideWrites, WritesTerm, Grown
<1> DEFINE row == [source |-> Comp, status |-> status]
<1>2. row \in Term /\ row.source = Comp
  BY DEF Term
<1>3. /\ \A p \in Orders : GrantsOf(p)' = GrantsOf(p)
      /\ \A p \in Orders : DOMAIN ents[Payer[p]] \subseteq DOMAIN ents'[Payer[p]]
      /\ TermsArePayers'
  <2> DEFINE old == tx[t].old
  <2>1. WritesTerm(s, old, row)
    BY <1>1
  <2> HIDE DEF s, old, row
  <2> QED BY <1>0, <1>2, <2>1, TermWritten
<1>4. ASSUME NEW u \in Tx PROVE WorksForThePayer(u)' /\ KnowsTheOrder(u)'
  <2>1. WorksForThePayer(u) /\ KnowsTheOrder(u)
    BY DEF OrderInv
  <2> QED BY <1>0, <2>1 DEF WorksForThePayer, KnowsTheOrder, HoldsPayment, AfterPaymentLock, IdleTx
<1>5. ASSUME NEW u \in Tx, NEW v \in Tx, u # v PROVE OneAtATime(u, v)'
  <2>1. OneAtATime(u, v)
    BY <1>5 DEF OrderInv
  <2> QED BY <1>0, <1>5, <2>1 DEF OneAtATime, HoldsPayment, AfterPaymentLock, IdleTx
<1>6. ASSUME NEW p \in Orders PROVE GrantedOnce(p)'
  <2>1. GrantedOnce(p)
    BY DEF OrderInv
  <2> QED BY <1>0, <1>3, <2>1 DEF GrantedOnce
<1>7. ToldAtMostOnce'
  BY <1>0 DEF OrderInv, ToldAtMostOnce
<1> QED BY <1>t, <1>3, <1>4, <1>5, <1>6, <1>7 DEF OrderInv

LEMMA OrderInit == Init => OrderInv
<1> SUFFICES ASSUME Init PROVE OrderInv
  OBVIOUS
<1>1. TypeOK
  BY InitTypes
<1>2. \A t \in Tx : WorksForThePayer(t) /\ KnowsTheOrder(t)
  BY DEF Init, IdleTx, WorksForThePayer, KnowsTheOrder, HoldsPayment, AfterPaymentLock
<1>3. \A t, u \in Tx : OneAtATime(t, u)
  BY DEF Init, IdleTx, OneAtATime, HoldsPayment, AfterPaymentLock
<1>4. \A o \in Orders : GrantedOnce(o)
  BY DEF Init, GrantedOnce, GrantsOf
<1>5. TermsArePayers /\ ToldAtMostOnce
  BY DEF Init, TermsArePayers, ToldAtMostOnce
<1> QED BY <1>1, <1>2, <1>3, <1>4, <1>5 DEF OrderInv

LEMMA OrderStep == OrderInv /\ [Next]_vars => OrderInv'
<1> SUFFICES ASSUME OrderInv, [Next]_vars PROVE OrderInv'
  OBVIOUS
<1>0. TypeOK /\ TypeOK'
  BY TypeStep DEF OrderInv
<1>1. CASE UNCHANGED <<tx, pay, ents, notified>>
  <2>1. /\ \A t \in Tx : WorksForThePayer(t)' /\ KnowsTheOrder(t)'
        /\ \A t, u \in Tx : t # u => OneAtATime(t, u)'
    BY <1>1 DEF OrderInv, WorksForThePayer, KnowsTheOrder, OneAtATime, HoldsPayment
  <2>2. \A o \in Orders : GrantedOnce(o)'
    BY <1>1 DEF OrderInv, GrantedOnce, GrantsOf
  <2>3. TermsArePayers' /\ ToldAtMostOnce'
    BY <1>1 DEF OrderInv, TermsArePayers, ToldAtMostOnce
  <2> QED BY <1>0, <2>1, <2>2, <2>3 DEF OrderInv
<1>2. ASSUME NEW t \in Tx, Quiet(t), Moves(t) PROVE OrderInv'
  BY <1>0, <1>2, QuietKeepsOrders
<1>3. ASSUME NEW t \in Tx, Commit(t) \/ Notify(t) \/ OverrideWrites(t) PROVE OrderInv'
  BY <1>0, <1>3, CommitKeepsOrders, NotifyKeepsOrders, OverrideKeepsOrders
<1> QED BY <1>0, <1>1, <1>2, <1>3, StepsOfRequests

LEMMA OrderInvariant == Spec => []OrderInv
  BY OrderInit, OrderStep, PTL DEF Spec

\* Whatever mix of webhooks, polls, grants, overrides, crashes and deadlocks
\* activate_payment goes through: an activated order is the source of exactly
\* one entitlement, and an order that is not of none.
THEOREM OrdersAreGrantedOnce == Spec => []ActivatedMeansGrantedOnce
<1>1. OrderInv => ActivatedMeansGrantedOnce
  <2> SUFFICES ASSUME OrderInv, NEW o \in Orders
               PROVE  Cardinality(GrantsOf(o)) = IF pay[o].activated THEN 1 ELSE 0
    BY DEF ActivatedMeansGrantedOnce
  <2>1. GrantedOnce(o)
    BY DEF OrderInv
  <2>2. CASE pay[o].activated
    <3>1. PICK i : GrantsOf(o) = {i}
      BY <2>1, <2>2 DEF GrantedOnce
    <3> QED BY <2>2, <3>1, FS_Singleton
  <2>3. CASE ~pay[o].activated
    BY <2>1, <2>3, FS_EmptySet DEF GrantedOnce
  <2> QED BY <2>2, <2>3
<1> QED BY <1>1, OrderInvariant, PTL

\* notify_activation runs at most once for an order, and only for one that was
\* activated.
THEOREM OrdersAreToldOnce == Spec => []ToldAtMostOnce
<1>1. OrderInv => ToldAtMostOnce
  BY DEF OrderInv
<1> QED BY <1>1, OrderInvariant, PTL

-----------------------------------------------------------------------------
(* The student's terms under the subject lock, when nobody overrides.       *)

NoOverride ==
  /\ left.overrides = 0
  /\ \A t \in Tx : tx[t].pc # "override"

\* One request at a time is behind a student's lock, and what it read of the
\* active terms there is what there still is.
OneBehindTheSubject ==
  \A t, u \in Tx : t # u => \A s \in Students : ~(HoldsSubject(t, s) /\ HoldsSubject(u, s))

ReadIsCurrent == \A t \in Tx : tx[t].pc = "read" => tx[t].old = Active(tx[t].s)

TermInv == NoOverride /\ OneBehindTheSubject /\ ReadIsCurrent /\ NewestTermInForce

\* Nothing counts the overrides up.
LEMMA NoOverrideIsLeft ==
  ASSUME TypeOK, left.overrides = 0, [Next]_vars
  PROVE  left'.overrides = 0
<1>0. left \in LeftRow
  BY DEF TypeOK, LeftRow
<1>1. CASE UNCHANGED left
  BY <1>1
<1>2. ASSUME \/ left' = [left EXCEPT !.failures = @ - 1]
             \/ left' = [left EXCEPT !.grants = @ - 1]
             \/ left' = [left EXCEPT !.reassigns = @ - 1]
             \/ left' = [left EXCEPT !.crashes = @ - 1]
      PROVE  left'.overrides = 0
  BY <1>0, <1>2 DEF LeftRow
<1>3. ASSUME NEW o \in Orders, AttemptFails(o) \/ StudentPays(o) \/ AlreadyActivated(o)
      PROVE  left'.overrides = 0
  BY <1>1, <1>2, <1>3 DEF AttemptFails, StudentPays, AlreadyActivated
<1>4. ASSUME NEW t \in Tx, NEW o \in Orders, NEW hooked \in BOOLEAN,
             StartActivation(t, o, hooked) \/ FailureReads(t, o)
      PROVE  UNCHANGED left
  BY <1>4 DEF StartActivation, FailureReads
<1>5. ASSUME NEW t \in Tx, NEW s \in Students, NEW tutor \in Tutors,
             StartGrant(t, s, tutor) \/ ReassignReads(t, s, tutor)
      PROVE  left'.overrides = 0
  BY <1>2, <1>5 DEF StartGrant, ReassignReads
<1>6. ASSUME NEW t \in Tx, NEW s \in Students, OverrideReads(t, s) PROVE FALSE
  BY <1>6 DEF OverrideReads
<1>7. ASSUME NEW t \in Tx, Step(t) PROVE UNCHANGED left
  BY <1>7 DEF Step, LockPayment, FindSubject, InsertSubject, ReadAssignments, FlushAssignments,
     LockSubject, ReadActive, Commit, Notify, FailureWrites, OverrideWrites, ReassignWrites,
     DeadlockVictim
<1>8. ASSUME NEW t \in Tx, Crash(t) PROVE left'.overrides = 0
  BY <1>2, <1>8 DEF Crash
<1>9. CASE UNCHANGED vars
  BY <1>1, <1>9 DEF vars
<1> QED BY <1>1, <1>3, <1>4, <1>5, <1>6, <1>7, <1>8, <1>9 DEF Next

LEMMA QuietKeepsTerms ==
  ASSUME TypeOK, TypeOK', TermInv, left'.overrides = 0, NEW t \in Tx, Quiet(t), Moves(t)
  PROVE  TermInv'
<1>0. /\ \A u \in Tx : u # t => tx'[u] = tx[u]
      /\ \A u \in Tx : tx[u].s \in Students
      /\ UNCHANGED ents
      /\ IdleTx.pc = "idle"
  BY DEF TypeOK, Quiet, TxRow, IdleTx
<1>1. NoOverride'
  <2>1. left.overrides = 0
    BY DEF TermInv, NoOverride
  <2>2. tx'[t].pc # "override"
    BY <1>0, <2>1 DEF Moves, AfterPaymentLock
  <2>3. left'.overrides = 0
    OBVIOUS
  <2> QED BY <1>0, <2>2, <2>3 DEF TermInv, NoOverride
<1>2. ASSUME NEW u \in Tx, u # t, NEW s \in Students
      PROVE ~(HoldsSubject(t, s)' /\ HoldsSubject(u, s)')
  <2>1. ~(HoldsSubject(t, s) /\ HoldsSubject(u, s))
    BY <1>2 DEF TermInv, OneBehindTheSubject
  <2>2. HoldsSubject(u, s)' => HoldsSubject(u, s)
    BY <1>0, <1>2 DEF HoldsSubject
  <2>3. HoldsSubject(t, s)' => HoldsSubject(t, s) \/ (tx[t].s = s /\ SubjectFree(t))
    BY <1>0 DEF Moves, SameErrand, HoldsSubject, AfterPaymentLock
  <2>4. tx[t].s = s /\ SubjectFree(t) => ~HoldsSubject(u, s)
    BY <1>2 DEF SubjectFree, Others
  <2> QED BY <2>1, <2>2, <2>3, <2>4
<1>3. OneBehindTheSubject'
  <2> SUFFICES ASSUME NEW u \in Tx, NEW v \in Tx, u # v, NEW s \in Students
               PROVE  ~(HoldsSubject(u, s)' /\ HoldsSubject(v, s)')
    BY DEF OneBehindTheSubject
  <2>1. CASE u # t /\ v # t
    BY <1>0, <2>1 DEF TermInv, OneBehindTheSubject, HoldsSubject
  <2> QED BY <1>2, <2>1
<1>4. ReadIsCurrent'
  <2> SUFFICES ASSUME NEW u \in Tx, tx'[u].pc = "read"
               PROVE  tx'[u].old = Active(tx[u].s)'
    BY DEF ReadIsCurrent
  <2>1. CASE u # t
    BY <1>0, <2>1 DEF TermInv, ReadIsCurrent, Active
  <2>2. CASE u = t
    <3>1. tx'[t].old = Active(tx[t].s) /\ tx'[t].s = tx[t].s
      BY <1>0, <2>2 DEF Moves, SameErrand
    <3> QED BY <1>0, <2>2, <3>1 DEF Active
  <2> QED BY <2>1, <2>2
<1>5. NewestTermInForce'
  BY <1>0 DEF TermInv, NewestTermInForce, Active
<1> QED BY <1>1, <1>3, <1>4, <1>5 DEF TermInv

\* A commit under the lock supersedes whatever was active and adds the newest.
LEMMA CommitWritesTheNewest ==
  ASSUME TypeOK, TermInv, NEW t \in Tx, Commit(t), NEW s \in Students, s = tx[t].s
  PROVE  /\ WritesTerm(s, tx[t].old, [source |-> SourceOf(t), status |-> "ACTIVE"])
         /\ Active(s)' = {Len(ents[s]) + 1}
         /\ Len(ents'[s]) = Len(ents[s]) + 1
         /\ ents'[s] # <<>>
<1> DEFINE old  == tx[t].old
           row  == [source |-> SourceOf(t), status |-> "ACTIVE"]
           list == ents[s]
<1>1. s \in Students /\ list \in Seq(Term) /\ ents \in [Students -> Seq(Term)] /\ row \in Term
  BY DEF TypeOK, TxRow, SourceOf, Term
<1>2. WritesTerm(s, old, row)
  BY DEF Commit, TermsAfter, WritesTerm, Grown
<1>3. old = Active(s)
  BY DEF Commit, TermInv, ReadIsCurrent
<1>4. row.status = "ACTIVE"
  OBVIOUS
<1>5. Active(s) = {i \in DOMAIN list : list[i].status = "ACTIVE"}
  BY DEF Active
<1> HIDE DEF old, row, list
<1>6. ents'[s] = Grown(list, old, row)
  BY <1>1, <1>2 DEF WritesTerm, list
<1>7. /\ Len(list) \in Nat
      /\ DOMAIN list = 1 .. Len(list)
      /\ DOMAIN Grown(list, old, row) = 1 .. Len(list) + 1
      /\ Len(Grown(list, old, row)) = Len(list) + 1
      /\ Grown(list, old, row)[Len(list) + 1] = row
      /\ \A i \in 1 .. Len(list) :
           Grown(list, old, row)[i].status = IF i \in old THEN "SUPERSEDED" ELSE list[i].status
  BY <1>1, GrownList
<1>8. \A i \in 1 .. Len(list) : Grown(list, old, row)[i].status # "ACTIVE"
  BY <1>3, <1>5, <1>7
<1>9. {i \in DOMAIN Grown(list, old, row) : Grown(list, old, row)[i].status = "ACTIVE"}
        = {Len(list) + 1}
  BY <1>4, <1>7, <1>8
<1>10. Active(s)' = {Len(list) + 1}
  BY <1>6, <1>9 DEF Active
<1>11. ents'[s] # <<>>
  BY <1>6, <1>7
<1> QED BY <1>2, <1>6, <1>7, <1>10, <1>11 DEF old, row, list

LEMMA CommitKeepsTerms ==
  ASSUME OrderInv, TypeOK', TermInv, left'.overrides = 0, NEW t \in Tx, Commit(t)
  PROVE  TermInv'
<1>0. TypeOK /\ tx[t].pc = "read" /\ tx[t].s \in Students
  BY DEF OrderInv, TypeOK, TxRow, Commit
<1>1. PICK s \in Students : s = tx[t].s
  BY <1>0
<1>2. /\ \A u \in Tx : u # t => tx'[u] = tx[u]
      /\ tx'[t].pc \in {"notify", "idle"}
      /\ \A z \in Students : z # s => ents'[z] = ents[z]
      /\ \A u \in Tx : tx[u].s \in Students
  <2>1. tx \in [Tx -> TxRow] /\ ents \in [Students -> Seq(Term)] /\ \A u \in Tx : tx[u].s \in Students
    BY <1>0 DEF TypeOK, TxRow
  <2>2. \/ tx' = [tx EXCEPT ![t] = [tx[t] EXCEPT !.pc = "notify"]]
        \/ tx' = [tx EXCEPT ![t] = IdleTx]
    BY DEF Commit, Go, End
  <2>3. [tx[t] EXCEPT !.pc = "notify"].pc = "notify" /\ IdleTx.pc = "idle"
    BY <2>1 DEF TxRow, IdleTx
  <2>4. ents' = [ents EXCEPT ![s] = TermsAfter(t)]
    BY <1>1 DEF Commit
  <2> QED BY <2>1, <2>2, <2>3, <2>4
<1>3. /\ Active(s)' = {Len(ents'[s])}
      /\ ents'[s] # <<>>
  BY <1>0, <1>1, CommitWritesTheNewest
<1>4. NoOverride'
  <2>1. left'.overrides = 0
    OBVIOUS
  <2> QED BY <1>2, <2>1 DEF TermInv, NoOverride
<1>5. OneBehindTheSubject'
  BY <1>2 DEF TermInv, OneBehindTheSubject, HoldsSubject
<1>6. ASSUME NEW u \in Tx, tx'[u].pc = "read" PROVE tx'[u].old = Active(tx[u].s)'
  <2>1. u # t /\ tx'[u] = tx[u] /\ tx[u].old = Active(tx[u].s)
    BY <1>2, <1>6 DEF TermInv, ReadIsCurrent
  <2>2. tx[u].s # s
    BY <1>0, <1>1, <1>6, <2>1 DEF TermInv, OneBehindTheSubject, HoldsSubject
  <2> QED BY <1>2, <2>1, <2>2 DEF Active
<1>7. ASSUME NEW z \in Students
      PROVE  Active(z)' = IF ents'[z] = <<>> THEN {} ELSE {Len(ents'[z])}
  <2>1. CASE z = s
    BY <1>3, <2>1
  <2>2. CASE z # s
    BY <1>2, <2>2 DEF TermInv, NewestTermInForce, Active
  <2> QED BY <2>1, <2>2
<1> QED BY <1>4, <1>5, <1>6, <1>7 DEF TermInv, ReadIsCurrent, NewestTermInForce

LEMMA TermInit ==
  ASSUME Overrides = 0, Init
  PROVE  TermInv
<1>1. NoOverride
  BY DEF Init, NoOverride, IdleTx
<1>2. OneBehindTheSubject /\ ReadIsCurrent
  BY DEF Init, OneBehindTheSubject, ReadIsCurrent, HoldsSubject, IdleTx
<1>3. NewestTermInForce
  BY DEF Init, NewestTermInForce, Active
<1> QED BY <1>1, <1>2, <1>3 DEF TermInv

LEMMA TermStep == OrderInv /\ TermInv /\ [Next]_vars => TermInv'
<1> SUFFICES ASSUME OrderInv, TermInv, [Next]_vars PROVE TermInv'
  OBVIOUS
<1>0. TypeOK /\ TypeOK' /\ left'.overrides = 0
  BY TypeStep, NoOverrideIsLeft DEF OrderInv, TermInv, NoOverride
<1>1. ASSUME UNCHANGED <<tx, ents>> PROVE TermInv'
  BY <1>0, <1>1 DEF TermInv, NoOverride, OneBehindTheSubject, HoldsSubject, ReadIsCurrent,
                    NewestTermInForce, Active
<1>2. ASSUME NEW t \in Tx, Quiet(t), Moves(t) PROVE TermInv'
  BY <1>0, <1>2, QuietKeepsTerms
<1>3. ASSUME NEW t \in Tx, Commit(t) PROVE TermInv'
  BY <1>0, <1>3, CommitKeepsTerms
<1>4. ASSUME NEW t \in Tx, Notify(t) PROVE TermInv'
  <2>1. /\ UNCHANGED ents
        /\ tx'[t] = IdleTx /\ \A u \in Tx : u # t => tx'[u] = tx[u]
    BY <1>0, <1>4 DEF Notify, End, rows, TypeOK
  <2>2. NoOverride'
    BY <1>0, <2>1 DEF TermInv, NoOverride, IdleTx
  <2>3. OneBehindTheSubject'
    BY <2>1 DEF TermInv, OneBehindTheSubject, HoldsSubject, IdleTx
  <2>4. ReadIsCurrent'
    BY <2>1 DEF TermInv, ReadIsCurrent, Active, IdleTx
  <2>5. NewestTermInForce'
    BY <2>1 DEF TermInv, NewestTermInForce, Active
  <2> QED BY <2>2, <2>3, <2>4, <2>5 DEF TermInv
<1>5. ASSUME NEW t \in Tx, OverrideWrites(t) PROVE FALSE
  BY <1>5 DEF OverrideWrites, TermInv, NoOverride
<1> QED BY <1>0, <1>1, <1>2, <1>3, <1>4, <1>5, StepsOfRequests

LEMMA TermInvariant ==
  ASSUME Overrides = 0
  PROVE  Spec => [](OrderInv /\ TermInv)
<1>1. Init => OrderInv /\ TermInv
  BY OrderInit, TermInit
<1>2. OrderInv /\ TermInv /\ [Next]_vars => OrderInv' /\ TermInv'
  BY OrderStep, TermStep
<1> QED BY <1>1, <1>2, PTL DEF Spec

\* Where no operator overrides an entitlement, _supersede_active_entitlements
\* keeps the newest term of every student, and no other, ACTIVE.
THEOREM TheNewestTermIsInForce ==
  ASSUME Overrides = 0
  PROVE  Spec => []NewestTermInForce
<1>1. OrderInv /\ TermInv => NewestTermInForce
  BY DEF TermInv
<1> QED BY <1>1, TermInvariant, PTL

-----------------------------------------------------------------------------
(* The transactions implement the ledger.                                   *)

Terms   == [s \in Students |-> [i \in DOMAIN ents[s] |-> ents[s][i].source]]
InForce == [s \in Students |->
              IF Cardinality(Active(s)) = 1 THEN CHOOSE i \in Active(s) : TRUE ELSE 0]

LEMMA InForceIsNewest ==
  ASSUME NewestTermInForce, NEW s \in Students
  PROVE  InForce[s] = IF ents[s] = <<>> THEN 0 ELSE Len(ents[s])
<1>1. CASE ents[s] = <<>>
  <2>1. Active(s) = {}
    BY <1>1 DEF NewestTermInForce
  <2>2. Cardinality({}) = 0
    BY FS_EmptySet
  <2> QED BY <1>1, <2>1, <2>2 DEF InForce
<1>2. CASE ents[s] # <<>>
  <2>1. Active(s) = {Len(ents[s])}
    BY <1>2 DEF NewestTermInForce
  <2>2. Cardinality({Len(ents[s])}) = 1
    BY FS_Singleton
  <2> QED BY <1>2, <2>1, <2>2 DEF InForce
<1> QED BY <1>1, <1>2

LEMMA LedgerInit == Init => Ledger!Init
<1> SUFFICES ASSUME Init PROVE Ledger!Init
  OBVIOUS
<1>1. \A s \in Students : ents[s] = <<>> /\ Active(s) = {}
  BY DEF Init, Active
<1>2. Cardinality({}) = 0
  BY FS_EmptySet
<1>3. \A s \in Students : [i \in DOMAIN ents[s] |-> ents[s][i].source] = <<>>
  BY <1>1
<1> QED BY <1>1, <1>2, <1>3 DEF Ledger!Init

\* The commit of a grant is the ledger's grant, and every other step is none.
LEMMA LedgerStep ==
  ASSUME OrderInv, TermInv, TermInv', [Next]_vars
  PROVE  [Ledger!Next]_<<Terms, InForce>>
<1>0. TypeOK /\ ents \in [Students -> Seq(Term)] /\ NewestTermInForce /\ NewestTermInForce'
  BY DEF OrderInv, TypeOK, TermInv
<1>1. ASSUME UNCHANGED ents PROVE UNCHANGED <<Terms, InForce>>
  BY <1>1 DEF Terms, InForce, Active
<1>2. ASSUME NEW t \in Tx, OverrideWrites(t) PROVE FALSE
  BY <1>2 DEF OverrideWrites, TermInv, NoOverride
<1>3. ASSUME NEW t \in Tx, Commit(t) PROVE Ledger!Next
  <2>0. PICK s \in Students : s = tx[t].s
    BY <1>0 DEF TypeOK, TxRow
  <2>a. PICK source \in Orders \cup {Comp} : source = SourceOf(t)
    BY <1>0 DEF SourceOf, TypeOK, TxRow
  <2> DEFINE row    == [source |-> source, status |-> "ACTIVE"]
             old    == tx[t].old
             list   == ents[s]
             grown  == Grown(list, old, row)
  <2>1. row \in Term /\ row.source = source
    BY DEF Term
  <2>2. WritesTerm(s, old, row) /\ Active(s)' = {Len(list) + 1}
        /\ Len(ents'[s]) = Len(list) + 1 /\ ents'[s] # <<>>
    BY <1>0, <1>3, <2>0, <2>a, CommitWritesTheNewest
  <2> HIDE DEF row, old, list, grown
  <2>3. list \in Seq(Term)
    BY <1>0 DEF list
  <2>4. /\ Len(list) \in Nat
        /\ DOMAIN list = 1 .. Len(list)
        /\ DOMAIN grown = 1 .. Len(list) + 1
        /\ grown[Len(list) + 1] = row
        /\ \A i \in 1 .. Len(list) : grown[i].source = list[i].source
    BY <2>1, <2>3, GrownList DEF grown
  <2>5. ents'[s] = grown /\ \A z \in Students : z # s => ents'[z] = ents[z]
    BY <1>0, <2>2 DEF WritesTerm, grown, list
  <2>6. source \notin Ledger!Granted
    <3>1. CASE source = Comp
      <4>1. Comp \notin Orders
        OBVIOUS
      <4> QED BY <3>1, <4>1 DEF Ledger!Granted
    <3>2. CASE source \in Orders
      <4>1. source # Comp /\ tx[t].kind = "pay" /\ source = tx[t].o
        BY <2>a, <3>2 DEF SourceOf
      <4>2. tx[t].pc = "read" /\ s = Payer[source] /\ ~pay[source].activated
        BY <1>3, <2>0, <4>1
           DEF Commit, OrderInv, WorksForThePayer, KnowsTheOrder, HoldsPayment, AfterPaymentLock
      <4>3. GrantsOf(source) = {}
        BY <3>2, <4>2 DEF OrderInv, GrantedOnce
      <4>4. \A z \in Students : \A i \in DOMAIN ents[z] : ents[z][i].source # source
        BY <3>2, <4>2, <4>3 DEF OrderInv, TermsArePayers, GrantsOf
      <4>5. \A z \in Students : \A i \in DOMAIN Terms[z] : Terms[z][i] # source
        BY <4>4 DEF Terms
      <4> QED BY <4>5 DEF Ledger!Granted, Terms
    <3> QED BY <3>1, <3>2
  <2>7. /\ Terms' = [Terms EXCEPT ![s] = Append(@, source)]
        /\ Len(Terms[s]) = Len(list)
    <3> DEFINE before == [i \in 1 .. Len(list) |-> list[i].source]
               after  == [i \in 1 .. Len(list) + 1 |-> grown[i].source]
    <3>1. Terms[s] = before
      BY <2>4 DEF Terms, list
    <3>2. Terms'[s] = after
      BY <2>4, <2>5 DEF Terms
    <3>3. \A z \in Students : z # s => Terms'[z] = Terms[z]
      BY <2>5 DEF Terms
    <3>4. \A i \in 1 .. Len(list) : list[i].source \in Orders \cup {Comp}
      <4>1. \A i \in 1 .. Len(list) : list[i] \in Term
        BY <2>3, ElementOfSeq
      <4> QED BY <4>1 DEF Term
    <3>5. before \in Seq(Orders \cup {Comp}) /\ Len(before) = Len(list)
      <4>1. before \in [1 .. Len(list) -> Orders \cup {Comp}]
        BY <3>4
      <4>2. before \in Seq(Orders \cup {Comp})
        BY <2>4, <4>1, SeqDef
      <4> HIDE DEF before
      <4> QED BY <2>4, <4>1, <4>2, LenProperties
    <3>6. after = Append(before, source)
      <4>1. after \in [1 .. Len(list) + 1 -> Orders \cup {Comp}]
        BY <2>1, <2>4, <3>4
      <4>2. after \in Seq(Orders \cup {Comp})
        BY <2>4, <4>1, SeqDef
      <4>3. \A i \in 1 .. Len(list) : after[i] = before[i]
        BY <2>4
      <4>4. after[Len(list) + 1] = source
        BY <2>1, <2>4
      <4> HIDE DEF before, after
      <4>5. Len(after) = Len(list) + 1
        BY <2>4, <4>1, <4>2, LenProperties
      <4>6. /\ Append(before, source) \in Seq(Orders \cup {Comp})
            /\ Len(Append(before, source)) = Len(list) + 1
            /\ \A i \in 1 .. Len(list) : Append(before, source)[i] = before[i]
            /\ Append(before, source)[Len(list) + 1] = source
        BY <2>4, <3>5
      <4> QED BY <2>4, <4>2, <4>3, <4>4, <4>5, <4>6, SeqEqual
    <3> HIDE DEF before, after
    <3>7. DOMAIN Terms = Students /\ DOMAIN Terms' = Students
          /\ Terms' = [z \in Students |-> Terms'[z]]
      BY DEF Terms
    <3> QED BY <3>1, <3>2, <3>3, <3>5, <3>6, <3>7
  <2>8. InForce' = [InForce EXCEPT ![s] = Len(Terms[s]) + 1]
    <3>1. InForce'[s] = Len(list) + 1
      <4>1. Cardinality({Len(list) + 1}) = 1
        BY FS_Singleton
      <4> QED BY <2>2, <4>1 DEF InForce
    <3>2. ASSUME NEW z \in Students, z # s PROVE InForce'[z] = InForce[z]
      <4>1. Active(z)' = Active(z)
        BY <2>5, <3>2 DEF Active
      <4>2. /\ InForce[z] = IF Cardinality(Active(z)) = 1
                            THEN CHOOSE i \in Active(z) : TRUE ELSE 0
            /\ InForce'[z] = IF Cardinality(Active(z)') = 1
                             THEN CHOOSE i \in Active(z)' : TRUE ELSE 0
        BY DEF InForce
      <4> QED BY <4>1, <4>2
    <3>3. DOMAIN InForce = Students /\ InForce' = [z \in Students |-> InForce'[z]]
      BY DEF InForce
    <3> QED BY <2>7, <3>1, <3>2, <3>3
  <2>9. Ledger!Grant(s, source)
    BY <2>6, <2>7, <2>8 DEF Ledger!Grant, Terms, InForce
  <2> QED BY <2>1, <2>9 DEF Ledger!Next
<1>4. ASSUME NEW t \in Tx, Quiet(t) \/ Notify(t) PROVE UNCHANGED ents
  BY <1>4 DEF Quiet, Notify, rows
<1> QED BY <1>0, <1>1, <1>2, <1>3, <1>4, StepsOfRequests

\* Where no operator overrides: every run of the transactions, lock by lock and
\* crash by crash, is a run of the ledger that grants in one step, gives the
\* newest term and grants no order twice.
THEOREM SubscriptionsImplementLedger ==
  ASSUME Overrides = 0
  PROVE  Spec => ImplementsLedger
<1>1. OrderInv /\ TermInv /\ TermInv' /\ [Next]_vars => [Ledger!Next]_<<Terms, InForce>>
  BY LedgerStep
<1> QED BY <1>1, LedgerInit, TermInvariant, PTL DEF ImplementsLedger, Ledger!Spec, Spec, Terms, InForce
===============================================================================
