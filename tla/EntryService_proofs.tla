------------------------- MODULE EntryService_proofs -------------------------
(***************************************************************************)
(* Safety of the entry service for every number of messages, students and   *)
(* concurrent requests, and its refinement of AnswerOnce.                   *)
(***************************************************************************)
EXTENDS EntryService, FiniteSetTheorems, TLAPS

\* The request owns its message: it has the claim, committed or not.
Owns(r) == req[r].pc \in PastClaim \cup BetweenTx

\* One owner per message.
SoleOwner ==
  \A r, q \in Requests : Owns(r) /\ Owns(q) /\ req[r].e = req[q].e => r = q

\* The committed row is what the owner believes: still claimable under an
\* uncommitted claim, held between the transactions, completed iff answered.
RowMatchesOwner ==
  /\ \A r \in Requests :
       /\ req[r].pc \in PastClaim => Claimable(req[r].e)
       /\ req[r].pc \in BetweenTx => claim[req[r].e] = "held"
  /\ \A e \in Events : claim[e] = "completed" <=> response[e] # "none"

\* What a request is about to record.
KindMatchesStep ==
  \A r \in Requests :
    /\ req[r].pc \in {"replying", "replied"} =>
         req[r].kind \in {"unresolved", "refusal", "reply"}
    /\ req[r].pc = "replying" => req[r].kind # "unresolved"
    /\ req[r].pc = "called" => req[r].calls <= MaxCalls

Pending(e) == \E r \in Requests : req[r].e = e /\ req[r].pc = "called"

\* WorkExecutesOnce without cardinalities.
EveryExecutionCounted ==
  \A e \in Events :
    executions[e] = lost[e] + (IF Pending(e) THEN 1 ELSE 0)
                      + (IF response[e] = "answer" THEN 1 ELSE 0)

\* The part of the invariant that needs no arithmetic on sets.
IInv ==
  /\ TypeOK
  /\ SoleOwner
  /\ RowMatchesOwner
  /\ KindMatchesStep
  /\ EveryExecutionCounted

LEMMA InitIInv == Init => IInv
<1> SUFFICES ASSUME Init PROVE IInv
  OBVIOUS
<1> USE EntryServiceAssumption
<1>1. IdleRequest \in RequestRow
  BY DEF IdleRequest, RequestRow, PC, Answers
<1>2. TypeOK
  BY <1>1 DEF Init, TypeOK, Answers
<1>3. \A r \in Requests : req[r].pc = "idle"
  BY DEF Init, IdleRequest
<1>4. SoleOwner /\ KindMatchesStep
  BY <1>3 DEF SoleOwner, Owns, PastClaim, BetweenTx, KindMatchesStep
<1>5. RowMatchesOwner
  BY <1>3 DEF Init, RowMatchesOwner, PastClaim, BetweenTx
<1>6. EveryExecutionCounted
  BY <1>3 DEF Init, EveryExecutionCounted, Pending
<1> QED BY <1>2, <1>4, <1>5, <1>6 DEF IInv
-----------------------------------------------------------------------------
(* One lemma per action: it preserves the invariant.                        *)

\* A step that makes nobody an owner leaves at most one.
LEMMA SoleOwnerStays ==
  ASSUME SoleOwner,
         \A q \in Requests : Owns(q)' => Owns(q) /\ req'[q].e = req[q].e
  PROVE  SoleOwner'
BY DEF SoleOwner, Owns

\* A row stays a row when its step and what it records, or what it spent,
\* change.
LEMMA RowKeepsType ==
  ASSUME NEW x \in RequestRow, NEW pc \in PC
  PROVE  /\ \A kind \in Answers : [x EXCEPT !.pc = pc, !.kind = kind] \in RequestRow
         /\ \A n \in Nat : [x EXCEPT !.pc = pc, !.calls = n] \in RequestRow
<1>1. ASSUME NEW kind \in Answers PROVE [x EXCEPT !.pc = pc, !.kind = kind] \in RequestRow
  BY DEF RequestRow
<1>2. ASSUME NEW n \in Nat PROVE [x EXCEPT !.pc = pc, !.calls = n] \in RequestRow
  BY DEF RequestRow
<1> QED BY <1>1, <1>2

LEMMA ReceiveKeeps ==
  ASSUME IInv, NEW r \in Requests, NEW e \in Events, Receive(r, e)
  PROVE  IInv'
<1> USE EntryServiceAssumption DEF IInv, TypeOK, RequestRow, PC, PastClaim, BetweenTx, committed, ghosts, bounds, IdleRequest
<1>1. TypeOK'
  BY DEF Receive, Answers
<1>2. SoleOwner'
  BY DEF Receive, SoleOwner, RowMatchesOwner, Owns, Claimable
<1>3. RowMatchesOwner'
  BY DEF Receive, RowMatchesOwner, KindMatchesStep, SoleOwner, Owns, Claimable, Answers
<1>4. KindMatchesStep'
  BY DEF Receive, KindMatchesStep
<1>5. EveryExecutionCounted'
  BY DEF Receive, EveryExecutionCounted, Pending, SoleOwner, Owns, RowMatchesOwner, KindMatchesStep, Claimable
<1> QED BY <1>1, <1>2, <1>3, <1>4, <1>5 DEF IInv

LEMMA ClaimKeeps ==
  ASSUME IInv, NEW r \in Requests, Claim(r)
  PROVE  IInv'
<1> USE EntryServiceAssumption DEF IInv, TypeOK, RequestRow, PC, PastClaim, BetweenTx, committed, ghosts, bounds, Moves
<1>1. TypeOK'
  BY DEF Claim, Answers
<1>2. SoleOwner'
  BY DEF Claim, SoleOwner, RowMatchesOwner, Owns, Claimable, KeyFree
<1>3. RowMatchesOwner'
  BY DEF Claim, RowMatchesOwner, KindMatchesStep, SoleOwner, Owns, Claimable, Answers, KeyFree
<1>4. KindMatchesStep'
  BY DEF Claim, KindMatchesStep
<1>5. EveryExecutionCounted'
  BY DEF Claim, EveryExecutionCounted, Pending, SoleOwner, Owns, RowMatchesOwner, KindMatchesStep, Claimable
<1> QED BY <1>1, <1>2, <1>3, <1>4, <1>5 DEF IInv

LEMMA AnswerDuplicateKeeps ==
  ASSUME IInv, NEW r \in Requests, AnswerDuplicate(r)
  PROVE  IInv'
<1> USE EntryServiceAssumption DEF IInv, TypeOK, RequestRow, PC, PastClaim, BetweenTx, committed, ghosts, bounds, IdleRequest, Ends, Acknowledges
<1>1. TypeOK'
  BY DEF AnswerDuplicate, Answers
<1>2. SoleOwner'
  BY DEF AnswerDuplicate, SoleOwner, RowMatchesOwner, Owns, Claimable
<1>3. RowMatchesOwner'
  BY DEF AnswerDuplicate, RowMatchesOwner, KindMatchesStep, SoleOwner, Owns, Claimable, Answers
<1>4. KindMatchesStep'
  BY DEF AnswerDuplicate, KindMatchesStep
<1>5. EveryExecutionCounted'
  BY DEF AnswerDuplicate, EveryExecutionCounted, Pending, SoleOwner, Owns, RowMatchesOwner, KindMatchesStep, Claimable
<1> QED BY <1>1, <1>2, <1>3, <1>4, <1>5 DEF IInv

LEMMA RejectUnresolvedKeeps ==
  ASSUME IInv, NEW r \in Requests, RejectUnresolved(r)
  PROVE  IInv'
<1> USE EntryServiceAssumption DEF IInv, TypeOK, RequestRow, PC, PastClaim, BetweenTx, committed, ghosts, bounds
<1>1. TypeOK'
  <2>1. req' \in [Requests -> RequestRow]
    <3>1. req[r] \in RequestRow /\ "replied" \in PC /\ "unresolved" \in Answers
      BY DEF Answers
    <3>2. [req[r] EXCEPT !.pc = "replied", !.kind = "unresolved"] \in RequestRow
      <4> HIDE DEF RequestRow, PC
      <4> QED BY <3>1, RowKeepsType
    <3> QED BY <3>2 DEF RejectUnresolved
  <2>2. UNCHANGED due /\ claim' \in [Events -> {"absent", "held", "stale", "completed"}]
    BY DEF RejectUnresolved
  <2>3. response' \in [Events -> Answers \cup {"none"}] /\ used' \in [Students -> Nat]
    BY DEF RejectUnresolved, Answers
  <2>4. asked' \in [Events -> Nat] /\ answered' \in [Events -> Nat] /\ told' \in [Events -> Nat]
    BY DEF RejectUnresolved
  <2>5. executions' \in [Events -> Nat] /\ UNCHANGED <<lost, crashes, failures>>
    BY DEF RejectUnresolved
  <2> QED BY <2>1, <2>2, <2>3, <2>4, <2>5
<1>2. SoleOwner'
  <2>1. ASSUME NEW q \in Requests, Owns(q)'
        PROVE  Owns(q) /\ req'[q].e = req[q].e
    <3>1. CASE q = r
      BY <2>1, <3>1 DEF RejectUnresolved, Owns
    <3>2. CASE q # r
      BY <2>1, <3>2 DEF RejectUnresolved, Owns
    <3> QED BY <3>1, <3>2
  <2> QED BY <2>1, SoleOwnerStays
<1>3. RowMatchesOwner'
  BY DEF RejectUnresolved, RowMatchesOwner, KindMatchesStep, SoleOwner, Owns, Claimable, Answers
<1>4. KindMatchesStep'
  BY DEF RejectUnresolved, KindMatchesStep
<1>5. EveryExecutionCounted'
  BY DEF RejectUnresolved, EveryExecutionCounted, Pending, SoleOwner, Owns, RowMatchesOwner, KindMatchesStep, Claimable
<1> QED BY <1>1, <1>2, <1>3, <1>4, <1>5 DEF IInv

LEMMA AnswerWithoutModelKeeps ==
  ASSUME IInv, NEW r \in Requests, AnswerWithoutModel(r)
  PROVE  IInv'
<1> USE EntryServiceAssumption DEF IInv, TypeOK, RequestRow, PC, PastClaim, BetweenTx, committed, ghosts, bounds
<1>1. TypeOK'
  <2>1. req' \in [Requests -> RequestRow]
    <3>1. PICK kind \in {"refusal", "reply"} :
            req' = [req EXCEPT ![r] = [@ EXCEPT !.pc = "replying", !.kind = kind]]
      BY DEF AnswerWithoutModel
    <3>2. req[r] \in RequestRow /\ "replying" \in PC /\ kind \in Answers
      BY DEF Answers
    <3>3. [req[r] EXCEPT !.pc = "replying", !.kind = kind] \in RequestRow
      <4> HIDE DEF RequestRow, PC
      <4> QED BY <3>2, RowKeepsType
    <3> QED BY <3>1, <3>3
  <2>2. UNCHANGED due /\ claim' \in [Events -> {"absent", "held", "stale", "completed"}]
    BY DEF AnswerWithoutModel
  <2>3. response' \in [Events -> Answers \cup {"none"}] /\ used' \in [Students -> Nat]
    BY DEF AnswerWithoutModel, Answers
  <2>4. asked' \in [Events -> Nat] /\ answered' \in [Events -> Nat] /\ told' \in [Events -> Nat]
    BY DEF AnswerWithoutModel
  <2>5. executions' \in [Events -> Nat] /\ UNCHANGED <<lost, crashes, failures>>
    BY DEF AnswerWithoutModel
  <2> QED BY <2>1, <2>2, <2>3, <2>4, <2>5
<1>2. SoleOwner'
  <2>1. ASSUME NEW q \in Requests, Owns(q)'
        PROVE  Owns(q) /\ req'[q].e = req[q].e
    <3>1. CASE q = r
      BY <2>1, <3>1 DEF AnswerWithoutModel, Owns
    <3>2. CASE q # r
      BY <2>1, <3>2 DEF AnswerWithoutModel, Owns
    <3> QED BY <3>1, <3>2
  <2> QED BY <2>1, SoleOwnerStays
<1>3. RowMatchesOwner'
  BY DEF AnswerWithoutModel, RowMatchesOwner, KindMatchesStep, SoleOwner, Owns, Claimable, Answers
<1>4. KindMatchesStep'
  BY DEF AnswerWithoutModel, KindMatchesStep
<1>5. EveryExecutionCounted'
  <2>1. ASSUME NEW q \in Requests
        PROVE  /\ req'[q].e = req[q].e
               /\ req'[q].pc = "called" <=> req[q].pc = "called"
    BY DEF AnswerWithoutModel
  <2>2. UNCHANGED <<executions, lost, response>>
    BY DEF AnswerWithoutModel
  <2> QED BY <2>1, <2>2 DEF EveryExecutionCounted, Pending
<1> QED BY <1>1, <1>2, <1>3, <1>4, <1>5 DEF IInv

LEMMA PlanPaidCallKeeps ==
  ASSUME IInv, NEW r \in Requests, PlanPaidCall(r)
  PROVE  IInv'
<1> USE EntryServiceAssumption DEF IInv, TypeOK, RequestRow, PC, PastClaim, BetweenTx, committed, ghosts, bounds
<1>1. TypeOK'
  <2>1. req' \in [Requests -> RequestRow]
    <3>1. req[r] \in RequestRow /\ "planned" \in PC /\ "answer" \in Answers
      BY DEF Answers
    <3>2. [req[r] EXCEPT !.pc = "planned", !.kind = "answer"] \in RequestRow
      <4> HIDE DEF RequestRow, PC
      <4> QED BY <3>1, RowKeepsType
    <3> QED BY <3>2 DEF PlanPaidCall
  <2>2. UNCHANGED due /\ claim' \in [Events -> {"absent", "held", "stale", "completed"}]
    BY DEF PlanPaidCall
  <2>3. response' \in [Events -> Answers \cup {"none"}] /\ used' \in [Students -> Nat]
    BY DEF PlanPaidCall, Answers
  <2>4. asked' \in [Events -> Nat] /\ answered' \in [Events -> Nat] /\ told' \in [Events -> Nat]
    BY DEF PlanPaidCall
  <2>5. executions' \in [Events -> Nat] /\ UNCHANGED <<lost, crashes, failures>>
    BY DEF PlanPaidCall
  <2> QED BY <2>1, <2>2, <2>3, <2>4, <2>5
<1>2. SoleOwner'
  <2>1. ASSUME NEW q \in Requests, Owns(q)'
        PROVE  Owns(q) /\ req'[q].e = req[q].e
    <3>1. CASE q = r
      BY <2>1, <3>1 DEF PlanPaidCall, Owns
    <3>2. CASE q # r
      BY <2>1, <3>2 DEF PlanPaidCall, Owns
    <3> QED BY <3>1, <3>2
  <2> QED BY <2>1, SoleOwnerStays
<1>3. RowMatchesOwner'
  BY DEF PlanPaidCall, RowMatchesOwner, KindMatchesStep, SoleOwner, Owns, Claimable, Answers
<1>4. KindMatchesStep'
  BY DEF PlanPaidCall, KindMatchesStep
<1>5. EveryExecutionCounted'
  BY DEF PlanPaidCall, EveryExecutionCounted, Pending, SoleOwner, Owns, RowMatchesOwner, KindMatchesStep, Claimable
<1> QED BY <1>1, <1>2, <1>3, <1>4, <1>5 DEF IInv

LEMMA ReplyKeeps ==
  ASSUME IInv, NEW r \in Requests, Reply(r)
  PROVE  IInv'
<1> USE EntryServiceAssumption DEF IInv, TypeOK, RequestRow, PC, PastClaim, BetweenTx, committed, ghosts, bounds, Moves
<1>1. TypeOK'
  BY DEF Reply, Answers
<1>2. SoleOwner'
  <2>1. ASSUME NEW q \in Requests, Owns(q)'
        PROVE  Owns(q) /\ req'[q].e = req[q].e
    <3>1. CASE q = r
      BY <2>1, <3>1 DEF Reply, Owns
    <3>2. CASE q # r
      BY <2>1, <3>2 DEF Reply, Owns
    <3> QED BY <3>1, <3>2
  <2> QED BY <2>1, SoleOwnerStays
<1>3. RowMatchesOwner'
  BY DEF Reply, RowMatchesOwner, KindMatchesStep, SoleOwner, Owns, Claimable, Answers
<1>4. KindMatchesStep'
  BY DEF Reply, KindMatchesStep
<1>5. EveryExecutionCounted'
  BY DEF Reply, EveryExecutionCounted, Pending, SoleOwner, Owns, RowMatchesOwner, KindMatchesStep, Claimable
<1> QED BY <1>1, <1>2, <1>3, <1>4, <1>5 DEF IInv

LEMMA CommitReplyKeeps ==
  ASSUME IInv, NEW r \in Requests, CommitReply(r)
  PROVE  IInv'
<1> USE EntryServiceAssumption DEF IInv, TypeOK, RequestRow, PC, PastClaim, BetweenTx, committed, ghosts, bounds, IdleRequest, Ends, Acknowledges, ClaimAfterReply
<1>1. TypeOK'
  BY DEF CommitReply, Answers
<1>2. SoleOwner'
  BY DEF CommitReply, SoleOwner, RowMatchesOwner, Owns, Claimable
<1>3. RowMatchesOwner'
  BY DEF CommitReply, RowMatchesOwner, KindMatchesStep, SoleOwner, Owns, Claimable, Answers
<1>4. KindMatchesStep'
  BY DEF CommitReply, KindMatchesStep
<1>5. EveryExecutionCounted'
  BY SMTT(30) DEF CommitReply, EveryExecutionCounted, Pending, SoleOwner, Owns, RowMatchesOwner, KindMatchesStep, Claimable
<1> QED BY <1>1, <1>2, <1>3, <1>4, <1>5 DEF IInv

LEMMA CommitPlanKeeps ==
  ASSUME IInv, NEW r \in Requests, CommitPlan(r)
  PROVE  IInv'
<1> USE EntryServiceAssumption DEF IInv, TypeOK, RequestRow, PC, PastClaim, BetweenTx, committed, ghosts, bounds, Moves
<1>1. TypeOK'
  BY SMTT(30) DEF CommitPlan, Answers
<1>2. SoleOwner'
  <2>1. ASSUME NEW q \in Requests, Owns(q)'
        PROVE  Owns(q) /\ req'[q].e = req[q].e
    <3>1. CASE q = r
      BY <2>1, <3>1 DEF CommitPlan, Owns
    <3>2. CASE q # r
      BY <2>1, <3>2 DEF CommitPlan, Owns
    <3> QED BY <3>1, <3>2
  <2> QED BY <2>1, SoleOwnerStays
<1>3. RowMatchesOwner'
  BY DEF CommitPlan, RowMatchesOwner, KindMatchesStep, SoleOwner, Owns, Claimable, Answers
<1>4. KindMatchesStep'
  BY DEF CommitPlan, KindMatchesStep
<1>5. EveryExecutionCounted'
  BY DEF CommitPlan, EveryExecutionCounted, Pending, SoleOwner, Owns, RowMatchesOwner, KindMatchesStep, Claimable
<1> QED BY <1>1, <1>2, <1>3, <1>4, <1>5 DEF IInv

LEMMA ExecuteKeeps ==
  ASSUME IInv, NEW r \in Requests, Execute(r)
  PROVE  IInv'
<1> USE EntryServiceAssumption DEF IInv, TypeOK, RequestRow, PC, PastClaim, BetweenTx, committed, ghosts, bounds
<1>1. TypeOK'
  <2>1. req' \in [Requests -> RequestRow]
    <3>1. PICK n \in 0..MaxCalls :
            req' = [req EXCEPT ![r] = [@ EXCEPT !.pc = "called", !.calls = n]]
      BY DEF Execute
    <3>2. n \in Nat /\ req[r] \in RequestRow
      OBVIOUS
    <3>3. [req[r] EXCEPT !.pc = "called", !.calls = n] \in RequestRow
      BY <3>2 DEF Answers
    <3> QED BY <3>1, <3>3
  <2>2. UNCHANGED due /\ claim' \in [Events -> {"absent", "held", "stale", "completed"}]
    BY DEF Execute
  <2>3. response' \in [Events -> Answers \cup {"none"}] /\ used' \in [Students -> Nat]
    BY DEF Execute, Answers
  <2>4. asked' \in [Events -> Nat] /\ answered' \in [Events -> Nat] /\ told' \in [Events -> Nat]
    BY DEF Execute
  <2>5. executions' \in [Events -> Nat] /\ UNCHANGED <<lost, crashes, failures>>
    BY DEF Execute
  <2> QED BY <2>1, <2>2, <2>3, <2>4, <2>5
<1>2. SoleOwner'
  <2>1. ASSUME NEW q \in Requests, Owns(q)'
        PROVE  Owns(q) /\ req'[q].e = req[q].e
    <3>1. CASE q = r
      BY <2>1, <3>1 DEF Execute, Owns
    <3>2. CASE q # r
      BY <2>1, <3>2 DEF Execute, Owns
    <3> QED BY <3>1, <3>2
  <2> QED BY <2>1, SoleOwnerStays
<1>3. RowMatchesOwner'
  BY DEF Execute, RowMatchesOwner, KindMatchesStep, SoleOwner, Owns, Claimable, Answers
<1>4. KindMatchesStep'
  BY DEF Execute, KindMatchesStep
<1>5. EveryExecutionCounted'
  BY DEF Execute, EveryExecutionCounted, Pending, SoleOwner, Owns, RowMatchesOwner, KindMatchesStep, Claimable
<1> QED BY <1>1, <1>2, <1>3, <1>4, <1>5 DEF IInv

LEMMA SettleKeeps ==
  ASSUME IInv, NEW r \in Requests, Settle(r)
  PROVE  IInv'
<1> USE EntryServiceAssumption DEF IInv, TypeOK, RequestRow, PC, PastClaim, BetweenTx, committed, ghosts, bounds, Charged, Student
<1>1. TypeOK'
  <2>1. req' \in [Requests -> RequestRow]
    <3>1. req[r] \in RequestRow /\ "delivering" \in PC
      BY DEF Answers
    <3>2. [req[r] EXCEPT !.pc = "delivering", !.calls = 0] \in RequestRow
      <4> HIDE DEF RequestRow, PC
      <4> QED BY <3>1, RowKeepsType
    <3> QED BY <3>2 DEF Settle
  <2>2. UNCHANGED due /\ claim' \in [Events -> {"absent", "held", "stale", "completed"}]
    BY DEF Settle
  <2>3. response' \in [Events -> Answers \cup {"none"}] /\ used' \in [Students -> Nat]
    <3>1. req[r].e \in Events /\ req[r].calls \in Nat
      OBVIOUS
    <3>2. Sender[req[r].e] \in Students
      BY <3>1
    <3>3. used' = [used EXCEPT ![Sender[req[r].e]] = used[Sender[req[r].e]] + req[r].calls]
      BY DEF Settle
    <3>4. response' = [response EXCEPT ![req[r].e] = "answer"]
      BY DEF Settle
    <3> QED BY <3>1, <3>2, <3>3, <3>4 DEF Answers
  <2>4. asked' \in [Events -> Nat] /\ answered' \in [Events -> Nat] /\ told' \in [Events -> Nat]
    BY DEF Settle
  <2>5. executions' \in [Events -> Nat] /\ UNCHANGED <<lost, crashes, failures>>
    BY DEF Settle
  <2> QED BY <2>1, <2>2, <2>3, <2>4, <2>5
<1>2. SoleOwner'
  <2>1. ASSUME NEW q \in Requests, Owns(q)'
        PROVE  Owns(q) /\ req'[q].e = req[q].e
    <3>1. CASE q = r
      BY <2>1, <3>1 DEF Settle, Owns
    <3>2. CASE q # r
      BY <2>1, <3>2 DEF Settle, Owns
    <3> QED BY <3>1, <3>2
  <2> QED BY <2>1, SoleOwnerStays
<1>3. RowMatchesOwner'
  BY DEF Settle, RowMatchesOwner, KindMatchesStep, SoleOwner, Owns, Claimable, Answers
<1>4. KindMatchesStep'
  BY DEF Settle, KindMatchesStep
<1>5. EveryExecutionCounted'
  BY DEF Settle, EveryExecutionCounted, Pending, SoleOwner, Owns, RowMatchesOwner, KindMatchesStep, Claimable
<1> QED BY <1>1, <1>2, <1>3, <1>4, <1>5 DEF IInv

LEMMA DeliverKeeps ==
  ASSUME IInv, NEW r \in Requests, Deliver(r)
  PROVE  IInv'
<1> USE EntryServiceAssumption DEF IInv, TypeOK, RequestRow, PC, PastClaim, BetweenTx, committed, ghosts, bounds, IdleRequest, Ends, Acknowledges
<1>1. TypeOK'
  BY DEF Deliver, Answers
<1>2. SoleOwner'
  BY DEF Deliver, SoleOwner, RowMatchesOwner, Owns, Claimable
<1>3. RowMatchesOwner'
  BY DEF Deliver, RowMatchesOwner, KindMatchesStep, SoleOwner, Owns, Claimable, Answers
<1>4. KindMatchesStep'
  BY DEF Deliver, KindMatchesStep
<1>5. EveryExecutionCounted'
  BY DEF Deliver, EveryExecutionCounted, Pending, SoleOwner, Owns, RowMatchesOwner, KindMatchesStep, Claimable
<1> QED BY <1>1, <1>2, <1>3, <1>4, <1>5 DEF IInv

LEMMA FailKeeps ==
  ASSUME IInv, NEW r \in Requests, Fail(r)
  PROVE  IInv'
<1> USE EntryServiceAssumption DEF IInv, TypeOK, RequestRow, PC, PastClaim, BetweenTx, committed, ghosts, bounds, IdleRequest, Ends, Acknowledges, LoseExecution
<1>1. TypeOK'
  BY DEF Fail, Answers
<1>2. SoleOwner'
  BY DEF Fail, SoleOwner, RowMatchesOwner, Owns, Claimable
<1>3. RowMatchesOwner'
  BY DEF Fail, RowMatchesOwner, KindMatchesStep, SoleOwner, Owns, Claimable, Answers
<1>4. KindMatchesStep'
  BY DEF Fail, KindMatchesStep
<1>5. EveryExecutionCounted'
  BY DEF Fail, EveryExecutionCounted, Pending, SoleOwner, Owns, RowMatchesOwner, KindMatchesStep, Claimable
<1> QED BY <1>1, <1>2, <1>3, <1>4, <1>5 DEF IInv

LEMMA CrashKeeps ==
  ASSUME IInv, NEW r \in Requests, Crash(r)
  PROVE  IInv'
<1> USE EntryServiceAssumption DEF IInv, TypeOK, RequestRow, PC, PastClaim, BetweenTx, committed, ghosts, bounds, IdleRequest, Ends, LoseExecution
<1>1. TypeOK'
  BY DEF Crash, Answers
<1>2. SoleOwner'
  BY DEF Crash, SoleOwner, RowMatchesOwner, Owns, Claimable
<1>3. RowMatchesOwner'
  BY DEF Crash, RowMatchesOwner, KindMatchesStep, SoleOwner, Owns, Claimable, Answers
<1>4. KindMatchesStep'
  BY DEF Crash, KindMatchesStep
<1>5. EveryExecutionCounted'
  BY DEF Crash, EveryExecutionCounted, Pending, SoleOwner, Owns, RowMatchesOwner, KindMatchesStep, Claimable
<1> QED BY <1>1, <1>2, <1>3, <1>4, <1>5 DEF IInv

LEMMA GrowStaleKeeps ==
  ASSUME IInv, NEW e \in Events, GrowStale(e)
  PROVE  IInv'
<1> USE EntryServiceAssumption DEF IInv, TypeOK, RequestRow, PC, PastClaim, BetweenTx, committed, ghosts, bounds, OwnerGone, Working
<1>1. TypeOK'
  BY DEF GrowStale, Answers
<1>2. SoleOwner'
  BY DEF GrowStale, SoleOwner, RowMatchesOwner, Owns, Claimable
<1>3. RowMatchesOwner'
  BY DEF GrowStale, RowMatchesOwner, KindMatchesStep, SoleOwner, Owns, Claimable, Answers
<1>4. KindMatchesStep'
  BY DEF GrowStale, KindMatchesStep
<1>5. EveryExecutionCounted'
  BY DEF GrowStale, EveryExecutionCounted, Pending, SoleOwner, Owns, RowMatchesOwner, KindMatchesStep, Claimable
<1> QED BY <1>1, <1>2, <1>3, <1>4, <1>5 DEF IInv

\* The invariant is inductive.
LEMMA StepIInv == IInv /\ [Next]_vars => IInv'
<1> SUFFICES ASSUME IInv, [Next]_vars PROVE IInv'
  OBVIOUS
<1>1. ASSUME NEW r \in Requests, NEW e \in Events, Receive(r, e) PROVE IInv'
  BY <1>1, ReceiveKeeps
<1>2. ASSUME NEW r \in Requests, Step(r) PROVE IInv'
  BY <1>2, ClaimKeeps, AnswerDuplicateKeeps, RejectUnresolvedKeeps, AnswerWithoutModelKeeps,
     PlanPaidCallKeeps, ReplyKeeps, CommitReplyKeeps, CommitPlanKeeps, ExecuteKeeps,
     SettleKeeps, DeliverKeeps
     DEF Step
<1>3. ASSUME NEW r \in Requests, Fail(r) \/ Crash(r) PROVE IInv'
  BY <1>3, FailKeeps, CrashKeeps
<1>4. ASSUME NEW e \in Events, GrowStale(e) PROVE IInv'
  BY <1>4, GrowStaleKeeps
<1>5. CASE UNCHANGED vars
  BY <1>5 DEF vars, IInv, TypeOK, SoleOwner, Owns, RowMatchesOwner, Claimable, KindMatchesStep,
              EveryExecutionCounted, Pending
<1> QED BY <1>1, <1>2, <1>3, <1>4, <1>5 DEF Next

LEMMA Invariance == Spec => []IInv
<1> QED BY InitIInv, StepIInv, PTL DEF Spec

\* Every variable of the entry service keeps its type.
THEOREM TypeCorrect == Spec => []TypeOK
<1>1. IInv => TypeOK
  BY DEF IInv
<1> QED BY <1>1, Invariance, PTL

\* At most one execution of a message is unsettled ...
LEMMA UnsettledCounted ==
  ASSUME IInv, NEW e \in Events
  PROVE  Cardinality(Unsettled(e)) = IF Pending(e) THEN 1 ELSE 0
<1>1. CASE ~Pending(e)
  <2>1. Unsettled(e) = {}
    BY <1>1 DEF Pending, Unsettled
  <2> QED BY <1>1, <2>1, FS_EmptySet
<1>2. CASE Pending(e)
  <2>1. PICK r \in Requests : req[r].e = e /\ req[r].pc = "called"
    BY <1>2 DEF Pending
  <2>2. Unsettled(e) = {r}
    BY <2>1 DEF IInv, SoleOwner, Owns, BetweenTx, Unsettled
  <2> QED BY <1>2, <2>2, FS_Singleton
<1> QED BY <1>1, <1>2

\* ... so the code's "exactly once": every provider execution of a message is
\* the one that answered it, the one being settled, or one that died.
THEOREM ExecutesOnce == Spec => []WorkExecutesOnce
<1>1. IInv => WorkExecutesOnce
  BY UnsettledCounted DEF IInv, EveryExecutionCounted, WorkExecutesOnce
<1> QED BY <1>1, Invariance, PTL

-----------------------------------------------------------------------------
(* One answer, after its question.                                          *)

\* The answers that are turns of a conversation.
Turns == {"reply", "answer"}

\* What is recorded decides the rows, and a paid call has its question.
RowsMatchResponse ==
  /\ \A e \in Events :
       /\ answered[e] = IF response[e] \in Turns THEN 1 ELSE 0
       /\ response[e] \in Turns => asked[e] >= 1
  /\ \A r \in Requests : req[r].pc \in BetweenTx => asked[req[r].e] >= 1

LEMMA InitRows == Init => RowsMatchResponse
BY DEF Init, IdleRequest, RowsMatchResponse, Turns, BetweenTx

LEMMA StepRows == IInv /\ RowsMatchResponse /\ [Next]_vars => RowsMatchResponse'
<1> SUFFICES ASSUME IInv, RowsMatchResponse, [Next]_vars PROVE RowsMatchResponse'
  OBVIOUS
<1> DEFINE Keeps ==
      /\ UNCHANGED <<asked, answered, response>>
      /\ \A q \in Requests : req'[q].pc \in BetweenTx
           => req[q].pc \in BetweenTx /\ req'[q].e = req[q].e
<1>0. req \in [Requests -> RequestRow]
  BY DEF IInv, TypeOK
<1> USE DEF BetweenTx, committed, IdleRequest, Ends, Moves
<1>1. ASSUME NEW r \in Requests, NEW e \in Events, Receive(r, e) PROVE Keeps
  BY <1>0, <1>1 DEF Receive
<1>2. ASSUME NEW r \in Requests, Step(r)
      PROVE  Keeps \/ CommitReply(r) \/ CommitPlan(r) \/ Settle(r)
  <2>1. ASSUME Claim(r) PROVE Keeps
    BY <1>0, <2>1 DEF Claim
  <2>2. ASSUME AnswerDuplicate(r) PROVE Keeps
    BY <1>0, <2>2 DEF AnswerDuplicate
  <2>3. ASSUME RejectUnresolved(r) PROVE Keeps
    BY <1>0, <2>3 DEF RejectUnresolved
  <2>4. ASSUME AnswerWithoutModel(r) PROVE Keeps
    BY <1>0, <2>4 DEF AnswerWithoutModel
  <2>5. ASSUME PlanPaidCall(r) PROVE Keeps
    BY <1>0, <2>5 DEF PlanPaidCall
  <2>6. ASSUME Reply(r) PROVE Keeps
    BY <1>0, <2>6 DEF Reply
  <2>7. ASSUME Deliver(r) PROVE Keeps
    BY <1>0, <2>7 DEF Deliver
  <2>8. ASSUME Execute(r) PROVE Keeps
    <3>1. UNCHANGED <<asked, answered, response>>
      BY <2>8 DEF Execute
    <3>2. PICK n : req' = [req EXCEPT ![r] = [@ EXCEPT !.pc = "called", !.calls = n]]
      BY <2>8 DEF Execute
    <3>3. req[r].pc = "calling"
      BY <2>8 DEF Execute
    <3> QED BY <1>0, <3>1, <3>2, <3>3
  <2> QED BY <1>2, <2>1, <2>2, <2>3, <2>4, <2>5, <2>6, <2>7, <2>8 DEF Step
<1>3. ASSUME NEW r \in Requests, Fail(r) \/ Crash(r) PROVE Keeps
  BY <1>0, <1>3 DEF Fail, Crash
<1>4. ASSUME NEW e \in Events, GrowStale(e) PROVE Keeps
  BY <1>4 DEF GrowStale
<1>5. CASE UNCHANGED vars
  BY <1>5 DEF vars, RowsMatchResponse
<1>6. ASSUME Keeps PROVE RowsMatchResponse'
  BY <1>6 DEF RowsMatchResponse
\* An uncommitted claim means that nothing is recorded yet.
<1>7. ASSUME NEW r \in Requests, CommitReply(r) PROVE RowsMatchResponse'
  <2>1. response[req[r].e] = "none"
    BY <1>7 DEF IInv, TypeOK, RequestRow, CommitReply, RowMatchesOwner, PastClaim, Claimable
  <2>2. req[r].kind \in {"unresolved", "refusal", "reply"}
    BY <1>7 DEF IInv, CommitReply, KindMatchesStep
  <2>3. req[r].e \in Events /\ answered \in [Events -> Nat] /\ asked \in [Events -> Nat]
    BY DEF IInv, TypeOK, RequestRow
  <2>4. response \in [Events -> Answers \cup {"none"}]
    BY DEF IInv, TypeOK
  <2> QED BY <1>0, <1>7, <2>1, <2>2, <2>3, <2>4 DEF CommitReply, RowsMatchResponse, Turns
<1>8. ASSUME NEW r \in Requests, CommitPlan(r) PROVE RowsMatchResponse'
  <2>1. req[r].e \in Events /\ asked \in [Events -> Nat]
    BY DEF IInv, TypeOK, RequestRow
  <2> QED BY <1>0, <1>8, <2>1 DEF CommitPlan, RowsMatchResponse, Turns
\* A held claim is not a completed one.
<1>9. ASSUME NEW r \in Requests, Settle(r) PROVE RowsMatchResponse'
  <2>1. response[req[r].e] = "none"
    BY <1>9 DEF IInv, TypeOK, RequestRow, Settle, RowMatchesOwner
  <2>2. asked[req[r].e] >= 1
    BY <1>9 DEF Settle, RowsMatchResponse
  <2>3. req[r].e \in Events /\ answered \in [Events -> Nat]
    BY DEF IInv, TypeOK, RequestRow
  <2>4. response \in [Events -> Answers \cup {"none"}]
    BY DEF IInv, TypeOK
  <2> QED BY <1>0, <1>9, <2>1, <2>2, <2>3, <2>4 DEF Settle, RowsMatchResponse, Turns
<1> QED BY <1>1, <1>2, <1>3, <1>4, <1>5, <1>6, <1>7, <1>8, <1>9 DEF Next

\* A conversation never gets two answers to one message, nor an answer without
\* its question: a claim is completed once, by whoever owns it.
THEOREM AnswersOnce == Spec => []OneAnswerPerQuestion
<1>1. RowsMatchResponse => OneAnswerPerQuestion
  BY DEF RowsMatchResponse, OneAnswerPerQuestion
<1>2. Spec => []RowsMatchResponse
  BY InitRows, StepRows, Invariance, PTL DEF Spec
<1> QED BY <1>1, <1>2, PTL

-----------------------------------------------------------------------------
(* How often the student hears it.                                          *)

Delivering(e) == \E r \in Requests : req[r].e = e /\ req[r].pc = "delivering"
Replied(e)    == \E r \in Requests : req[r].e = e /\ req[r].pc = "replied"

\* The one sending of the reply that nothing has to go wrong for is used up:
\* by an uncommitted reply, or by a completed claim nobody is delivering.
Spent(e) == Replied(e) \/ (claim[e] = "completed" /\ ~Delivering(e))

ToldByFailure(e) == told[e] <= crashes + failures + (IF Spent(e) THEN 1 ELSE 0)

\* One request delivers the answer it has recorded.
SoleDeliverer ==
  /\ \A r \in Requests : req[r].pc = "delivering" => claim[req[r].e] = "completed"
  /\ \A r, q \in Requests :
       req[r].pc = "delivering" /\ req[q].pc = "delivering" /\ req[r].e = req[q].e => r = q

RepliesInv == SoleDeliverer /\ \A e \in Events : ToldByFailure(e)

\* Who replies and who delivers stays the same for every other message.
LEMMA OthersUntouched ==
  ASSUME IInv, NEW r \in Requests, NEW x, req' = [req EXCEPT ![r] = x],
         x.e = req[r].e \/ x.pc = "idle"
  PROVE  \A e \in Events : e # req[r].e =>
           (Replied(e)' <=> Replied(e)) /\ (Delivering(e)' <=> Delivering(e))
<1>1. \A q \in Requests : req'[q] = IF q = r THEN x ELSE req[q]
  BY DEF IInv, TypeOK
<1> QED BY <1>1 DEF Replied, Delivering

\* A step that neither sends, completes a claim, replies nor delivers.
QuietForStudents ==
  /\ UNCHANGED <<told, crashes, failures>>
  /\ \A e \in Events : claim'[e] = "completed" <=> claim[e] = "completed"
  /\ \A q \in Requests :
       \/ req'[q] = req[q]
       \/ req[q].pc \notin {"replied", "delivering"} /\ req'[q].pc \notin {"replied", "delivering"}

LEMMA QuietKeepsReplies ==
  ASSUME IInv, RepliesInv, QuietForStudents
  PROVE  RepliesInv'
<1>0. req \in [Requests -> RequestRow]
  BY DEF IInv, TypeOK
<1>1. ASSUME NEW e \in Events
      PROVE (Replied(e)' <=> Replied(e)) /\ (Delivering(e)' <=> Delivering(e))
  BY DEF QuietForStudents, Replied, Delivering
<1>2. \A e \in Events : Spent(e)' <=> Spent(e)
  BY <1>1 DEF Spent, QuietForStudents
<1>3. \A e \in Events : ToldByFailure(e)'
  BY <1>2 DEF QuietForStudents, ToldByFailure, RepliesInv
<1>4. SoleDeliverer'
  BY <1>0 DEF QuietForStudents, SoleDeliverer, RepliesInv, RequestRow
<1> QED BY <1>3, <1>4 DEF RepliesInv

LEMMA QuietForStudentsSteps ==
  ASSUME IInv, [Next]_vars
  PROVE  \/ QuietForStudents
         \/ \E r \in Requests : \/ RejectUnresolved(r) \/ Reply(r) \/ CommitReply(r)
                                \/ Settle(r) \/ Deliver(r) \/ Fail(r) \/ Crash(r)
<1>0. req \in [Requests -> RequestRow] /\ claim \in [Events -> {"absent", "held", "stale", "completed"}]
  BY DEF IInv, TypeOK
<1> USE DEF QuietForStudents, committed, bounds, IdleRequest, Ends, Moves
<1>1. ASSUME NEW r \in Requests, NEW e \in Events, Receive(r, e) PROVE QuietForStudents
  BY <1>0, <1>1 DEF Receive
<1>2. ASSUME NEW r \in Requests, Claim(r) PROVE QuietForStudents
  BY <1>0, <1>2 DEF Claim
<1>3. ASSUME NEW r \in Requests, AnswerDuplicate(r) PROVE QuietForStudents
  BY <1>0, <1>3 DEF AnswerDuplicate
<1>4. ASSUME NEW r \in Requests, AnswerWithoutModel(r) PROVE QuietForStudents
  BY <1>0, <1>4 DEF AnswerWithoutModel
<1>5. ASSUME NEW r \in Requests, PlanPaidCall(r) PROVE QuietForStudents
  BY <1>0, <1>5 DEF PlanPaidCall
<1>6. ASSUME NEW r \in Requests, CommitPlan(r) PROVE QuietForStudents
  <2>1. claim[req[r].e] # "completed"
    BY <1>6 DEF CommitPlan, IInv, RowMatchesOwner, PastClaim, Claimable
  <2> QED BY <1>0, <1>6, <2>1 DEF CommitPlan
<1>7. ASSUME NEW r \in Requests, Execute(r) PROVE QuietForStudents
  <2>1. PICK n : req' = [req EXCEPT ![r] = [@ EXCEPT !.pc = "called", !.calls = n]]
    BY <1>7 DEF Execute
  <2>2. req'[r].pc = "called" /\ req[r].pc = "calling" /\ \A q \in Requests \ {r} : req'[q] = req[q]
    BY <1>0, <1>7, <2>1 DEF Execute, RequestRow
  <2> QED BY <1>7, <2>2 DEF Execute
<1>8. ASSUME NEW e \in Events, GrowStale(e) PROVE QuietForStudents
  BY <1>0, <1>8 DEF GrowStale
<1>9. CASE UNCHANGED vars
  BY <1>9 DEF vars
<1> QED BY <1>1, <1>2, <1>3, <1>4, <1>5, <1>6, <1>7, <1>8, <1>9 DEF Next, Step

LEMMA StepReplies == IInv /\ RepliesInv /\ [Next]_vars => RepliesInv'
<1> SUFFICES ASSUME IInv, RepliesInv, [Next]_vars PROVE RepliesInv'
  OBVIOUS
<1>0. /\ req \in [Requests -> RequestRow]
      /\ claim \in [Events -> {"absent", "held", "stale", "completed"}]
      /\ told \in [Events -> Nat] /\ crashes \in Nat /\ failures \in Nat
      /\ \A q \in Requests : req[q].e \in Events
  BY DEF IInv, TypeOK, RequestRow
\* Before it is completed nobody delivers, and an owner is the only one to reply.
<1>1. ASSUME NEW r \in Requests, Owns(r), req[r].pc # "replied" PROVE ~Spent(req[r].e)
  <2>1. claim[req[r].e] # "completed"
    BY <1>1 DEF IInv, Owns, RowMatchesOwner, Claimable
  <2>2. ~Replied(req[r].e)
    BY <1>1 DEF IInv, Replied, SoleOwner, Owns, PastClaim
  <2> QED BY <2>1, <2>2 DEF Spent
<1>2. ASSUME NEW e \in Events
      PROVE  /\ told[e] <= crashes + failures + 1
             /\ ~Spent(e) => told[e] <= crashes + failures
  <2>1. ToldByFailure(e)
    BY DEF RepliesInv
  <2> QED BY <1>0, <2>1 DEF ToldByFailure
<1>3. ASSUME NEW r \in Requests, Fail(r) \/ Crash(r) PROVE RepliesInv'
  <2>1. /\ UNCHANGED <<told, claim>>
        /\ crashes' + failures' = crashes + failures + 1
        /\ req' = [req EXCEPT ![r] = IdleRequest]
    BY <1>0, <1>3 DEF Fail, Crash, Ends, committed
  <2>2. SoleDeliverer'
    BY <1>0, <2>1 DEF SoleDeliverer, RepliesInv, IdleRequest
  <2>3. \A e \in Events : ToldByFailure(e)'
    BY <1>0, <1>2, <2>1 DEF ToldByFailure
  <2> QED BY <2>2, <2>3 DEF RepliesInv
<1>4. ASSUME NEW r \in Requests, RejectUnresolved(r) \/ Reply(r) PROVE RepliesInv'
  <2> DEFINE e0 == req[r].e
  <2>1. /\ req[r].pc \in {"claimed", "replying"}
        /\ req'[r].pc = "replied" /\ req'[r].e = e0
        /\ \A q \in Requests \ {r} : req'[q] = req[q]
        /\ UNCHANGED claim
    BY <1>0, <1>4 DEF RejectUnresolved, Reply, Moves, committed, RequestRow
  <2>2. crashes' = crashes /\ (failures' = failures \/ failures' = failures + 1)
    BY <1>4 DEF RejectUnresolved, Reply, bounds
  <2>6. ASSUME NEW e \in Events
        PROVE  told'[e] = told[e] \/ (e = e0 /\ told'[e] = told[e] + 1)
    <3>1. told' = told \/ told' = [told EXCEPT ![e0] = @ + 1]
      BY <1>4 DEF RejectUnresolved, Reply
    <3> QED BY <1>0, <3>1
  <2>3. ~Spent(e0)
    BY <1>1, <2>1 DEF Owns, PastClaim
  <2>4. SoleDeliverer'
    BY <1>0, <2>1 DEF SoleDeliverer, RepliesInv
  <2>5. ASSUME NEW e \in Events, Spent(e) PROVE Spent(e)'
    BY <2>1, <2>5 DEF Spent, Replied, Delivering
  <2>7. ASSUME NEW e \in Events PROVE ToldByFailure(e)'
    <3> HIDE DEF e0
    <3>1. CASE Spent(e)
      <4>1. e # e0 /\ Spent(e)'
        BY <2>3, <2>5, <3>1
      <4> QED BY <1>0, <1>2, <2>2, <2>6, <4>1 DEF ToldByFailure
    <3>2. CASE ~Spent(e) /\ e # e0
      BY <1>0, <1>2, <2>2, <2>6, <3>2 DEF ToldByFailure
    <3>3. CASE ~Spent(e) /\ e = e0
      <4>1. Replied(e)'
        BY <2>1, <3>3 DEF Replied, e0
      <4>2. Spent(e)'
        BY <4>1 DEF Spent
      <4> QED BY <1>0, <1>2, <2>2, <2>6, <3>3, <4>2 DEF ToldByFailure
    <3> QED BY <3>1, <3>2, <3>3
  <2> QED BY <2>4, <2>7 DEF RepliesInv
<1>5. ASSUME NEW r \in Requests, CommitReply(r) PROVE RepliesInv'
  <2>1. PICK d \in Events : d = req[r].e
    BY <1>0
  <2>2. /\ UNCHANGED <<told, crashes, failures>>
        /\ req' = [req EXCEPT ![r] = IdleRequest]
        /\ req[r].pc = "replied"
        /\ claim'[d] = "completed"
        /\ \A e \in Events : e # d => claim'[e] = claim[e]
    BY <1>0, <1>5, <2>1 DEF CommitReply, Ends, ClaimAfterReply, bounds
  <2>3. claim[d] # "completed"
    BY <2>1, <2>2 DEF IInv, RowMatchesOwner, PastClaim, Claimable
  <2>4. SoleDeliverer'
    BY <1>0, <2>1, <2>2 DEF SoleDeliverer, RepliesInv, IdleRequest
  <2>5. ASSUME NEW e \in Events, Spent(e) PROVE Spent(e)'
    <3>1. CASE e = d
      <4>1. ~Delivering(d)
        BY <2>3 DEF RepliesInv, SoleDeliverer, Delivering
      <4>2. ~Delivering(d)'
        BY <1>0, <2>2, <4>1 DEF Delivering, IdleRequest
      <4> QED BY <2>2, <3>1, <4>2 DEF Spent
    <3>2. CASE e # d
      <4>1. (Replied(e)' <=> Replied(e)) /\ (Delivering(e)' <=> Delivering(e))
        BY <2>1, <2>2, <3>2, OthersUntouched DEF IdleRequest
      <4> QED BY <2>2, <2>5, <3>2, <4>1 DEF Spent
    <3> QED BY <3>1, <3>2
  <2>6. ASSUME NEW e \in Events PROVE ToldByFailure(e)'
    <3>1. CASE Spent(e)
      BY <1>2, <2>2, <2>5, <3>1 DEF ToldByFailure
    <3>2. CASE ~Spent(e)
      BY <1>0, <1>2, <2>2, <3>2 DEF ToldByFailure
    <3> QED BY <3>1, <3>2
  <2> QED BY <2>4, <2>6 DEF RepliesInv
<1>6. ASSUME NEW r \in Requests, Settle(r) PROVE RepliesInv'
  <2>1. PICK d \in Events : d = req[r].e
    BY <1>0
  <2>2. /\ UNCHANGED <<told, crashes, failures>>
        /\ req' = [req EXCEPT ![r] = [req[r] EXCEPT !.pc = "delivering", !.calls = 0]]
        /\ req[r].pc = "called"
        /\ claim'[d] = "completed"
        /\ \A e \in Events : e # d => claim'[e] = claim[e]
    BY <1>0, <1>6, <2>1 DEF Settle, bounds
  <2>3. /\ req'[r].pc = "delivering" /\ req'[r].e = d
        /\ \A q \in Requests \ {r} : req'[q] = req[q]
    BY <1>0, <2>1, <2>2 DEF RequestRow
  <2>4. claim[d] # "completed"
    BY <2>1, <2>2 DEF IInv, RowMatchesOwner, BetweenTx
  <2>5. SoleDeliverer'
    BY <1>0, <2>2, <2>3, <2>4 DEF SoleDeliverer, RepliesInv
  <2>6. ASSUME NEW e \in Events PROVE ToldByFailure(e)'
    <3>1. CASE e = d
      <4>1. ~Spent(e)
        BY <1>1, <2>1, <2>2, <3>1 DEF Owns, BetweenTx
      <4> QED BY <1>0, <1>2, <2>2, <4>1 DEF ToldByFailure
    <3>2. CASE e # d
      <4> DEFINE x == [req[r] EXCEPT !.pc = "delivering", !.calls = 0]
      <4>1. x.e = req[r].e
        BY <1>0 DEF RequestRow
      <4>2. (Replied(e)' <=> Replied(e)) /\ (Delivering(e)' <=> Delivering(e))
        BY <2>1, <2>2, <3>2, <4>1, OthersUntouched
      <4>3. Spent(e)' <=> Spent(e)
        BY <2>2, <3>2, <4>2 DEF Spent
      <4> QED BY <2>2, <4>3 DEF ToldByFailure, RepliesInv
    <3> QED BY <3>1, <3>2
  <2> QED BY <2>5, <2>6 DEF RepliesInv
<1>7. ASSUME NEW r \in Requests, Deliver(r) PROVE RepliesInv'
  <2>1. PICK d \in Events : d = req[r].e
    BY <1>0
  <2>2. /\ UNCHANGED <<claim, crashes>>
        /\ req' = [req EXCEPT ![r] = IdleRequest]
        /\ req[r].pc = "delivering"
        /\ claim[d] = "completed"
    BY <2>1, <1>7 DEF Deliver, Ends, committed, RepliesInv, SoleDeliverer
  <2>3. \/ told' = told /\ failures' = failures + 1
        \/ told' = [told EXCEPT ![d] = @ + 1] /\ failures' = failures
    BY <1>7, <2>1 DEF Deliver
  <2>4. SoleDeliverer'
    BY <1>0, <2>2 DEF SoleDeliverer, RepliesInv, IdleRequest
  <2>5. ASSUME NEW e \in Events PROVE ToldByFailure(e)'
    <3>1. CASE e = d
      <4>1. \A q \in Requests : req[q].pc = "delivering" /\ req[q].e = d => q = r
        BY <2>1, <2>2 DEF RepliesInv, SoleDeliverer
      <4>2. ~Spent(e) /\ Spent(e)'
        <5>1. Delivering(d) /\ ~Delivering(d)'
          BY <1>0, <2>1, <2>2, <4>1 DEF Delivering, IdleRequest
        <5>2. ~Replied(d)
          BY <2>2 DEF Replied, IInv, RowMatchesOwner, PastClaim, Claimable
        <5> QED BY <2>2, <3>1, <5>1, <5>2 DEF Spent
      <4>3. told[e] <= crashes + failures /\ told[e] \in Nat
        BY <1>0, <1>2, <4>2
      <4>4. told'[e] <= crashes' + failures' + 1
        BY <1>0, <2>2, <2>3, <4>3
      <4> QED BY <4>2, <4>4 DEF ToldByFailure
    <3>2. CASE e # d
      <4>1. (Replied(e)' <=> Replied(e)) /\ (Delivering(e)' <=> Delivering(e))
        BY <2>1, <2>2, <3>2, OthersUntouched DEF IdleRequest
      <4>2. (Spent(e)' <=> Spent(e)) /\ told'[e] = told[e] /\ told[e] \in Nat
        BY <1>0, <2>2, <2>3, <3>2, <4>1 DEF Spent
      <4>3. crashes' = crashes /\ (failures' = failures \/ failures' = failures + 1)
        BY <2>2, <2>3
      <4>4. CASE Spent(e)
        BY <1>0, <1>2, <4>2, <4>3, <4>4 DEF ToldByFailure
      <4>5. CASE ~Spent(e)
        BY <1>0, <1>2, <4>2, <4>3, <4>5 DEF ToldByFailure
      <4> QED BY <4>4, <4>5
    <3> QED BY <3>1, <3>2
  <2> QED BY <2>4, <2>5 DEF RepliesInv
<1> QED BY <1>3, <1>4, <1>5, <1>6, <1>7, QuietForStudentsSteps, QuietKeepsReplies

\* A student hears a reply once, and again only for every request that died or
\* threw: an owner sends at most once, and what it sent under a claim it could
\* not complete is repeated only by the retry of that claim.
THEOREM RepliesOnce == Spec => []RepliesAreRepeatedByFailureOnly
<1>1. Init => RepliesInv
  BY EntryServiceAssumption
     DEF Init, IdleRequest, RepliesInv, SoleDeliverer, ToldByFailure, Spent
<1>2. IInv /\ RepliesInv => RepliesAreRepeatedByFailureOnly
  BY DEF IInv, TypeOK, RepliesInv, ToldByFailure, RepliesAreRepeatedByFailureOnly
<1>3. Spec => []RepliesInv
  BY <1>1, StepReplies, Invariance, PTL DEF Spec
<1> QED BY <1>2, <1>3, Invariance, PTL
-----------------------------------------------------------------------------
(* The daily limit.                                                         *)

\* The requests that passed the quota and have not recorded their calls.
InFlight(s) ==
  {r \in Requests : req[r].pc \in {"planned"} \cup BetweenTx /\ Sender[req[r].e] = s}

\* Each of them may still add MaxCalls rows.
QuotaBooked ==
  \A s \in Students :
    used[s] + MaxCalls * Cardinality(InFlight(s)) + 1
      <= DailyLimit + MaxCalls * Cardinality(Requests)

LEMMA ProductMonotone ==
  ASSUME NEW m \in Nat, NEW a \in Nat, NEW b \in Nat, a <= b
  PROVE  m * a <= m * b
<1> DEFINE d == b - a
<1>1. d \in Nat /\ b = a + d
  OBVIOUS
<1>2. m * b = m * a + m * d /\ m * d \in Nat /\ m * a \in Nat
  BY <1>1
<1> QED BY <1>2

LEMMA InFlightSize ==
  ASSUME NEW s \in Students
  PROVE  /\ IsFiniteSet(InFlight(s))
         /\ Cardinality(InFlight(s)) \in Nat
         /\ Cardinality(Requests) \in Nat \ {0}
         /\ Cardinality(InFlight(s)) <= Cardinality(Requests)
<1>1. IsFiniteSet(Requests) /\ InFlight(s) \subseteq Requests
  BY EntryServiceAssumption DEF InFlight
<1>2. IsFiniteSet(InFlight(s)) /\ Cardinality(InFlight(s)) <= Cardinality(Requests)
  BY <1>1, FS_Subset
<1>3. Cardinality(Requests) # 0
  BY <1>1, EntryServiceAssumption, FS_EmptySet
<1> QED BY <1>1, <1>2, <1>3, FS_CardinalityType

LEMMA InitQuota == Init => QuotaBooked
<1> SUFFICES ASSUME Init, NEW s \in Students
             PROVE  used[s] + MaxCalls * Cardinality(InFlight(s)) + 1
                      <= DailyLimit + MaxCalls * Cardinality(Requests)
  BY DEF QuotaBooked
<1>1. InFlight(s) = {}
  BY DEF Init, IdleRequest, InFlight, BetweenTx
<1>2. Cardinality(InFlight(s)) = 0
  BY <1>1, FS_EmptySet
<1>3. used[s] \in Nat /\ used[s] <= DailyLimit
  BY EntryServiceAssumption DEF Init
<1>4. MaxCalls * 1 <= MaxCalls * Cardinality(Requests)
  BY InFlightSize, ProductMonotone, EntryServiceAssumption
<1>5. MaxCalls * Cardinality(Requests) \in Nat /\ MaxCalls \in Nat \ {0} /\ DailyLimit \in Nat
  BY InFlightSize, EntryServiceAssumption
<1> QED BY <1>2, <1>3, <1>4, <1>5

\* A step that books nothing and charges nothing.
LEMMA QuotaStays ==
  ASSUME IInv, QuotaBooked, UNCHANGED used,
         \A q \in Requests : req'[q].pc \in {"planned"} \cup BetweenTx
            => req[q].pc \in {"planned"} \cup BetweenTx /\ req'[q].e = req[q].e
  PROVE  QuotaBooked'
<1> SUFFICES ASSUME NEW s \in Students
             PROVE  used[s] + MaxCalls * Cardinality(InFlight(s)') + 1
                      <= DailyLimit + MaxCalls * Cardinality(Requests)
  BY DEF QuotaBooked
<1>1. InFlight(s)' \subseteq InFlight(s)
  BY DEF InFlight
<1>2. /\ Cardinality(InFlight(s)') \in Nat
      /\ Cardinality(InFlight(s)') <= Cardinality(InFlight(s))
  BY <1>1, InFlightSize, FS_Subset, FS_CardinalityType
<1>3. MaxCalls * Cardinality(InFlight(s)') <= MaxCalls * Cardinality(InFlight(s))
  BY <1>2, InFlightSize, ProductMonotone, EntryServiceAssumption
<1>4. /\ MaxCalls * Cardinality(InFlight(s)') \in Nat
      /\ MaxCalls * Cardinality(InFlight(s)) \in Nat
      /\ MaxCalls * Cardinality(Requests) \in Nat
      /\ used[s] \in Nat /\ DailyLimit \in Nat
  BY <1>2, InFlightSize, EntryServiceAssumption DEF IInv, TypeOK
<1>5. used[s] + MaxCalls * Cardinality(InFlight(s)) + 1
        <= DailyLimit + MaxCalls * Cardinality(Requests)
  BY DEF QuotaBooked
<1> QED BY <1>3, <1>4, <1>5

\* Passing the quota books a request: what is used is below the limit, and
\* there are no more requests in flight than requests.
LEMMA QuotaPlan ==
  ASSUME IInv, QuotaBooked, NEW r \in Requests, PlanPaidCall(r)
  PROVE  QuotaBooked'
<1> SUFFICES ASSUME NEW s \in Students
             PROVE  used[s] + MaxCalls * Cardinality(InFlight(s)') + 1
                      <= DailyLimit + MaxCalls * Cardinality(Requests)
  BY DEF QuotaBooked, PlanPaidCall, committed
<1>1. CASE s = Student(r)
  <2>1. InFlight(s)' \subseteq Requests
    BY DEF InFlight
  <2>2. /\ Cardinality(InFlight(s)') \in Nat
        /\ Cardinality(InFlight(s)') <= Cardinality(Requests)
    BY <2>1, EntryServiceAssumption, FS_Subset, FS_CardinalityType
  <2>3. MaxCalls * Cardinality(InFlight(s)') <= MaxCalls * Cardinality(Requests)
    BY <2>2, InFlightSize, ProductMonotone, EntryServiceAssumption
  <2>4. used[s] < DailyLimit
    BY <1>1 DEF PlanPaidCall, WithinQuota
  <2>5. /\ MaxCalls * Cardinality(InFlight(s)') \in Nat
        /\ MaxCalls * Cardinality(Requests) \in Nat
        /\ used[s] \in Nat /\ DailyLimit \in Nat
    BY <2>2, InFlightSize, EntryServiceAssumption DEF IInv, TypeOK
  <2> QED BY <2>3, <2>4, <2>5
<1>2. CASE s # Student(r)
  <2>1. ASSUME NEW q \in Requests
        PROVE  q \in InFlight(s)' <=> q \in InFlight(s)
    BY <1>2 DEF PlanPaidCall, InFlight, Student, IInv, TypeOK, RequestRow
  <2>2. InFlight(s)' = InFlight(s)
    BY <2>1 DEF InFlight
  <2> QED BY <2>2 DEF QuotaBooked
<1> QED BY <1>1, <1>2

\* Settling turns a booking into at most MaxCalls rows.
LEMMA QuotaSettle ==
  ASSUME IInv, QuotaBooked, NEW r \in Requests, Settle(r)
  PROVE  QuotaBooked'
<1> SUFFICES ASSUME NEW s \in Students
             PROVE  used'[s] + MaxCalls * Cardinality(InFlight(s)') + 1
                      <= DailyLimit + MaxCalls * Cardinality(Requests)
  BY DEF QuotaBooked
<1> DEFINE n == Cardinality(InFlight(s))
<1>1. req[r].e \in Events /\ req[r].calls \in Nat /\ req[r].calls <= MaxCalls
  BY DEF Settle, IInv, TypeOK, RequestRow, KindMatchesStep
<1>2. used' = [used EXCEPT ![Student(r)] = used[Student(r)] + req[r].calls]
  BY DEF Settle, Charged
<1>3. used \in [Students -> Nat]
  BY DEF IInv, TypeOK
<1>4. CASE s = Student(r)
  <2>1. r \in InFlight(s)
    BY <1>4 DEF Settle, InFlight, Student, BetweenTx
  <2>2. ASSUME NEW q \in Requests
        PROVE  q \in InFlight(s)' <=> q \in InFlight(s) \ {r}
    BY <1>4 DEF Settle, InFlight, Student, BetweenTx, IInv, TypeOK, RequestRow
  <2>3. InFlight(s)' = InFlight(s) \ {r}
    BY <2>2 DEF InFlight
  <2>4. Cardinality(InFlight(s)') = n - 1 /\ n \in Nat \ {0}
    <3>1. IsFiniteSet(InFlight(s)) /\ n \in Nat
      BY InFlightSize
    <3>2. n # 0
      BY <2>1, <3>1, FS_EmptySet
    <3> QED BY <2>1, <2>3, <3>1, <3>2, FS_RemoveElement
  <2>5. used'[s] = used[s] + req[r].calls
    BY <1>2, <1>3, <1>4
  <2>6. PICK k \in Nat : n = k + 1 /\ Cardinality(InFlight(s)') = k
    BY <2>4
  <2>7. MaxCalls * (k + 1) = MaxCalls * k + MaxCalls /\ MaxCalls * k \in Nat
    BY <2>6, EntryServiceAssumption
  <2>8. used[s] + MaxCalls * n + 1 <= DailyLimit + MaxCalls * Cardinality(Requests)
    BY DEF QuotaBooked
  <2>9. /\ MaxCalls * Cardinality(Requests) \in Nat /\ MaxCalls \in Nat
        /\ used[s] \in Nat /\ DailyLimit \in Nat
    BY <1>3, InFlightSize, EntryServiceAssumption
  <2>10. used[s] + (MaxCalls * k + MaxCalls) + 1
           <= DailyLimit + MaxCalls * Cardinality(Requests)
    BY <2>6, <2>7, <2>8
  <2> HIDE DEF n
  <2> QED BY <1>1, <2>5, <2>6, <2>7, <2>9, <2>10
<1>5. CASE s # Student(r)
  <2>1. ASSUME NEW q \in Requests
        PROVE  q \in InFlight(s)' <=> q \in InFlight(s)
    BY <1>5 DEF Settle, InFlight, Student, BetweenTx, IInv, TypeOK, RequestRow
  <2>2. InFlight(s)' = InFlight(s)
    BY <2>1 DEF InFlight
  <2>3. used'[s] = used[s]
    BY <1>2, <1>3, <1>5
  <2> QED BY <2>2, <2>3 DEF QuotaBooked
<1> QED BY <1>4, <1>5

LEMMA StepQuota == IInv /\ QuotaBooked /\ [Next]_vars => QuotaBooked'
<1> SUFFICES ASSUME IInv, QuotaBooked, [Next]_vars PROVE QuotaBooked'
  OBVIOUS
<1> DEFINE Keeps ==
      /\ UNCHANGED used
      /\ \A q \in Requests : req'[q].pc \in {"planned"} \cup BetweenTx
           => req[q].pc \in {"planned"} \cup BetweenTx /\ req'[q].e = req[q].e
<1>0. req \in [Requests -> RequestRow]
  BY DEF IInv, TypeOK
<1> USE DEF BetweenTx, committed, IdleRequest, Ends, Moves
<1>1. ASSUME NEW r \in Requests, NEW e \in Events, Receive(r, e) PROVE Keeps
  BY <1>0, <1>1 DEF Receive
<1>2. ASSUME NEW r \in Requests, Step(r) PROVE Keeps \/ PlanPaidCall(r) \/ Settle(r)
  <2>1. ASSUME Claim(r) PROVE Keeps
    BY <1>0, <2>1 DEF Claim
  <2>2. ASSUME AnswerDuplicate(r) PROVE Keeps
    BY <1>0, <2>2 DEF AnswerDuplicate
  <2>3. ASSUME RejectUnresolved(r) PROVE Keeps
    BY <1>0, <2>3 DEF RejectUnresolved
  <2>4. ASSUME AnswerWithoutModel(r) PROVE Keeps
    BY <1>0, <2>4 DEF AnswerWithoutModel
  <2>5. ASSUME Reply(r) PROVE Keeps
    BY <1>0, <2>5 DEF Reply
  <2>6. ASSUME CommitReply(r) PROVE Keeps
    BY <1>0, <2>6 DEF CommitReply
  <2>7. ASSUME CommitPlan(r) PROVE Keeps
    BY <1>0, <2>7 DEF CommitPlan
  <2>8. ASSUME Deliver(r) PROVE Keeps
    BY <1>0, <2>8 DEF Deliver
  <2>9. ASSUME Execute(r) PROVE Keeps
    <3>1. UNCHANGED used
      BY <2>9 DEF Execute
    <3>2. PICK n : req' = [req EXCEPT ![r] = [@ EXCEPT !.pc = "called", !.calls = n]]
      BY <2>9 DEF Execute
    <3>3. req[r].pc = "calling"
      BY <2>9 DEF Execute
    <3> QED BY <1>0, <3>1, <3>2, <3>3
  <2> QED BY <1>2, <2>1, <2>2, <2>3, <2>4, <2>5, <2>6, <2>7, <2>8, <2>9 DEF Step
<1>3. ASSUME NEW r \in Requests, Fail(r) \/ Crash(r) PROVE Keeps
  BY <1>0, <1>3 DEF Fail, Crash
<1>4. ASSUME NEW e \in Events, GrowStale(e) PROVE Keeps
  BY <1>4 DEF GrowStale
<1>5. CASE UNCHANGED vars
  BY <1>5 DEF vars, QuotaBooked, InFlight
<1>6. ASSUME Keeps PROVE QuotaBooked'
  BY <1>6, QuotaStays
<1> QED BY <1>1, <1>2, <1>3, <1>4, <1>5, <1>6, QuotaPlan, QuotaSettle DEF Next

\* The daily limit is overshot by at most the billed calls of the requests
\* that run at once.
THEOREM SoftLimit == Spec => []SoftLimitHolds
<1>1. IInv /\ QuotaBooked => SoftLimitHolds
  <2> SUFFICES ASSUME IInv, QuotaBooked, NEW s \in Students
               PROVE  used[s] + 1 <= DailyLimit + MaxCalls * Cardinality(Requests)
    BY DEF SoftLimitHolds
  <2>1. /\ MaxCalls * Cardinality(InFlight(s)) \in Nat
        /\ MaxCalls * Cardinality(Requests) \in Nat
        /\ used[s] \in Nat /\ DailyLimit \in Nat
    BY InFlightSize, EntryServiceAssumption DEF IInv, TypeOK
  <2>2. used[s] + MaxCalls * Cardinality(InFlight(s)) + 1
          <= DailyLimit + MaxCalls * Cardinality(Requests)
    BY DEF QuotaBooked
  <2> QED BY <2>1, <2>2
<1>2. Spec => []QuotaBooked
  BY InitQuota, StepQuota, Invariance, PTL DEF Spec
<1> QED BY <1>1, <1>2, Invariance, PTL

-----------------------------------------------------------------------------
(* The refinement.                                                          *)

\* Claiming is AnswerOnce!Take.
LEMMA ClaimTakes ==
  ASSUME IInv, NEW r \in Requests, Claim(r)
  PROVE  Once!Take(req[r].e, r)
<1> DEFINE e == req[r].e
<1>0. e \in Events /\ req \in [Requests -> RequestRow]
  BY DEF IInv, TypeOK, RequestRow
<1>1. \A q \in Requests : ~(req[q].e = e /\ Owns(q))
  BY DEF IInv, Claim, Claimable, KeyFree, Owns, PastClaim, BetweenTx, RowMatchesOwner
<1>2. response[e] = "none"
  BY <1>0 DEF IInv, Claim, Claimable, RowMatchesOwner
<1>3. \A q \in Requests : /\ req'[q].e = req[q].e
                          /\ Owns(q)' <=> q = r \/ Owns(q)
  BY <1>0 DEF Claim, Moves, Owns, PastClaim, RequestRow
<1>4. \A d \in Events : Working(d)' = IF d = e THEN {r} ELSE Working(d)
  BY <1>1, <1>3 DEF Working, Owns
<1>5. Working(e) = {}
  BY <1>1 DEF Working, Owns
<1>6. UNCHANGED response
  BY DEF Claim, committed
<1> HIDE DEF e
<1>7. [d \in Events |-> Working(d)]' = [[d \in Events |-> Working(d)] EXCEPT ![e] = {r}]
  BY <1>0, <1>4 DEF Working
<1>8. [d \in Events |-> Working(d)][e] = {}
  BY <1>0, <1>5
<1> QED BY <1>2, <1>6, <1>7, <1>8 DEF Once!Take, e

\* Every way an owner stops working on its message.
LEMMA OwnerLeaves ==
  ASSUME IInv, NEW r \in Requests, Owns(r), ~Owns(r)',
         \A q \in Requests : q # r => UNCHANGED req[q]
  PROVE  /\ [d \in Events |-> Working(d)][req[r].e] = {r}
         /\ [d \in Events |-> Working(d)]'
              = [[d \in Events |-> Working(d)] EXCEPT ![req[r].e] = {}]
<1> DEFINE e == req[r].e
<1>0. e \in Events
  BY DEF IInv, TypeOK, RequestRow
<1>1. \A q \in Requests : Owns(q) /\ req[q].e = e => q = r
  BY DEF IInv, SoleOwner
<1>2. \A q \in Requests : q # r => (Owns(q)' <=> Owns(q)) /\ req'[q].e = req[q].e
  BY DEF Owns
<1>3. \A d \in Events : Working(d)' = IF d = e THEN {} ELSE Working(d)
  BY <1>1, <1>2 DEF Working, Owns
<1>4. Working(e) = {r}
  BY <1>1 DEF Working, Owns
<1> HIDE DEF e
<1>5. [d \in Events |-> Working(d)]' = [[d \in Events |-> Working(d)] EXCEPT ![e] = {}]
  BY <1>0, <1>3 DEF Working
<1>6. [d \in Events |-> Working(d)][e] = {r}
  BY <1>0, <1>4
<1> QED BY <1>5, <1>6 DEF e

\* A step that neither makes nor unmakes an owner, and records nothing.
LEMMA OwnersStay ==
  ASSUME UNCHANGED response,
         \A q \in Requests :
           (Owns(q)' <=> Owns(q)) /\ (Owns(q) => req'[q].e = req[q].e)
  PROVE  UNCHANGED Once!vars
<1>1. \A d \in Events : Working(d)' = Working(d)
  BY DEF Working, Owns
<1>2. [d \in Events |-> Working(d)]' = [d \in Events |-> Working(d)]
  BY <1>1 DEF Working
<1> QED BY <1>2 DEF Once!vars

LEMMA CommitReplyRecords ==
  ASSUME IInv, NEW r \in Requests, CommitReply(r)
  PROVE  Once!Record(req[r].e, r, req[r].kind)
<1>1. Owns(r) /\ ~Owns(r)' /\ \A q \in Requests : q # r => UNCHANGED req[q]
  BY DEF IInv, TypeOK, CommitReply, Ends, IdleRequest, Owns, PastClaim, BetweenTx
<1>2. response' = [response EXCEPT ![req[r].e] = req[r].kind]
  BY DEF CommitReply
<1> QED BY <1>1, <1>2, OwnerLeaves DEF Once!Record

LEMMA SettleRecords ==
  ASSUME IInv, NEW r \in Requests, Settle(r)
  PROVE  Once!Record(req[r].e, r, "answer")
<1>1. Owns(r) /\ ~Owns(r)' /\ \A q \in Requests : q # r => UNCHANGED req[q]
  BY DEF IInv, TypeOK, RequestRow, Settle, Owns, PastClaim, BetweenTx
<1>2. response' = [response EXCEPT ![req[r].e] = "answer"]
  BY DEF Settle
<1> QED BY <1>1, <1>2, OwnerLeaves DEF Once!Record

\* An exception or a death takes the owner away, or hits nobody's owner.
LEMMA FailureGivesUp ==
  ASSUME IInv, NEW r \in Requests, Fail(r) \/ Crash(r)
  PROVE  Once!GiveUp(req[r].e, r) \/ UNCHANGED Once!vars
<1>1. ~Owns(r)' /\ (\A q \in Requests : q # r => UNCHANGED req[q]) /\ UNCHANGED response
  BY DEF IInv, TypeOK, Fail, Crash, Ends, IdleRequest, Owns, PastClaim, BetweenTx, committed
<1>2. CASE Owns(r)
  BY <1>1, <1>2, OwnerLeaves DEF Once!GiveUp
<1>3. CASE ~Owns(r)
  BY <1>1, <1>3, OwnersStay DEF Owns
<1> QED BY <1>2, <1>3

\* Everything else the service does is invisible to AnswerOnce.
LEMMA QuietSteps ==
  ASSUME IInv, NEW r \in Requests, NEW e \in Events,
         \/ Receive(r, e) \/ AnswerDuplicate(r) \/ RejectUnresolved(r)
         \/ AnswerWithoutModel(r) \/ PlanPaidCall(r) \/ Reply(r)
         \/ CommitPlan(r) \/ Execute(r) \/ Deliver(r) \/ GrowStale(e)
  PROVE  UNCHANGED Once!vars
<1> USE DEF IInv, TypeOK, RequestRow, Owns, PastClaim, BetweenTx, committed, IdleRequest,
            Ends, Moves
<1> DEFINE Quiet ==
      /\ UNCHANGED response
      /\ \A q \in Requests :
           (Owns(q)' <=> Owns(q)) /\ (Owns(q) => req'[q].e = req[q].e)
<1>1. ASSUME Receive(r, e) PROVE Quiet
  BY <1>1 DEF Receive
<1>2. ASSUME AnswerDuplicate(r) PROVE Quiet
  BY <1>2 DEF AnswerDuplicate
<1>3. ASSUME RejectUnresolved(r) PROVE Quiet
  BY <1>3 DEF RejectUnresolved
<1>4. ASSUME AnswerWithoutModel(r) PROVE Quiet
  BY <1>4 DEF AnswerWithoutModel
<1>5. ASSUME PlanPaidCall(r) PROVE Quiet
  BY <1>5 DEF PlanPaidCall
<1>6. ASSUME Reply(r) PROVE Quiet
  BY <1>6 DEF Reply
<1>7. ASSUME CommitPlan(r) PROVE Quiet
  BY <1>7 DEF CommitPlan
<1>8. ASSUME Execute(r) PROVE Quiet
  <2>1. PICK n : req' = [req EXCEPT ![r] = [@ EXCEPT !.pc = "called", !.calls = n]]
    BY <1>8 DEF Execute
  <2>2. req[r].pc = "calling" /\ UNCHANGED response
    BY <1>8 DEF Execute
  <2> QED BY <2>1, <2>2
<1>9. ASSUME Deliver(r) PROVE Quiet
  BY <1>9 DEF Deliver
<1>10. ASSUME GrowStale(e) PROVE Quiet
  BY <1>10 DEF GrowStale
<1>11. Quiet
  BY <1>1, <1>2, <1>3, <1>4, <1>5, <1>6, <1>7, <1>8, <1>9, <1>10
<1> QED BY <1>11, OwnersStay

LEMMA StepImplements == IInv /\ [Next]_vars => [Once!Next]_(Once!vars)
<1> SUFFICES ASSUME IInv, [Next]_vars PROVE [Once!Next]_(Once!vars)
  OBVIOUS
<1>1. ASSUME NEW r \in Requests, NEW e \in Events, Receive(r, e) PROVE UNCHANGED Once!vars
  BY <1>1, QuietSteps
<1>2. ASSUME NEW r \in Requests, Step(r) PROVE [Once!Next]_(Once!vars)
  <2>1. req[r].e \in Events
    BY DEF IInv, TypeOK, RequestRow
  <2>2. CASE Claim(r)
    BY <2>1, <2>2, ClaimTakes DEF Once!Next
  <2>3. CASE CommitReply(r)
    <3>1. req[r].kind \in Answers
      BY <2>3 DEF CommitReply, IInv, KindMatchesStep, Answers
    <3> QED BY <2>1, <2>3, <3>1, CommitReplyRecords DEF Once!Next
  <2>4. CASE Settle(r)
    BY <2>1, <2>4, SettleRecords DEF Once!Next, Answers
  <2> QED BY <1>2, <2>1, <2>2, <2>3, <2>4, QuietSteps DEF Step
<1>3. ASSUME NEW r \in Requests, Fail(r) \/ Crash(r) PROVE [Once!Next]_(Once!vars)
  <2>1. req[r].e \in Events
    BY DEF IInv, TypeOK, RequestRow
  <2> QED BY <1>3, <2>1, FailureGivesUp DEF Once!Next
<1>4. ASSUME NEW e \in Events, GrowStale(e) PROVE UNCHANGED Once!vars
  <2>1. PICK r \in Requests : TRUE
    BY EntryServiceAssumption
  <2> QED BY <1>4, <2>1, QuietSteps
<1>5. CASE UNCHANGED vars
  BY <1>5, OwnersStay DEF vars, Owns
<1> QED BY <1>1, <1>2, <1>3, <1>4, <1>5 DEF Next

LEMMA InitImplements == Init => Once!Init
<1> SUFFICES ASSUME Init PROVE Once!Init
  OBVIOUS
<1>1. \A d \in Events : Working(d) = {}
  BY DEF Init, IdleRequest, Working, PastClaim, BetweenTx
<1> QED BY <1>1 DEF Init, Once!Init

\* The service implements AnswerOnce: one owner at a time, one final answer.
THEOREM Implements == Spec => ImplementsAnswerOnce
<1> QED BY InitImplements, StepImplements, Invariance, PTL
        DEF Spec, ImplementsAnswerOnce, Once!Spec
=============================================================================
