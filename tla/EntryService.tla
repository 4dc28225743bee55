---------------------------- MODULE EntryService ----------------------------
(***************************************************************************)
(* EntryService: one inbound message from its webhook to its reply.         *)
(*                                                                          *)
(* A request claims the idempotency key of its message, gates the message   *)
(* and either answers it deterministically inside that first transaction    *)
(* or commits, calls the providers with no transaction open, records answer *)
(* and ledger in a second transaction, and sends the reply after it.        *)
(* Meta delivers a message until one delivery of it is answered 200.        *)
(***************************************************************************)
EXTENDS Naturals, FiniteSets

CONSTANTS
  Events,       \* inbound messages, each with its idempotency key
  Students,
  Sender,       \* [Events -> Students]
  Requests,     \* requests the service runs concurrently
  DailyLimit,   \* plan.daily_call_limit
  MaxCalls,     \* billed provider calls of one execution: attempts and verifier
  MaxCrashes,   \* bound on requests that die
  MaxFailures   \* bound on exceptions and on messages WhatsApp never accepts

ASSUME EntryServiceAssumption ==
  /\ Events # {}
  /\ Sender \in [Events -> Students]
  /\ IsFiniteSet(Requests) /\ Requests # {}
  /\ DailyLimit \in Nat
  /\ MaxCalls \in Nat \ {0}
  /\ MaxCrashes \in Nat
  /\ MaxFailures \in Nat

VARIABLES
  due,         \* Meta still owes a delivery of the message
  claim,       \* the committed idempotency row
  response,    \* its response_json
  req,         \* the requests
  used,        \* committed usage_ledger rows that count against the day
  asked,       \* committed STUDENT rows of the message
  answered,    \* committed ASSISTANT rows of the message
  told,        \* replies WhatsApp accepted
  executions,  \* provider executions for the message ...
  lost,        \* ... and those whose result no transaction recorded
  crashes,
  failures

vars == <<due, claim, response, req, used, asked, answered, told, executions,
          lost, crashes, failures>>

\* Everything a step leaves alone that opens and reads, but commits nothing.
committed == <<claim, response, used, asked, answered>>
ghosts == <<executions, lost>>
bounds == <<crashes, failures>>

\* "unresolved" and "refusal" are recorded without a conversation; a
\* deterministic "reply" and a paid "answer" are turns of one.
Answers == {"unresolved", "refusal", "reply", "answer"}

IdleRequest == [pc |-> "idle", e |-> CHOOSE e \in Events : TRUE, kind |-> "none",
                calls |-> 0]

Init ==
  /\ due = [e \in Events |-> TRUE]
  /\ claim = [e \in Events |-> "absent"]
  /\ response = [e \in Events |-> "none"]
  /\ req = [r \in Requests |-> IdleRequest]
  /\ used \in [Students -> 0..DailyLimit]   \* earlier today
  /\ asked = [e \in Events |-> 0]
  /\ answered = [e \in Events |-> 0]
  /\ told = [e \in Events |-> 0]
  /\ executions = [e \in Events |-> 0]
  /\ lost = [e \in Events |-> 0]
  /\ crashes = 0
  /\ failures = 0

Student(r) == Sender[req[r].e]

\* Where the first transaction is open past the claim, and past the subject.
PastClaim   == {"claimed", "replying", "replied", "planned"}
PastSubject == {"replying", "replied", "planned"}

\* Between the two transactions: the claim is committed and not completed.
BetweenTx == {"calling", "called"}

\* The unique index makes a second claim wait for the first transaction.
KeyFree(e) == ~\E r \in Requests : req[r].e = e /\ req[r].pc \in PastClaim

\* upsert_subject updates the student's row and holds its lock until commit.
SubjectFree(s) ==
  ~\E r \in Requests : /\ req[r].pc \in PastSubject
                       /\ req[r].kind # "unresolved"
                       /\ Student(r) = s

Moves(r, pc) == req' = [req EXCEPT ![r].pc = pc]
Ends(r)      == req' = [req EXCEPT ![r] = IdleRequest]

\* The 200 that ends Meta's deliveries of the message.
Acknowledges(r) == due' = [due EXCEPT ![req[r].e] = FALSE]
-----------------------------------------------------------------------------
(* The first transaction: _prepare.                                         *)

\* A delivery, the first one or one Meta repeats while others are at work.
Receive(r, e) ==
  /\ req[r].pc = "idle"
  /\ due[e]
  /\ req' = [req EXCEPT ![r] = [IdleRequest EXCEPT !.pc = "received", !.e = e]]
  /\ UNCHANGED <<due, committed, told, ghosts, bounds>>

\* Mutant: any incomplete claim may be taken over.
ClaimableAtAnyAge(e) == claim[e] \in {"absent", "held", "stale"}

\* claim_idempotency_key returns a row: inserted, or an abandoned one renewed.
Claimable(e) == claim[e] \in {"absent", "stale"}

Claim(r) ==
  /\ req[r].pc = "received"
  /\ KeyFree(req[r].e)
  /\ Claimable(req[r].e)
  /\ Moves(r, "claimed")
  /\ UNCHANGED <<due, committed, told, ghosts, bounds>>

\* The claim is lost: the stored response, or "still working", goes back to
\* the caller.  Nothing is sent to the student and the delivery is answered.
AnswerDuplicate(r) ==
  /\ req[r].pc = "received"
  /\ KeyFree(req[r].e)
  /\ ~Claimable(req[r].e)
  /\ Acknowledges(r)
  /\ Ends(r)
  /\ UNCHANGED <<committed, told, ghosts, bounds>>

\* IDENTITY_UNRESOLVED: recorded without touching a subject, nothing to send.
RejectUnresolved(r) ==
  /\ req[r].pc = "claimed"
  /\ req' = [req EXCEPT ![r] = [@ EXCEPT !.pc = "replied", !.kind = "unresolved"]]
  /\ UNCHANGED <<due, committed, told, ghosts, bounds>>

\* The plan gate, or a turn that needs no model: the media gates, the brief
\* that resumes an attachment, and every refusal of the budget policy.
AnswerWithoutModel(r) ==
  /\ req[r].pc = "claimed"
  /\ SubjectFree(Student(r))
  /\ \E kind \in {"refusal", "reply"} :
       req' = [req EXCEPT ![r] = [@ EXCEPT !.pc = "replying", !.kind = kind]]
  /\ UNCHANGED <<due, committed, told, ghosts, bounds>>

\* Mutant: off by one.
WithinQuotaInclusive(s) == used[s] <= DailyLimit

\* daily_calls_exhausted is false: a read, not a reservation.
WithinQuota(s) == used[s] < DailyLimit

PlanPaidCall(r) ==
  /\ req[r].pc = "claimed"
  /\ SubjectFree(Student(r))
  /\ WithinQuota(Student(r))
  /\ req' = [req EXCEPT ![r] = [@ EXCEPT !.pc = "planned", !.kind = "answer"]]
  /\ UNCHANGED <<due, committed, told, ghosts, bounds>>

\* The deterministic reply is sent before its transaction commits.  WhatsApp
\* may not accept it; the client logs that and raises nothing.
Reply(r) ==
  /\ req[r].pc = "replying"
  /\ \E accepted \in BOOLEAN :
       /\ ~accepted => failures < MaxFailures
       /\ told' = IF accepted THEN [told EXCEPT ![req[r].e] = @ + 1] ELSE told
       /\ failures' = IF accepted THEN failures ELSE failures + 1
  /\ Moves(r, "replied")
  /\ UNCHANGED <<due, committed, ghosts, crashes>>

\* Mutant: the response is not stored.
ClaimAfterReplyForgotten == "held"

\* store_idempotent_response sets completed_at.
ClaimAfterReply == "completed"

CommitReply(r) ==
  LET e == req[r].e IN
  /\ req[r].pc = "replied"
  /\ claim' = [claim EXCEPT ![e] = ClaimAfterReply]
  /\ response' = [response EXCEPT ![e] = req[r].kind]
  /\ asked' = IF req[r].kind = "reply" THEN [asked EXCEPT ![e] = @ + 1] ELSE asked
  /\ answered' = IF req[r].kind = "reply" THEN [answered EXCEPT ![e] = @ + 1] ELSE answered
  /\ Acknowledges(r)
  /\ Ends(r)
  /\ UNCHANGED <<used, told, ghosts, bounds>>

CommitPlan(r) ==
  LET e == req[r].e IN
  /\ req[r].pc = "planned"
  /\ claim' = [claim EXCEPT ![e] = "held"]
  /\ asked' = [asked EXCEPT ![e] = @ + 1]
  /\ Moves(r, "calling")
  /\ UNCHANGED <<due, response, used, answered, told, ghosts, bounds>>
-----------------------------------------------------------------------------
(* The provider call, the second transaction, and the reply.                *)

\* CapabilityExecutor.run: some attempts, and the verifier, are billed.
Execute(r) ==
  /\ req[r].pc = "calling"
  /\ \E n \in 0..MaxCalls : req' = [req EXCEPT ![r] = [@ EXCEPT !.pc = "called", !.calls = n]]
  /\ executions' = [executions EXCEPT ![req[r].e] = @ + 1]
  /\ UNCHANGED <<due, committed, told, lost, bounds>>

\* Mutant: the sign is wrong.
ChargedBack(s, n) == used[s] - n

\* One ledger row per billed call.
Charged(s, n) == used[s] + n

\* _settle: ledger, turn and response commit together.
Settle(r) ==
  LET e == req[r].e IN
  /\ req[r].pc = "called"
  /\ KeyFree(e)
  /\ used' = [used EXCEPT ![Student(r)] = Charged(Student(r), req[r].calls)]
  /\ answered' = [answered EXCEPT ![e] = @ + 1]
  /\ response' = [response EXCEPT ![e] = "answer"]
  /\ claim' = [claim EXCEPT ![e] = "completed"]
  /\ req' = [req EXCEPT ![r] = [@ EXCEPT !.pc = "delivering", !.calls = 0]]
  /\ UNCHANGED <<due, asked, told, ghosts, bounds>>

Deliver(r) ==
  /\ req[r].pc = "delivering"
  /\ \E accepted \in BOOLEAN :
       /\ ~accepted => failures < MaxFailures
       /\ told' = IF accepted THEN [told EXCEPT ![req[r].e] = @ + 1] ELSE told
       /\ failures' = IF accepted THEN failures ELSE failures + 1
  /\ Acknowledges(r)
  /\ Ends(r)
  /\ UNCHANGED <<committed, ghosts, crashes>>
-----------------------------------------------------------------------------
(* Failure.                                                                 *)

LoseExecution(r) ==
  lost' = IF req[r].pc = "called" THEN [lost EXCEPT ![req[r].e] = @ + 1] ELSE lost

\* An exception: the open transaction rolls back and the webhook, whose
\* _handle_one never raises, answers 200.
Fail(r) ==
  /\ req[r].pc \in {"received"} \cup PastClaim \cup BetweenTx
  /\ failures < MaxFailures
  /\ failures' = failures + 1
  /\ LoseExecution(r)
  /\ Acknowledges(r)
  /\ Ends(r)
  /\ UNCHANGED <<committed, told, executions, crashes>>

\* The container dies: no answer to Meta.
Crash(r) ==
  /\ req[r].pc # "idle"
  /\ crashes < MaxCrashes
  /\ crashes' = crashes + 1
  /\ LoseExecution(r)
  /\ Ends(r)
  /\ UNCHANGED <<due, committed, told, executions, failures>>

Working(e) == {r \in Requests : req[r].e = e /\ req[r].pc \in PastClaim \cup BetweenTx}

\* Mutant: a request may live longer than STALE_CLAIM_AFTER.
OwnerGoneAssumed(e) == TRUE

\* Nobody is between the transactions of this message any more.
OwnerGone(e) == \A r \in Working(e) : req[r].pc \notin BetweenTx

\* STALE_CLAIM_AFTER passes.  It is longer than any request lives.
GrowStale(e) ==
  /\ claim[e] = "held"
  /\ OwnerGone(e)
  /\ claim' = [claim EXCEPT ![e] = "stale"]
  /\ UNCHANGED <<due, response, req, used, asked, answered, told, ghosts, bounds>>
-----------------------------------------------------------------------------
Step(r) ==
  \/ Claim(r) \/ AnswerDuplicate(r)
  \/ RejectUnresolved(r) \/ AnswerWithoutModel(r) \/ PlanPaidCall(r)
  \/ Reply(r) \/ CommitReply(r) \/ CommitPlan(r)
  \/ Execute(r) \/ Settle(r) \/ Deliver(r)

Next ==
  \/ \E r \in Requests, e \in Events : Receive(r, e)
  \/ \E r \in Requests : Step(r) \/ Fail(r) \/ Crash(r)
  \/ \E e \in Events : GrowStale(e)

Spec == Init /\ [][Next]_vars

\* A request that can run does; Postgres queues those that wait for a lock;
\* Meta repeats what was not answered; a claim nobody renews grows old.
Fairness ==
  /\ \A r \in Requests : SF_vars(Step(r))
  /\ \A e \in Events : SF_vars(\E r \in Requests : Receive(r, e)) /\ WF_vars(GrowStale(e))

FairSpec == Spec /\ Fairness
-----------------------------------------------------------------------------
(* Properties.                                                              *)

PC == {"idle", "received", "delivering"} \cup PastClaim \cup BetweenTx

RequestRow == [pc : PC, e : Events, kind : Answers \cup {"none"}, calls : Nat]

\* Every variable has its type.
TypeOK ==
  /\ due \in [Events -> BOOLEAN]
  /\ claim \in [Events -> {"absent", "held", "stale", "completed"}]
  /\ response \in [Events -> Answers \cup {"none"}]
  /\ req \in [Requests -> RequestRow]
  /\ used \in [Students -> Nat]
  /\ asked \in [Events -> Nat]
  /\ answered \in [Events -> Nat]
  /\ told \in [Events -> Nat]
  /\ executions \in [Events -> Nat]
  /\ lost \in [Events -> Nat]
  /\ crashes \in Nat
  /\ failures \in Nat

\* Executions whose result is not recorded yet.
Unsettled(e) == {r \in Requests : req[r].e = e /\ req[r].pc = "called"}

\* "Work executes exactly once even under a race" (claim_idempotency_key):
\* every provider execution of a message is the one that answered it, the one
\* being settled now, or one whose container or transaction died under it.
WorkExecutesOnce ==
  \A e \in Events :
    /\ executions[e] = lost[e] + Cardinality(Unsettled(e))
                         + (IF response[e] = "answer" THEN 1 ELSE 0)
    /\ Cardinality(Unsettled(e)) <= 1

\* A conversation never gets two answers to one message, nor an answer
\* without its question, however often the message is delivered and retaken.
OneAnswerPerQuestion ==
  \A e \in Events : answered[e] <= 1 /\ (answered[e] = 1 => asked[e] >= 1)

\* A student hears the reply once, and again only after something died
\* between the sending and the commit.
RepliesAreRepeatedByFailureOnly ==
  \A e \in Events : told[e] <= 1 + crashes + failures

\* The daily limit is soft, but not without limit: the requests that read the
\* quota before it was used up add at most their billed calls each.
SoftLimitHolds ==
  \A s \in Students :
    used[s] + 1 <= DailyLimit + MaxCalls * Cardinality(Requests)

\* The promise to one message, its owners the requests past its claim.
Once == INSTANCE AnswerOnce WITH
  NoAnswer <- "none",
  owner    <- [e \in Events |-> Working(e)],
  answer   <- response

\* Two requests never own one message, and a recorded answer is final.
ImplementsAnswerOnce == Once!Spec

\* Unless something crashes, throws or refuses to send, every message delivered
\* is answered: recorded, and sent if there is a student to send it to.
MessagesAreAnswered ==
  \A e \in Events :
    due[e] ~> \/ crashes + failures > 0
              \/ /\ claim[e] = "completed"
                 /\ told[e] > 0 \/ response[e] = "unresolved"
-----------------------------------------------------------------------------
(* What comments in the code say of it and the code does not do.            *)

\* "A student whose container crashed gets an answer on the next redelivery
\* instead of never" (STALE_CLAIM_AFTER): a claim whose owner is gone is
\* completed if Meta is still to repeat the message.
CrashedStudentsAreAnswered ==
  \A e \in Events :
    due[e] /\ claim[e] = "held" /\ Working(e) = {} ~> claim[e] = "completed"
=============================================================================
