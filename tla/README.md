# TutorTwin: a TLA+ verification project

TutorTwin is a WhatsApp tutoring service: FastAPI handlers on Cloud Run or on
one server, Postgres as the only durable state, Cloud Tasks (or an in-process
queue) for file reading, paid model providers, Cashfree for payments. Handlers
are asyncio coroutines; everything two of them share is a database row, so the
unit of atomicity is a SQL statement and the unit of all-or-nothing a
transaction under READ COMMITTED. The modules model that level.

Paths below are relative to `src/src/tutortwin/`.

## Inventory

| Component | State it keeps | Operations | Hard because | Correct when |
|---|---|---|---|---|
| Media state machine (`domain/media.py`, `repositories/media.py: transition`) | `media_objects.state` | `transition` | future call sequences | no way around the cost gates |
| Media intake and pipeline (`media/pipeline.py`) | `media_objects`, `media_extractions` | `intake`, `process`, extraction cache | redelivery, stale reads between two transactions, paid call inside a transaction that may roll back | nothing fetched or paid ungated; the words of a page charged once |
| Jobs and queues (`api/routes/jobs.py`, `media/adapters.py`, `services/job_sweep.py`, `policies/retry_policy.py`, `api/routes/admin/jobs.py`) | `jobs`, the queue | `enqueue`, `run_job`, sweep, operator retry / cancel | at-least-once delivery, overlap, crashes, 429, attempts counted without a lock | bounded attempts, one executor, settled stays settled, held jobs settle or are left in a state the sweep selects |
| Subscription activation (`services/subscriptions.py`, `api/routes/public.py`) | `payments`, `entitlements`, `tutor_assignments`, `subjects` | webhook, poll, `activate_payment`, manual grant, override, reassign | concurrent deliveries, row locks, Postgres deadlocks, message after commit | one grant per payment, one term in force, told at most once |
| Entry service (`orchestration/entry_service.py`, `repositories/conversations.py`) | `idempotency_keys`, `conversations`, `messages`, ledger | TX1, provider call, TX2, deliver | redelivery against a live or dead owner of the claim | a message is answered and paid for once |
| Budget policy (`policies/budget_policy.py`, `domain/budget.py`, `repositories/catalog.py`) | reads `usage_ledger` | `load_quota_snapshot`, `decide` | quota read before, written after the call | what was paid passes a ceiling only by what the running turns cost |
| Model gateway, executor (`providers/gateway.py`, `capabilities/executor.py`) | none | `invoke`, `run`, verification | attempts across two aliases, blocked vendors | at most `max_attempts` calls, the fallback reached |
| Router, context, budgeter (`orchestration/router.py`, `services/context.py`, `services/budgeter.py`) | none | `classify`, `assemble`, `allocate` | limits that interact | a prompt fits, each section within its share |
| Admin auth (`security/admin_auth.py`, `api/admin_deps.py`) | users, sessions, attempts | sign in, resolve, sign out, change password, role, status | lockout counters, revocation against running requests | revoked or expired sessions do nothing, somebody can still sign in |
| Admin catalog, tutors, students (`api/routes/admin/`) | plans, prompts, personas, flags, routes, documents, audit | versioned edits, activation | read-then-write without a lock | one active version, an audit trail that explains itself |
| File readers (`media/validation.py`, `pdf.py`, `ocr.py`, `extractor.py`, `audio.py`, `enhance.py`) | none | validate, plan, read, escalate, clean | three page budgets in two functions | the cheapest reader that can |
| Blobs, cached extractions, retention (`media/blobstore.py`, `repositories/media.py`, `services/retention.py`) | blobs, `media_extractions`, expiry | put, cache, sweep | bytes shared by attachments, a bucket outside the transaction | what is kept has an expiry; what was read is not paid for again |
| Learning (`learning/`, `repositories/learning.py`, `services/memory.py`) | cards, reviews, attempts, responses, homework, memories, counters | review, mark, hint, observe | rows read and written without a lock; arithmetic on what a model said | derived columns agree with the log; what a student is told is earned |
| Knowledge base (`rag/`, `policies/rag_policy.py`) | sources, chunks, embedding cache | ingest, delete, retrieve | a network call between read and write | what is ingested is found, by its owner only |
| Configuration, web apps, infrastructure, drawing and typesetting, HTTP clients | none, or external | | I/O and formatting | not modelled |

Interactions: the WhatsApp webhook calls the entry service; its TX1 calls
`intake`, which writes the media and job rows and calls the queue; the queue
calls `run_job` over HTTP; `run_job` calls `process` and at the end the entry
service again, with an event id derived from the attachment. TX1 of a
question classifies the message, assembles the context and asks the budget
policy; between its two transactions the service calls the gateway. The website and
Cashfree call `public.py`, which writes the entitlements the entry service
reads. Operators write jobs, entitlements and assignments directly. Nothing in
`src/` calls the learning engine or the knowledge base yet but their tests.
`PROJECT.json` lists every component and, per line of code, every hazard.

## Modules

| Module | Models |
|---|---|
| `MediaStates` | the enumeration and adjacency table of `domain/media.py` |
| `MediaLifecycle` | any sequence of `transition()` calls; `MediaLifecycle_proofs` proves the gate |
| `MediaJobs` | intake, queues, `run_job`, `process`, sweep, operator; `MediaJobs_proofs` |
| `MCMediaJobs` | its instances |
| `SubscriptionLedger` | abstract: a term is granted, the newest is in force, no order is granted twice |
| `Subscriptions` | the transactions that implement it; `Subscriptions_proofs` |
| `MCSubscriptions` | its instances |
| `AnswerOnce` | abstract: a message has one owner at a time and one final answer |
| `EntryService` | one message from its webhook to its reply; `EntryService_proofs` |
| `MCEntryService` | its instances |
| `Asking` | pure: classification of a message, assembly of its context |
| `Budgeting` | pure: the quota snapshot and `decide` |
| `TutorTurn` | a turn planned, called, verified and settled, several at once; `TutorTurn_proofs` over the lemmas of `Sums`, `MCTutorTurn` |
| `AdminRoles` | roles and permissions |
| `AdminAccounts` | operators' accounts, sessions and requests |
| `AdminPanel` | what they edit, over `AdminAccounts`; `AdminPanel_proofs`, `MCAdminPanel` |
| `Revision`, `Checking`, `Twins`, `Grading`, `Writing` | pure: spaced repetition, verification, practice problems, marking and papers, notes and essays |
| `Chunking`, `Retrieval` | pure: cutting a document, ranking and fusing what is found, allocating a prompt |
| `Knowledge` | ingestion, deletion and retrieval, over these two |
| `Extraction` | pure: refusal, page plan, OCR verdicts, escalation, voice, cleaning |
| `Files` | reading and forgetting the bytes of attachments, over `Extraction`; its proofs are in `Study_proofs` |
| `Study` | the learning engine's rows, with `Knowledge` and `Files`; `Study_proofs`, `MCStudy` |

### MediaJobs

A *request* is one run of `EntryService` TX1 carrying an attachment or its
brief: `ReceiveMedia` / `SendBrief` gate the attachment, hand the job id to the
queue and reply, all before `IntakeCommit` or `IntakeRollback`. A job id is the
request that inserted it, so an id whose insert rolled back names nothing, as
in the code. `upsert_subject` updates the student's row first, which serialises
the transactions of one student (`TxOpen`).

A *worker* is one execution of `run_job`: `Deliver` reads the row and the
fleet's count without a lock; `GiveUp`, `Defer` or `Claim` ends the first
transaction; `LoadMedia` reads the attachment and the entitlement and closes
its transaction; `Fetch*` runs with none open; `RecordFetched` flushes the first
UPDATE and takes the row lock, kept until `Finish` commits attachment,
extraction, ledger and job together, or `Raise` / `RecordFailure` rolls back
and records the failure in a transaction of its own; `Answer` is outside any.
What is read at one step (`wk[w].snap`, `permit`) is what the code uses later.

`tasks` holds the delivery attempts left per queue entry. `Serverless` chooses
Cloud Tasks (entry stays until acknowledged, so deliveries overlap; a container
dies alone) or `InProcessTaskQueue` (an entry leaves when sent, only a 429 is
dispatched again; a restart takes everything and runs the sweep). Clocks are
two events per job (`GoStale`, `FallDue`) and one per attachment
(`CloseWindow`). An operator reads a row and writes it later.

The cache of words is per page, as `load_cached_extraction` and `store_extraction`
have it: `Extract` looks up the pages the plan picked, reads those that are not
there for nothing or with a paid call each, up to `MaxVisionPages` a run, and
leaves out what neither reads. A successful transcription without words is
charged and leaves no row.

Abstractions: file contents are a set of hashes; which pages a plan picks and a
free reader can read is chosen, not computed (`Extraction` computes it); the
student's budget is a Boolean read per attempt. The
branches of `run_job` for an unknown job type, a missing pipeline and a deleted
attachment are left out: nothing in the modelled part creates those rows.

### Subscriptions

Each request is a transaction whose statements are the steps: lock the payment
and re-check (`LockPayment`), find or insert the subject, plan the assignment
writes, flush them, lock the subject, scan, commit, notify. Locks are read off
the steps of the transactions that hold them: `FOR UPDATE` on payment and
subject, and the weaker lock an `INSERT` referencing the subject takes, which
is what makes two activations of one student deadlock (`DeadlockVictim`). A
webhook is due until it is answered; a poll may happen whenever the order is
paid. `INACTIVE` and `SUSPENDED` overrides are one value.

The refinement maps `ents` to the sequence of what granted each term and the
unique `ACTIVE` row to the term in force; only `Commit` changes either.

### EntryService

A *request* is one run of `_handle_one`, its `pc` the transaction it is in:

| `pc` | where the code is |
|---|---|
| `received` | TX1 open, before `claim_idempotency_key` returns |
| `claimed` | the claim inserted or renewed, not committed |
| `replying`, `replied` | a deterministic answer, before and after `deliver`, TX1 still open |
| `planned` | TX1 is about to commit a paid plan |
| `calling`, `called` | no transaction open; then TX2 |
| `delivering` | TX2 committed, the reply not sent |

`KeyFree` is the unique index of `idempotency_keys`: a second insert of a key
waits for the transaction that inserted it. `SubjectFree` is the row lock
`upsert_subject` takes, held to the end of TX1. A claim is `held` once TX1
commits with a paid plan and `stale` after `STALE_CLAIM_AFTER`; that happens only
when no request is between its transactions, because a claim lives five minutes
and a request at most `request_timeout_seconds`, two minutes (`OwnerGone`).
`_handle_one` swallows exceptions, so `Fail` acknowledges the delivery, and only a
death (`Crash`) leaves it to be repeated. `outbound.deliver` logs a refused
message and does not raise. `used` starts anywhere up to the limit: what the
student used earlier that day.

Abstractions: the media branches of TX1 are in `MediaJobs`; the calls `run_job`
and `/v1/events` make of the service differ from the webhook's only in who
repeats them; the tutor row `upsert_tutor` locks is left out, which only adds
interleavings; every refusal of the budget policy is one deterministic reply;
the number of billed calls of an execution is any number up to `MaxCalls`.

The refinement maps a message's owner to the requests past its claim and its
answer to the stored response.

### TutorTurn

A session is one request from its quota read to its ledger rows: `PlanTurn`, the
end of TX1, takes the snapshot of the ledger and decides; `Enter`, `Call` and `After` are
`ModelGateway.invoke`, one call to a step; `Verify` is the executor's second
opinion; `Settle` writes the ledger rows; `Crash` loses the calls of the turn.
Money is in small units of which an answer costs one or two; the windows of the
snapshot are in ticks. `Ceilings` are the seven limits as what each counts of a call, in
which window, up to what; `blocked_providers` looks only at vendors with a row, so a
vendor budget of zero bounds what a budget of one does. A message is its length and which patterns of the router
fire in it.

### AdminPanel

A request is admitted with a session (`Admit`), reads the rows it will change,
and commits them with its audit event, without a lock on what it read. `crossed`
records which rows another request changed in between, so that a property can
say what holds of requests that were not overtaken and what of those that were.
`bootstrap` creates an account of any role. Whether a request spells the target's
id as the code does is an input (`canonical`): `set_status` compares the path as it
was written with the caller's id, `change_role` the ids of the rows.

### Study

The learning engine is a set of *desks*: cards, papers, homework, memory,
progress, answers, library, files. No two share a table, so a behaviour stays at
the desk it begins at, which is the product of the desks without their
interleavings. A session reads a row (`held`) and writes it later, as two
requests with a session each would. `answers` hands in one *sheet*, an input of a pure
operator, and shows the output, which `OutputsAreEarned` examines; the operators
are checked over every sheet of `MCStudy`. Marks are counted in parts of a hundredth
(`Hundredth` of them), because a grader's reply has decimals of any length and a total
is rounded to two: `ToHundredths` gives what `round` may, both ways at a tie.

`Knowledge` keeps sources with their chunks and the embedding cache; a session
ingests, deletes or retrieves in steps that other sessions interleave with, and
the embedding model of the deployment may change. `Files` has two workers that
read two attachments of the same bytes, sweep, or die, an operator who deletes
the student's data, and the bucket's own lifecycle rule. `unrecorded` is a history
variable: the attachments whose bytes were put by a call that has not committed. Where `MediaJobs` asks
who may read an attachment, `Files` asks what becomes of its bytes and words.

## Runs

Every passing run explores its whole state space. Deadlock checking is off,
because the systems really rest: the messages, payments and exercises of an
instance are finite.

| Run | Shows | Instance |
|---|---|---|
| `MediaJobsServer` | one executor, bounded attempts, cost gate, no move back, finished stays, on a server | 1 attachment, 2 requests, 2 workers, 2 attempts, a restart, 1 operator action |
| `MediaJobsCloud` | one ledger charge for the words of a page under overlapping deliveries, deaths and an operator's retry | Cloud Tasks, 1 attachment of 2 pages of which a delivery may pay for 1, 1 request, 2 workers, a ceiling of one, a crash, 1 operator action |
| `MediaJobsLive` | held jobs settle, or, if a 429 or an overlap took their tries, are left in a state the sweep selects (only the server has a sweep) | Cloud Tasks, 1 attachment, 1 request, 2 workers, a ceiling of one; fair, no crash |
| `SubscriptionsPaid` | one grant per order, newest term in force, told at most once, refinement, paid orders activate | 2 orders of 1 student, 2 requests, a failed attempt, a crash; fair |
| `SubscriptionsOperator` | one grant per order against operators | 3 requests; grant, override, reassign |
| `EntryService` | one execution and one answer per message, repeats only by failure, bounded overshoot of the daily limit, refinement, messages are answered | 2 messages of 1 student, 2 requests, a death, an exception; fair |
| `TutorTurn` | what was really paid passes no ceiling by more than the running turns can cost; the attempts of a turn | 2 requests, 3 students (calls, budget, free), 3 turns, 3 messages, 3 ticks |
| `AdminPanel` | super admins remain, rights end with the request, dead sessions, lockout, one active version, a connected audit trail | 2 operators, 2 sessions, 2 requests, and 5 mixes of sign-ins, writes, edits, ticks and a crash |
| `Study` | cards follow their log, marks add up, twins are practice, outputs are earned; what is ingested is found, evidence is the asker's; kept bytes have an expiry, no page is paid for again | 2 sessions per desk, 3 writes a desk, some 7,700 sheets, marks to a thousandth; 2 documents, 7 requests, 3 questions, 3 commits, 2 models; 2 attachments of the same bytes, 2 workers, 3 readings, 4 days |

Two of everything is enough for the races modelled: each is between two
writers of one row, and a third party only repeats one of them; three requests
in `SubscriptionsOperator` let a third one arrive while two queue for a lock. Two
attempts make "last" and "not last" differ; `MediaJobsLive` has as many dispatch
tries as attempts, as the deployment has at least, since with fewer no delivery need be the last. Two pages and
a cap of one let a later delivery pay for what an earlier one left. Crashes and operator actions are
bounded by the guards (`MaxCrashes`, `MaxFailures`, `MaxOps`, `left`, `MaxTurns`, `MaxSteps`, `MaxCommits`,
`MaxReadings`, `LastDay`, `LastTick`); every other counter is bounded by these and
by the number of requests. Three turns of two requests let a third be planned
beside one that has not settled; three readings let a page be read, forgotten and
read again. The lockout after two wrong passwords stands for five, and two
attempts for three: the code compares each with its bound in one place.

`MediaLifecycle` has no run: its theorem covers every instance, and
`MediaJobsServer` checks the same gate on the pipeline itself.

Symmetry is declared only over values that no operator orders or chooses among
(workers, requests, sessions, operators), and in no run with a liveness property.

Three runs end in a counterexample, and each checks one sentence of the code's own
comments; `findings` in `PROJECT.json` quotes it beside what the code does:
`MediaJobsOperatorRetry` (an operator's "one more" attempt is refused),
`SubscriptionsTwoTutors` (two active assignments of one student) and
`EntryServiceCrashed` (a redelivery after a crash that is acknowledged without an
answer).

### Divergences without a run

Found while the models were written, by their states or by reading for them. Each is the line of
code against the line that says otherwise.

Media and jobs:

* the queue hears of a job before it is committed: `media/pipeline.py:263`
  against `media/adapters.py:184`;
* a worker that dies on the last attempt leaves a `RUNNING` row no sweep takes:
  `repositories/media.py:285`, `api/routes/jobs.py:212`;
* a job that fails for good sends nothing to a student who was promised an
  answer: `jobs.py:122`, `jobs.py:255`;
* an overlapping delivery reopens a `SUCCEEDED` job (`jobs.py:143` against
  `jobs.py:116`), and two claims may count as one attempt (`jobs.py:143` against
  `policies/retry_policy.py:10`);
* a rolled-back reading is billed again: `jobs.py:186`, `jobs.py:214`; so is a
  transcription without words, which is never stored: `media/pipeline.py:550`;
* an overlapping delivery of a PDF with more hard pages than the cap pays for the
  pages the first one left: `media/pipeline.py:428`, `media/extractor.py:153`
  (`LedgerChargesOnce` states the bound that holds);
* a 429 on the last delivery loses the job: `jobs.py:140` against `jobs.py:130`
  (`HeldJobsSettle` says in which state);
* two jobs with the same bytes both pay: `media/pipeline.py:635` against `:597`;
* a stale worker writes its copy of the state back: `repositories/media.py:77`
  against `domain/media.py:63`;
* `ZERO_COST_STATES` has `REJECTED`, which is also reached after a download:
  `domain/media.py:51`, `media/pipeline.py:321`.

Subscriptions:

* an entitlement override that races an activation leaves two `ACTIVE` rows:
  `api/routes/admin/students.py:427` against `repositories/entitlements.py:63`;
* a death between the commit and the message leaves the student untold:
  `api/routes/public.py:265` against `:238`;
* the webhook of a failed attempt overwrites `PAID`: `public.py:191` against
  `db/subscription_models.py:118`.

Entry service:

* an answer committed by a process that dies before `deliver` is never sent:
  `orchestration/entry_service.py:228` against `repositories/conversations.py:89`;
* a deterministic reply is sent inside TX1 (`entry_service.py:871`), so a rollback
  and a redelivery send it again;
* question and deterministic answer share `created_at` and are ordered by a random
  id: `repositories/conversations.py:238` against `:232`;
* the daily limit is exceeded by the billed calls of every request in flight, not
  by one: `repositories/catalog.py:119` (`SoftLimitHolds` states the bound that
  does hold).

Turns and budgets:

* each request in flight may bill three calls, not one:
  `repositories/catalog.py:117` (`SpendIsBounded` states the bound that holds);
* a successful voice note is booked without cost or tokens, as the circuit
  breaker counts failures (`media/audio.py:184`, `repositories/catalog.py:178`), so
  a handful of them blocks the vendor;
* "rejected rather than silently truncated" (`policies/budget_policy.py:34`), but
  the context is truncated before the policy sees it (`services/context.py:124`);
* "trimmed oldest-first" (`services/budgeter.py`), but a long newest turn is
  skipped and older ones kept;
* `load_catalog` (`repositories/catalog.py:32`) has no caller: an operator's routes
  never reach the gateway, and with both keys every alias is the same vendor's.

Operators:

* a draft persona has keys `TutorPersona` forbids and no version
  (`api/routes/admin/tutors.py:220`, `domain/models.py:51`), so a student's tutor
  falls back to the defaults (`services/tutors.py:76`);
* "every other session" (`security/admin_auth.py:336`) is every session;
* `bootstrap --role SUPPORT` leaves a team that has an account, no super admin and
  no second bootstrap: `cli/admin.py:190`, `cli/admin.py:64`;
* an operator may disable themselves with another spelling of their own id, since
  the path is compared as text: `api/routes/admin/auth.py:321` against `:272`;
* a document set back to `PENDING` is never processed
  (`api/routes/admin/students.py:999`).

Files:

* two attachments of the same bytes share a blob and its words; the sweep of the
  one that expires first deletes both, and a sweep that races a second upload may
  leave a readable row without its blob: `services/retention.py:119`;
* bytes put by a call that was lost, whose attachment later ends `FAILED`
  (`media/pipeline.py:311`) or is not read again, have a row without `expires_at`, which
  the sweep never selects (`services/retention.py:71`): the orphan that
  `services/retention.py:18` says is avoided, until the bucket's own rule;
* the deletion of a student's data leaves blobs and cached words
  (`api/routes/admin/students.py:492`);
* a page read under two methods by two jobs is stored twice, as
  `uq_media_extraction` includes the method (`db/models.py:455`);
* cached scans count against the OCR budget of the plan (`media/pdf.py:236`), so a
  page may be paid for though no local reader tried it
  (`media/extractor.py:115`);
* words accepted for a brief without mathematics are reused for one with it
  (`media/pipeline.py:420`).

Learning and knowledge, not wired in yet:

* confidence is ordered as text, MEDIUM, LOW, HIGH: `services/memory.py:268`;
* a batch of twins is labelled verified unchecked (`learning/twin.py`); the first
  decisive claim of an answer verifies it (`learning/verification.py:561`);
* the total of a paper is rounded to hundredths and its rows are not, so a total may
  differ from the rows' sum by half a hundredth (`learning/assessment.py:337`);
* a last sentence under eight tokens is left out of the index, as "stray
  headings and page numbers" are (`rag/chunking.py:187`);
* two reviews of one card both read the old schedule: the columns follow one, the
  log has both (`repositories/learning.py:196`); a stale homework save moves its
  stage back; two first saves leave two rows;
* `uq_source_content` binds no document with fewer than two owners, so two
  concurrent ingestions both insert, and the next raises
  (`rag/ingestion.py:98`).

### Fairness

`MediaJobs`: weak fairness of each worker's own steps (a coroutine that can run
does; its failures are *not* fair), of ending an open transaction, of the
queue delivering an entry it holds, and of clocks. `Subscriptions`: weak
fairness of each request's steps, strong fairness of acquiring a row lock
(Postgres queues waiters) and of a due webhook being redelivered (Cashfree
repeats until a 2xx). `EntryService`: strong fairness of each request's steps
(Postgres queues those that wait for a key or a row) and of Meta's delivery of a
message that was not answered 200, weak fairness of a claim growing old. Polls,
payments, operators, failures and crashes are never fair.

## Proofs

All by SMT, Zenon and LS4, for every value of the constants that satisfies the
module's assumption. Every theorem is `Init => IInv`, `IInv /\ [Next]_vars => IInv'`
and `IInv => Property`; what follows says which `IInv`, and why the property alone is
not inductive.

`MediaLifecycle_proofs`. `GateTheorem`: `GatesInOrder` says what an attachment in
each state has already visited; the gate follows.

`MediaJobs_proofs`, over all of intake, queue, pipeline and operator:

* `TypeCorrect`: `TypeInv` is `TypeOK` with `TriesLeft`, that a worker holding an
  in-process dispatch has tries left, without which the subtraction in `Defer` could
  leave the naturals.
* `CostGate`: `JobsAreGated`, every open or committed insert of a job was briefed and
  allowed, and `HandsHoldJobs`, a worker past the claim holds a committed row; with
  them `PaidWorkIsGated` is inductive.
* `OneExecutor`: on a server dispatching takes the entry and only a worker that ends
  gives one back.
* `AttemptsAreBounded`: `RunsAreAttempts`, on a server the number of claims equals the
  row's attempts and a loaded snapshot is current; so the check before a claim bounds
  the claims.
* `ChargedOnce`: `LedgerInv`. Two overlapping deliveries of a job may both read a paid
  file; that only one charges for the words of a page needs `RowLockIsExclusive` (one
  worker at an attachment between its first UPDATE and its commit), `ChargedIsStored` (a
  charge for words is committed with the row of their page, which the cache then answers
  with), `ChargeIsNew` (the pages a worker is about to charge for have words nobody was
  charged for) and `NothingReadYet`.
* `FinishedStays`: `UnfinishedInHand`, on a server a worker past its claim holds an
  unfinished job, which its own step is then the only one to finish.
* `AttachmentsMoveForward`: `MovesInv`. The code checks a transition against the state
  it *read*; that it is also one from the state it *overwrites* needs `OneOpenPerMedia`
  and `OneJobPerMedia` (no two transactions and no two jobs at one attachment),
  `OpenWritesAreDue` and `JobsAreQueued` (intake writes before there is a job, jobs
  after), `TargetsByStage` (where a worker at each stage moves to) and, on a server,
  `ProcessedStays` (the attachment does not move under the worker that checked it).

`EntryService_proofs`:

* `TypeCorrect`, `ExecutesOnce`: `SoleOwner`, a message has at most one request past
  its claim; `RowMatchesOwner`, what the committed row says while one is (without it a
  second claim would not be excluded by the first); `KindMatchesStep`;
  `EveryExecutionCounted`.
* `AnswersOnce`: `RowsMatchResponse` ties the rows of a conversation to the stored
  response: a completed claim is never completed again.
* `SoftLimit`: `QuotaBooked`, a request between the quota read and its ledger rows
  counts as `MaxCalls` booked calls, so passing the read books one request and settling
  turns its booking into rows.
* `RepliesOnce`: `RepliesInv`. `ToldByFailure` says a message was told at most as often
  as something failed or died, and once more only if its one free sending is `Spent`
  (replied in a transaction that is open, or completed with nobody delivering);
  `SoleDeliverer`, that one request delivers, and only a completed answer.
* `Implements`: the refinement of `AnswerOnce`.

That a claim outlives its owner's request is part of the module (`OwnerGone`).

`Subscriptions_proofs`:

* `SubscriptionTypes`: `TypeOK` is inductive once the flushed writes of a transaction
  stay in range (`WritesKeepType`).
* `OrdersAreGrantedOnce`, `OrdersAreToldOnce`: `OrderInv`. The status of an order is
  re-read behind its lock: `OneAtATime` (no two requests behind the lock of one order,
  none told by two), `KnowsTheOrder` (behind the lock the order is not activated;
  who tells the student has activated it and is the first), `WorksForThePayer`,
  `GrantedOnce` (one term of its payer if the order is activated, none otherwise) and
  `TermsArePayers`.
* `TheNewestTermIsInForce`: `TermInv`, with `OneBehindTheSubject` (the subject's lock
  excludes) and `ReadIsCurrent` (the active term a request read behind it is still the
  one). **Hypothesis** `Overrides = 0`, as in the run: an operator's override writes a
  term it read without that lock, and may take the newest one out of force by design.
* `SubscriptionsImplementLedger`: the refinement of `SubscriptionLedger`: `Commit` is a
  grant or an activation of the abstract ledger, every other step a stutter, under the
  same hypothesis.

`AdminPanel_proofs`. No request holds a lock on what it read, so each invariant says
what a request still knows *unless* one of its `crossed` marks says it was overtaken.
Each action is first summarised in one lemma (`ChangeRoleDoes`, `SignInDoes`, ...), as
what it does to rows, counters and the audit log; the invariants are proved from the
summaries.

* `PanelTypes`: `TypeInv`, the types with `Typed`, what a request holds at each stage.
* `RightsEnd`: `RightsInv`, with `StillAllowed`: a request not crossed by a change of
  its operator's rights still has the right it was admitted with.
* `TheTeamKeepsASuperAdmin`: `SuperInv`, on top of `RightsInv`. There is no count of
  super admins in the code; one remains because only a super admin changes rights
  (`Guarded`) and nobody changes their own (`NotOneself`), so the caller is left -
  unless the caller had lost the right meanwhile, which `RightsInv` tells from the
  marks, or they disabled themselves under another spelling of their id (`SelfDisabled`).
  Before the first super admin `NeverHadOne` holds. `ActiveExist` and `Known` say that accounts of requests exist.
* `RevokedStaysRevoked`: `SessionInv`, with `FreshLogin` (a login under way counts the
  revocations it has seen; if it has seen them all, the password it read is the
  account's or is being replaced) and `OwnersExist`.
* `GuessesLock`: `CounterInv`. `Counted`, the counter of an account on which no two
  logins crossed is not behind the true number of guesses, and a free account is below
  the limit; `ReadTheCounter`, a request that will write the counter read it as it is,
  or was overtaken; `FreshAccount`.
* `OneVersionAnswers`: `ShelfInv`. `KnowsTheLive`, an activation nobody overtook has
  seen every live version but its own; so it leaves one. **Hypothesis**: a shelf opens
  with at most one active version.
* `TheTrailIsConnected`: `TrailInv`. The log is connected if every event's *after* is
  the next event's *before*: `EventIsTrue` (the last event about a field says what the
  field holds now) and `SeenIsTrue` (the *before* an uncrossed request will write is
  what the field holds).

`Study_proofs`; the theorems are stated of `Study`, which composes the desks. `NextByDesk` and a frame lemma per desk (`CardingLeaves`, ...) reduce a step
of the whole to a step of one.

* `KeptBytesAreAnsweredFor`, `PagesArePaidForOnce`: `FileInv`. Neither is inductive for
  what is in flight: `ReaderKnows` says what a reader between two steps may still rely
  on (its file is not due; a text it did not see was committed after it looked),
  `SweepIsSafe` that of a content a sweep will delete the rows of, nothing is kept but
  what was erased or a row that is not due answers for: one with an expiry (`FreshWords`),
  for bytes also one whose putting call has not committed (`FreshBytes`).
* `CardsShowTheirLog`: `CardInv`. `LogShows`, the last row of a card's log shows what
  the card does; the arithmetic of `Revision` is in `EaseStays` and `ScheduleStaysOne`
  (an ease stays in 130..300, an interval within a year).
* `MarksAlwaysAddUp`: `PaperInv`. A session holds nothing but a plan of the paper, and
  an answer that is recorded is to one of its questions, so that a second marking meets
  one it would mark again and is rolled back. Below it, `ReportsAddUp`: whatever was
  handed in and the model replies, a report has one row to a question
  (`EveryQuestionIsMarkedOnce`), none above what the question is worth
  (`MarksStayWithinTheQuestion`), and so the totals are those of the paper
  (`SumOfImage`, `SumIsMonotone`). Marks are whole numbers of parts of a hundredth, for
  every number of parts (`SumScales`), and a rounded total is within half a hundredth.
* `StudyTypes`: with `ClockOK`, `TaskInv` and `MemoryInv`.
* `IngestedDocumentsAreFound`: `LibraryInv`. `IsWhole` (the chunks of a source are all
  the passages of its document, with its owners and its model), `JobIsWhole` (the same
  of an ingestion that has not committed) and `PromiseKept`: the source an answer named
  is the one it was, or purged, because ids are not reused.
* `EvidenceIsForItsAsker`: `EvidenceInv`. The rows of a source are its own, one per
  place (`ChunksAreOwn`); a waiting search holds only what may still be shown
  (`SearchIsSound`), and `Shown` stays true of a list until a source is purged, since a
  deletion that comes later is dated later. Below it, the pure part: counting the rows
  ahead of a row is injective and leaves no place empty (`PlacesAreTaken`), so either
  search and their fusion are lists of different rows no longer than asked for
  (`KeywordsFind`, `ClosenessFinds`, `FusionFinds`); and what the prompt keeps never
  costs more than its share, whatever the units cost (`KeptFits`, by the least prefix
  that would not fit).
* `ToldIsEarned`, `PracticeIsAnotherProblem`: `ToldInv`, that what the student sees is
  nothing, the progress of topics as it was read, or `Outcome` of some sheet. The step
  is easy (counters only grow, so a topic weak on evidence stays so: `AttemptsOnlyGrow`);
  the work is in what each pure operator computes, one lemma to a promise (`Told...`):
  * twins: the eight offsets give eight problems no two of which have one answer
    (`AllEightAreTwins`), so the fold keeps them all and a batch is its first few;
  * verification: a verified answer has a claim about the unknown, and that claim solves
    the equation; a folded expression's exponents and factorials are within bounds;
  * notes and essays: a citation matched is a source that was supplied; what is quoted of
    an essay is cut to its share of the author's words;
  * papers: every type but the last is rounded down and the last takes the rest, so the
    parts make up the paper and none is negative (`PapersMakeUp`);
  * prompts: each section costs no more than its share and all of them no more than the
    window (`AllocatedFits`, over `KeptFits`);
  * documents: `SplitIsWhole`. Packing neither adds nor loses a unit, so a measure that
    grows by a unit and a gap is kept up to the gaps (`PackedMeasure`, used once for
    paragraphs and once for sentences, below and above), and a cut adds up to what is cut
    (`CutAddsUp`); the filter drops parts one by one (`LongEnoughOneByOne`), each short
    (`DroppedIsShort`), so what is lost is short for each of them (`LostIsShort`);
  * files: `FilesAreReadFrugally`. Pages are placed by counting those before them, which is
    injective where nothing ties (`SortedInOrder`), so a plan is of pages of the file, each
    once (`PlannedPages`, `StepsReadOnce`); local OCR and paid pages are counted along the
    plan (`LocalReadsAreFew`, `PaidPagesAreFew`), and only a page no free reader had is
    paid for (`HardPagesAreHard`). Below it, each way through `process` is frugal
    (`PdfIsFrugal`, `ImageIsFrugal`, `VoiceIsFrugal`, `QuietIsFrugal`).

A fold of the community modules is a `CHOOSE` of a function over all subsets of its
indices. `FoldExists` shows that there is one for every sequence of steps that stay in a
set, `LastIndex` that it takes the last index away; each operator's lemma (`...ByIndex`)
then turns its fold into a recurrence over `0 .. n`, and `UpToIndex` carries a fact along
it by the least index that would break it. This needs no induction theorem.

`RowsAssumption`, `PaperAssumption`, `RequestsAssumption`, `PassagesAssumption`,
`QuestionsAssumption` and `SheetsAssumption` (the column types, constraints and visibilities the code declares,
finitely many questions, passages and topics, marks and scores that are numbers) are assumptions of `Study` and
`Knowledge` that TLC evaluates on the run. `SheetsAssumption` says what each engine is handed in: a
problem as `parse_template` makes one (integers, a linear one with a coefficient that is not
zero), a batch of no more than the eight attempts (no caller changes the default of five),
claims that are not blank (`_items` drops them), paragraphs and sentences that are not empty
(the splitter drops them before), sizes that are natural numbers, an image that is one page without a text layer.

`TutorTurn_proofs`:

* `TurnsAreRationed`: `RationInv`. An answer may take `MaxAttempts` calls over a ladder
  of aliases, retried after a timeout only. `Calling` says how many calls a turn has
  made for the aliases it has left (the ceiling of a rung is `MaxAttempts` less the
  aliases left, so the calls left suffice for them) and that no refused call was
  repeated; `Verifying` and `Settling`, what of that survives the answer and the second
  opinion on it.
* `SpendStaysBounded`: `SpendInv`. A bound on what was paid is not inductive, since a
  turn that starts adds nothing yet. `Room` is the strengthening: what is recorded,
  plus a share for each turn that may still make a call the ceiling counts
  (`Concerned`), is at most `limit - 1 + perTurn * |Sessions|`. A turn that starts saw
  room in its snapshot (`RoomWasSeen`, from the gates of `decide` and the blocked
  vendors), so for it the bound holds whatever the others do; a turn that settles
  gives up its share and books no more than that (`TurnsShare`: at most three calls,
  the second for free or on another alias if the first was paid for and failed, the
  third to the verifier); rows only leave a window (`CountFalls`). What is unrecorded
  is at most the shares (`RoomIsEnough`). Assumed are at least one session, limits that
  are numbers or `NoLimit`, and a circuit of one failure or more.

`Sums` has the lemmas on sums over finite sets that this, `MarksAlwaysAddUp` and `PapersMakeUp` need: that a sum does not
depend on the order its elements are taken in nor on their names, is bounded, monotone,
and unchanged by elements of no weight. A fact about all finite sets is proved of a smallest set that
would refute it (`SmallestBad`), which needs no induction.

**Only model-checked**: all liveness, which is out of the prover's reach, and everything of the runs that end in a
counterexample. Every invariant and every action property that a passing run checks is a theorem.

## Not modelled, and why

* Drawing, symbolic solving and typesetting (`learning/visuals.py`,
  `mathsolver.py`, `mathrender.py`): calls of drawing and algebra libraries, with no
  state; `services/artifacts.py` stores their pictures once.
* What a library measures of bytes or a vendor returns of a text: constants of a
  file, a page, a passage or a question, over which the operators are checked.
* The read-only pages (`overview.py`, searches, payments), the Cashfree and
  WhatsApp HTTP clients but for what they acknowledge, configuration and logging,
  migrations, the two web apps, Terraform.
* `services/tutors.py` and `services/entitlements.py` read rows whose writers are
  modelled; their results are inputs of `EntryService` and `Budgeting`. A term that
  runs out while a turn is under way is therefore not modelled.
* Three reads that change nothing: the order memories are listed in, the comparison of
  two models' answers, and what is said of a cleaned photo.
* The composition of the desks: no table is shared, so none is needed.

`PROJECT.json` has the reason for each component.

## Plan

Done: the media pipeline and its jobs, files and retention, subscriptions, the
entry service, the turn and its budget, the admin panel, the learning engine,
the knowledge base; the theorems of every component.

Left: an abstract specification of the knowledge base (a set of readable passages) and the
refinement; the hazards of `PROJECT.json` that no property covers, each with its reason.
