------------------------------ MODULE MediaJobs ------------------------------
(***************************************************************************)
(* How an attachment becomes an answer.                                     *)
(*                                                                          *)
(* A request (EntryService TX1) runs MediaPipeline.intake: it gates the     *)
(* attachment, inserts one job row and hands the job's id to the task queue *)
(* before the transaction commits.  The queue POSTs /internal/jobs/run; a   *)
(* worker claims the row in one transaction, fetches with none open, reads  *)
(* the file in a second one and then answers the student.  A job's id is    *)
(* the request that inserted it, so a queue entry whose insert was rolled   *)
(* back names a row that never exists.                                      *)
(*                                                                          *)
(* `Serverless` selects the deployment: Cloud Tasks (a failed delivery is   *)
(* repeated, deliveries may overlap, containers die one at a time) or       *)
(* InProcessTaskQueue (one dispatch, everything dies together, job_sweep    *)
(* runs at start-up).                                                       *)
(***************************************************************************)
EXTENDS MediaStates

CONSTANTS
  Students,       \* subjects
  Media,          \* attachments, numbered in order of created_at
  Owner,          \* [Media -> Students]
  Contents,       \* sha256 values
  ContentOf,      \* [Media -> Contents]
  Pages,          \* page numbers; a photo and a voice note have the one page 1
  Planned,        \* [Media -> SUBSET Pages]: the pages plan_extraction picks for the brief
  Voice,          \* the attachments that are voice notes
  Requests,       \* inbound messages, each one run of EntryService
  Workers,        \* concurrent executions of run_job
  Serverless,     \* TRUE: Cloud Tasks.  FALSE: InProcessTaskQueue
  PolicyMax,      \* retry_policy.MEDIA_EXTRACT.max_attempts, also jobs.max_attempts
  Ceiling,        \* settings.heavy_job_max_concurrency
  MaxVisionPages, \* limits.max_vision_pages: paid pages of one delivery
  DispatchTries,  \* Cloud Tasks max_attempts, or DISPATCH_ATTEMPTS
  MaxCrashes,     \* bound on crashes and swallowed answer failures
  MaxOps          \* bound on operator actions

ASSUME MediaJobsAssumption ==
  /\ Media \subseteq Nat /\ Media # {}
  /\ Requests # {}
  /\ Owner \in [Media -> Students]
  /\ ContentOf \in [Media -> Contents]
  /\ Planned \in [Media -> SUBSET Pages]
  /\ Voice \subseteq Media
  /\ \A m \in Voice : Planned[m] \subseteq {1}
  /\ MaxVisionPages \in Nat
  /\ Serverless \in BOOLEAN
  /\ PolicyMax \in Nat \ {0}
  /\ Ceiling \in Nat \ {0}
  /\ DispatchTries \in Nat \ {0}
  /\ MaxCrashes \in Nat
  /\ MaxOps \in Nat

VARIABLES
  media,       \* committed media_objects.state, ABSENT before the first commit
  windowOpen,  \* created_at is within BRIEF_WAIT_WINDOW
  job,         \* committed jobs rows, by the request that inserted them
  tasks,       \* queue entries: dispatch tries left per job id, 0 = none
  req,         \* the requests and their uncommitted TX1
  wk,          \* the workers
  op,          \* one operator on the admin console
  stored,      \* committed extraction rows, by subject, sha256 and page
  fetched,     \* attachments whose bytes have been downloaded
  ledger,      \* committed usage_ledger rows of successful paid readings: how
               \* many of each attachment's page that left words, and did not
  bill,        \* attachments with a paid reading the provider will charge for
  told,        \* what the student has been sent about the attachment
  runs,        \* how many times a worker has claimed the job
  crashes,
  ops

worker  == <<wk, fetched, bill, runs>>
history == <<crashes, ops>>
vars == <<media, windowOpen, job, tasks, req, wk, op, stored, fetched, ledger,
          bill, told, runs, crashes, ops>>

JobState == {"ABSENT", "PENDING", "RUNNING", "SUCCEEDED", "FAILED",
             "FAILED_PERMANENT", "CANCELLED"}

NoJob == [state |-> "ABSENT", attempts |-> 0, max |-> PolicyMax,
          due |-> TRUE, stale |-> FALSE]

\* A paid reading of a page, and whether it left words to keep.
Charge == Pages \X BOOLEAN

\* Mutant: a state the column does not know.
NewJobMisnamed == [NoJob EXCEPT !.state = "QUEUED"]

NewJob == [NoJob EXCEPT !.state = "PENDING"]

IdleWorker == [pc |-> "idle", j |-> CHOOSE r \in Requests : TRUE, tries |-> 0,
               snap |-> NoJob, busy |-> FALSE, permit |-> FALSE,
               target |-> "ABSENT", paid |-> {}, keep |-> {}]

IdleOp == [pc |-> "idle", j |-> CHOOSE r \in Requests : TRUE, kind |-> "retry",
           snap |-> NoJob]

Init ==
  /\ media = [m \in Media |-> "ABSENT"]
  /\ windowOpen = [m \in Media |-> TRUE]
  /\ job = [r \in Requests |-> NoJob]
  /\ tasks = [r \in Requests |-> 0]
  /\ req = [r \in Requests |->
              [pc |-> "idle", m |-> CHOOSE m \in Media : TRUE, target |-> "ABSENT",
               writes |-> FALSE, creates |-> FALSE, briefed |-> FALSE, allowed |-> FALSE]]
  /\ wk = [w \in Workers |-> IdleWorker]
  /\ op = IdleOp
  /\ stored = {}
  /\ fetched = {}
  /\ ledger = [m \in Media |-> [e \in Charge |-> 0]]
  /\ bill = {}
  /\ told = [m \in Media |-> "nothing"]
  /\ runs = [r \in Requests |-> 0]
  /\ crashes = 0
  /\ ops = 0

-----------------------------------------------------------------------------
(* Intake: TX1 of one request.                                              *)

\* upsert_subject updates the student's row, so TX1 of a second message of
\* the same student waits until the first commits or rolls back.
TxOpen(s) == \E r \in Requests : req[r].pc = "open" /\ Owner[req[r].m] = s

\* Mutant: the brief gate is gone.
IntakeTargetUngated(s, briefed, allowed) ==
  IF s \notin {"ABSENT", "WAITING_FOR_BRIEF"} THEN s
  ELSE IF ~allowed THEN "REJECTED" ELSE "FETCH_QUEUED"

\* Mutant: a redelivered message restarts the pipeline.
IntakeTargetRestarts(s, briefed, allowed) ==
  IF ~allowed THEN "REJECTED" ELSE IF ~briefed THEN "WAITING_FOR_BRIEF" ELSE "FETCH_QUEUED"

\* MediaPipeline.intake on a row in state s: what the transaction leaves.
\* briefed: has_brief, or a voice note.  allowed: within the daily allowance.
IntakeTarget(s, briefed, allowed) ==
  IF s \notin {"ABSENT", "WAITING_FOR_BRIEF"} THEN s   \* replay
  ELSE IF ~allowed THEN "REJECTED"
  ELSE IF ~briefed THEN "WAITING_FOR_BRIEF"
  ELSE "FETCH_QUEUED"

\* The job inserted by the intake of m has been committed.
HasJob(m) == \E r \in Requests : job[r].state # "ABSENT" /\ req[r].m = m

\* Gate the attachment, insert the job (on conflict do nothing), hand its id
\* to the queue, and send the reply - all before the commit.
Intake(r, m, briefed, allowed) ==
  LET target  == IntakeTarget(media[m], briefed, allowed)
      creates == target = "FETCH_QUEUED" /\ media[m] # target /\ ~HasJob(m)
  IN  /\ req[r].pc = "idle"
      /\ ~TxOpen(Owner[m])
      /\ req' = [req EXCEPT ![r] =
                   [pc |-> "open", m |-> m, target |-> target,
                    writes |-> target # media[m], creates |-> creates,
                    briefed |-> briefed, allowed |-> allowed]]
      /\ tasks' = IF creates THEN [tasks EXCEPT ![r] = DispatchTries] ELSE tasks
      /\ told' = IF creates /\ told[m] = "nothing"
                 THEN [told EXCEPT ![m] = "promised"] ELSE told
      /\ UNCHANGED <<media, windowOpen, job, op, stored, ledger, worker, history>>

\* A message carrying an attachment: new, or one already on file.
ReceiveMedia(r, m) ==
  /\ \A n \in Media : n < m => \/ media[n] # "ABSENT"
                               \/ \E q \in Requests : req[q].pc # "idle" /\ req[q].m = n
  /\ \E briefed, allowed \in BOOLEAN : Intake(r, m, briefed, allowed)

\* A text message taken as the brief of the newest attachment still waiting.
SendBrief(r, m) ==
  LET waiting == {n \in Media : /\ Owner[n] = Owner[m]
                                /\ media[n] = "WAITING_FOR_BRIEF"
                                /\ windowOpen[n]}
  IN  /\ m \in waiting
      /\ \A n \in waiting : n <= m
      /\ \E allowed \in BOOLEAN : Intake(r, m, TRUE, allowed)

\* The plan gate of TX1: answered with an upgrade prompt, intake never runs.
RefuseUnentitled(r) ==
  /\ req[r].pc = "idle"
  /\ req' = [req EXCEPT ![r].pc = "done"]
  /\ UNCHANGED <<media, windowOpen, job, tasks, op, stored, ledger, told, worker, history>>

IntakeCommit(r) ==
  /\ req[r].pc = "open"
  /\ req' = [req EXCEPT ![r].pc = "done"]
  /\ media' = IF req[r].writes THEN [media EXCEPT ![req[r].m] = req[r].target] ELSE media
  /\ job' = IF req[r].creates THEN [job EXCEPT ![r] = NewJob] ELSE job
  /\ UNCHANGED <<windowOpen, tasks, op, stored, ledger, told, worker, history>>

\* Any exception, or the death of the container, before the commit.
IntakeRollback(r) ==
  /\ req[r].pc = "open"
  /\ req' = [req EXCEPT ![r].pc = "done"]
  /\ UNCHANGED <<media, windowOpen, job, tasks, op, stored, ledger, told, worker, history>>
-----------------------------------------------------------------------------
(* Deliveries and the claim: the first transaction of run_job.              *)

Settled == {"SUCCEEDED", "FAILED_PERMANENT"}

\* Mutant: only the row's own limit, which an operator can raise.
ExhaustedByRowOnly(row) == row.attempts >= row.max

\* RetryPolicy.exhausted, or the row's limit.
Exhausted(row) == row.attempts >= PolicyMax \/ row.attempts >= row.max

InFlight == Cardinality({j \in Requests : job[j].state = "RUNNING" /\ ~job[j].stale})

\* Mutant: the in-process queue keeps what it has sent.
TakeTaskKeeps(j) == tasks

\* An in-process dispatch leaves the queue when it is sent; a Cloud Task stays
\* until a delivery of it is acknowledged, so a second one may overlap it.
TakeTask(j) == IF Serverless THEN tasks ELSE [tasks EXCEPT ![j] = 0]

\* A 2xx answer removes the entry.
Ack(j) == [tasks EXCEPT ![j] = 0]

\* Anything else uses up one Cloud Tasks attempt.
Nack(j) == [tasks EXCEPT ![j] = IF @ > 0 THEN @ - 1 ELSE 0]

\* NOT_FOUND and "already settled" are both answered 200.
DeliverToNothing(w, j) ==
  /\ wk[w].pc = "idle"
  /\ tasks[j] > 0
  /\ job[j].state \in Settled \cup {"ABSENT"}
  /\ tasks' = Ack(j)
  /\ UNCHANGED <<media, windowOpen, job, req, op, stored, ledger, told, worker, history>>

\* Load the row and count the jobs in flight; nothing is locked.
Deliver(w, j) ==
  /\ wk[w].pc = "idle"
  /\ tasks[j] > 0
  /\ job[j].state \notin Settled \cup {"ABSENT"}
  /\ wk' = [wk EXCEPT ![w] = [IdleWorker EXCEPT !.pc = "loaded", !.j = j,
                                !.tries = tasks[j], !.snap = job[j],
                                !.busy = InFlight >= Ceiling]]
  /\ tasks' = TakeTask(j)
  /\ UNCHANGED <<media, windowOpen, job, req, op, stored, fetched, ledger, bill,
                 told, runs, history>>

Idle(w) == wk' = [wk EXCEPT ![w] = IdleWorker]

\* Out of attempts: 200.
GiveUp(w) ==
  /\ wk[w].pc = "loaded"
  /\ Exhausted(wk[w].snap)
  /\ job' = [job EXCEPT ![wk[w].j].state = "FAILED_PERMANENT", ![wk[w].j].stale = FALSE]
  /\ tasks' = Ack(wk[w].j)
  /\ Idle(w)
  /\ UNCHANGED <<media, windowOpen, req, op, stored, fetched, ledger, bill, told, runs, history>>

\* The fleet is at its ceiling: 429, the row is not touched.  Only a 429 makes
\* the in-process queue dispatch again.
Defer(w) ==
  /\ wk[w].pc = "loaded"
  /\ ~Exhausted(wk[w].snap)
  /\ wk[w].busy
  /\ tasks' = IF Serverless THEN Nack(wk[w].j)
              ELSE [tasks EXCEPT ![wk[w].j] = wk[w].tries - 1]
  /\ Idle(w)
  /\ UNCHANGED <<media, windowOpen, job, req, op, stored, fetched, ledger, bill, told, runs, history>>

\* attempts := the value read, plus one.  The ORM writes the columns that
\* differ from what it read, so a row read as RUNNING keeps the state it has.
Claim(w) ==
  LET j == wk[w].j IN
  /\ wk[w].pc = "loaded"
  /\ ~Exhausted(wk[w].snap)
  /\ ~wk[w].busy
  /\ job' = [job EXCEPT ![j].attempts = wk[w].snap.attempts + 1,
                        ![j].state = IF wk[w].snap.state = "RUNNING" THEN @ ELSE "RUNNING",
                        ![j].stale = FALSE]
  /\ runs' = [runs EXCEPT ![j] = @ + 1]
  /\ wk' = [wk EXCEPT ![w].pc = "claimed"]
  /\ UNCHANGED <<media, windowOpen, tasks, req, op, stored, fetched, ledger, bill, told, history>>
-----------------------------------------------------------------------------
(* Processing: the second transaction of run_job and MediaPipeline.process. *)

MediaOf(w) == req[wk[w].j].m

\* process() refuses any attachment that is not queued for its fetch.
CanProcess(s) == s \in {"FETCH_QUEUED", "FETCHED"}

\* A worker that has flushed an UPDATE of the row holds its lock until commit.
RowLocked(m) == \E w \in Workers : wk[w].pc \in {"extracting", "writing"} /\ MediaOf(w) = m

\* Read the attachment and the entitlement, then close the transaction.
LoadMedia(w) ==
  /\ wk[w].pc = "claimed"
  /\ \E permit \in BOOLEAN :
       wk' = [wk EXCEPT ![w].permit = permit,
                        ![w].pc = IF CanProcess(media[MediaOf(w)])
                                  THEN "fetching" ELSE "refused"]
  /\ UNCHANGED <<media, windowOpen, job, tasks, req, op, stored, fetched, ledger,
                 bill, told, runs, history>>

\* MediaNotFound: the reference expired at the channel.
FetchFindsNothing(w) ==
  /\ wk[w].pc = "fetching"
  /\ wk' = [wk EXCEPT ![w].pc = "settling", ![w].target = "FAILED"]
  /\ UNCHANGED <<media, windowOpen, job, tasks, req, op, stored, fetched, ledger,
                 bill, told, runs, history>>

\* Download, validate, and store the blob of a valid file.
Fetch(w) ==
  /\ wk[w].pc = "fetching"
  /\ fetched' = fetched \cup {MediaOf(w)}
  /\ \/ wk' = [wk EXCEPT ![w].pc = "settling", ![w].target = "REJECTED"]
     \/ wk' = [wk EXCEPT ![w].pc = "flushing", ![w].target = "READY_FOR_CAPABILITY"]
  /\ UNCHANGED <<media, windowOpen, job, tasks, req, op, stored, ledger, bill,
                 told, runs, history>>

\* Mutant: transition() no longer flushes, the UPDATE is left to the commit.
RecordFetchedUnflushed(w) ==
  /\ wk[w].pc = "flushing"
  /\ wk' = [wk EXCEPT ![w].pc = "extracting"]
  /\ UNCHANGED <<media, windowOpen, job, tasks, req, op, stored, fetched, ledger,
                 bill, told, runs, history>>

\* record_fetched: the first UPDATE of the row, which waits for its lock.
RecordFetched(w) ==
  /\ wk[w].pc = "flushing"
  /\ ~RowLocked(MediaOf(w))
  /\ wk' = [wk EXCEPT ![w].pc = "extracting"]
  /\ UNCHANGED <<media, windowOpen, job, tasks, req, op, stored, fetched, ledger,
                 bill, told, runs, history>>

\* The row of the extraction cache for a page of an attachment.
CacheKey(m, p) == <<Owner[m], ContentOf[m], p>>

\* The planned pages no committed row answers for.
Remaining(m) == {p \in Planned[m] : CacheKey(m, p) \notin stored}

\* Read the pages the cache does not hold: locally for nothing, or with a paid
\* call each, up to the cap and while the student is entitled; what neither
\* reads is left out and not stored.  A successful reading leaves a row, but
\* for a transcription without words.
Extract(w) ==
  LET m == MediaOf(w) IN
  /\ wk[w].pc = "extracting"
  /\ \E keep, charged \in SUBSET Remaining(m) :
       /\ charged # {} => wk[w].permit
       /\ Cardinality(charged) <= MaxVisionPages
       /\ m \notin Voice => charged \subseteq keep
       /\ wk' = [wk EXCEPT ![w].pc = "writing",
                           ![w].paid = {<<p, p \in keep>> : p \in charged},
                           ![w].keep = keep]
       /\ bill' = IF charged = {} THEN bill ELSE bill \cup {m}
  /\ UNCHANGED <<media, windowOpen, job, tasks, req, op, stored, fetched, ledger,
                 told, runs, history>>

\* An encrypted or oversized PDF is refused after validation.
RejectPdf(w) ==
  /\ wk[w].pc = "extracting"
  /\ wk' = [wk EXCEPT ![w].pc = "writing", ![w].target = "REJECTED"]
  /\ UNCHANGED <<media, windowOpen, job, tasks, req, op, stored, fetched, ledger,
                 bill, told, runs, history>>

\* The second transaction commits: attachment, extraction, ledger, job.
Finish(w) ==
  LET m == MediaOf(w) IN
  /\ \/ wk[w].pc \in {"writing", "refused"}
     \/ wk[w].pc = "settling" /\ ~RowLocked(m)
  /\ media' = IF wk[w].pc = "refused" THEN media ELSE [media EXCEPT ![m] = wk[w].target]
  /\ stored' = stored \cup {CacheKey(m, p) : p \in wk[w].keep}
  /\ ledger' = [ledger EXCEPT ![m] =
                  [e \in Charge |->
                     IF e \in wk[w].paid THEN ledger[m][e] + 1 ELSE ledger[m][e]]]
  /\ job' = [job EXCEPT ![wk[w].j].state = "SUCCEEDED", ![wk[w].j].stale = FALSE]
  /\ wk' = [wk EXCEPT ![w].pc = "answering"]
  /\ UNCHANGED <<windowOpen, tasks, req, op, fetched, bill, told, runs, history>>

\* Mutant: a failed answer fails the job.
RaisingWhileAnswering == {"claimed", "fetching", "settling", "flushing", "extracting",
                          "writing", "refused", "answering"}

\* Where an exception is caught by the handler of the second transaction.
Raising == {"claimed", "fetching", "settling", "flushing", "extracting", "writing", "refused"}

Raise(w) ==
  /\ wk[w].pc \in Raising
  /\ wk' = [wk EXCEPT ![w].pc = "failing"]
  /\ UNCHANGED <<media, windowOpen, job, tasks, req, op, stored, fetched, ledger,
                 bill, told, runs, history>>

\* Mutant: 200 on a transient failure.
AcksFailureAlways(attempt) == TRUE

\* 503 asks for another delivery, 200 stops it.
AcksFailure(attempt) == attempt >= PolicyMax

RecordFailure(w) ==
  LET j == wk[w].j IN
  /\ wk[w].pc = "failing"
  /\ job' = [job EXCEPT ![j].state = IF job[j].attempts >= PolicyMax
                                     THEN "FAILED_PERMANENT" ELSE "FAILED",
                        ![j].due = IF job[j].attempts >= PolicyMax THEN @ ELSE FALSE,
                        ![j].stale = FALSE]
  /\ tasks' = IF AcksFailure(wk[w].snap.attempts + 1) THEN Ack(j) ELSE Nack(j)
  /\ Idle(w)
  /\ UNCHANGED <<media, windowOpen, req, op, stored, fetched, ledger, bill, told, runs, history>>

\* _answer_from_media / _send_enhanced_image, outside any transaction.
Answer(w) ==
  /\ wk[w].pc = "answering"
  /\ told' = [told EXCEPT ![MediaOf(w)] = "answered"]
  /\ tasks' = Ack(wk[w].j)
  /\ Idle(w)
  /\ UNCHANGED <<media, windowOpen, job, req, op, stored, fetched, ledger, bill, runs, history>>

\* The answer raised; the exception is logged and the job stays SUCCEEDED.
AnswerSwallowed(w) ==
  /\ wk[w].pc = "answering"
  /\ crashes < MaxCrashes
  /\ crashes' = crashes + 1
  /\ tasks' = Ack(wk[w].j)
  /\ Idle(w)
  /\ UNCHANGED <<media, windowOpen, job, req, op, stored, fetched, ledger, bill, told, runs, ops>>
-----------------------------------------------------------------------------
(* Crashes, the start-up sweep, the clock and the operator.                 *)

\* find_resumable_jobs
Resumable(row) ==
  /\ row.attempts < row.max
  /\ \/ row.state = "PENDING" /\ row.due
     \/ row.state = "FAILED" /\ row.due
     \/ row.state = "RUNNING" /\ row.stale

\* A container dies; Cloud Tasks counts the attempt.
WorkerCrash(w) ==
  /\ Serverless
  /\ wk[w].pc # "idle"
  /\ crashes < MaxCrashes
  /\ crashes' = crashes + 1
  /\ tasks' = Nack(wk[w].j)
  /\ Idle(w)
  /\ UNCHANGED <<media, windowOpen, job, req, op, stored, fetched, ledger, bill, told, runs, ops>>

\* The server restarts: requests, workers, operator and the in-memory queue
\* are gone, and job_sweep.sweep dispatches before the first request.
Restart ==
  /\ ~Serverless
  /\ crashes < MaxCrashes
  /\ crashes' = crashes + 1
  /\ wk' = [w \in Workers |-> IdleWorker]
  /\ req' = [r \in Requests |->
               IF req[r].pc = "open" THEN [req[r] EXCEPT !.pc = "done"] ELSE req[r]]
  /\ op' = IdleOp
  /\ tasks' = [j \in Requests |-> IF Resumable(job[j]) THEN DispatchTries ELSE 0]
  /\ UNCHANGED <<media, windowOpen, job, stored, fetched, ledger, bill, told, runs, ops>>

\* updated_at falls behind STALE_RUNNING_AFTER.
GoStale(j) ==
  /\ job[j].state = "RUNNING"
  /\ ~job[j].stale
  /\ job' = [job EXCEPT ![j].stale = TRUE]
  /\ UNCHANGED <<media, windowOpen, tasks, req, op, stored, ledger, told, worker, history>>

\* next_retry_at is reached.
FallDue(j) ==
  /\ ~job[j].due
  /\ job' = [job EXCEPT ![j].due = TRUE]
  /\ UNCHANGED <<media, windowOpen, tasks, req, op, stored, ledger, told, worker, history>>

\* BRIEF_WAIT_WINDOW passes.
CloseWindow(m) ==
  /\ media[m] = "WAITING_FOR_BRIEF"
  /\ windowOpen[m]
  /\ windowOpen' = [windowOpen EXCEPT ![m] = FALSE]
  /\ UNCHANGED <<media, job, tasks, req, op, stored, ledger, told, worker, history>>

Retryable   == {"FAILED", "FAILED_PERMANENT", "PENDING"}
Cancellable == {"PENDING", "FAILED"}

\* POST /admin/jobs/{id}/retry and /cancel load the row without a lock ...
OperatorReads(kind, j) ==
  /\ op.pc = "idle"
  /\ ops < MaxOps
  /\ job[j].state \in IF kind = "retry" THEN Retryable ELSE Cancellable
  /\ op' = [pc |-> "read", j |-> j, kind |-> kind, snap |-> job[j]]
  /\ ops' = ops + 1
  /\ UNCHANGED <<media, windowOpen, job, tasks, req, stored, ledger, told, worker, crashes>>

\* ... and write it later.  Neither dispatches anything.
OperatorRetries ==
  LET j == op.j IN
  /\ op.pc = "read"
  /\ op.kind = "retry"
  /\ job' = [job EXCEPT ![j].state = IF op.snap.state = "PENDING" THEN @ ELSE "PENDING",
                        ![j].due = TRUE,
                        ![j].stale = FALSE,
                        ![j].max = IF op.snap.attempts >= op.snap.max
                                   THEN op.snap.attempts + 1 ELSE @]
  /\ op' = IdleOp
  /\ UNCHANGED <<media, windowOpen, tasks, req, stored, ledger, told, worker, history>>

OperatorCancels ==
  /\ op.pc = "read"
  /\ op.kind = "cancel"
  /\ job' = [job EXCEPT ![op.j].state = "CANCELLED", ![op.j].stale = FALSE]
  /\ op' = IdleOp
  /\ UNCHANGED <<media, windowOpen, tasks, req, stored, ledger, told, worker, history>>
-----------------------------------------------------------------------------
Work(w) ==
  \/ GiveUp(w) \/ Defer(w) \/ Claim(w) \/ LoadMedia(w)
  \/ FetchFindsNothing(w) \/ Fetch(w) \/ RecordFetched(w)
  \/ Extract(w) \/ RejectPdf(w) \/ Finish(w)
  \/ RecordFailure(w) \/ Answer(w)

Next ==
  \/ \E r \in Requests, m \in Media : ReceiveMedia(r, m) \/ SendBrief(r, m)
  \/ \E r \in Requests : RefuseUnentitled(r) \/ IntakeCommit(r) \/ IntakeRollback(r)
  \/ \E w \in Workers, j \in Requests : DeliverToNothing(w, j) \/ Deliver(w, j)
  \/ \E w \in Workers : Work(w) \/ Raise(w) \/ AnswerSwallowed(w) \/ WorkerCrash(w)
  \/ Restart
  \/ \E j \in Requests : GoStale(j) \/ FallDue(j)
  \/ \E m \in Media : CloseWindow(m)
  \/ \E kind \in {"retry", "cancel"}, j \in Requests : OperatorReads(kind, j)
  \/ OperatorRetries \/ OperatorCancels

Spec == Init /\ [][Next]_vars

\* A running handler proceeds, the queue delivers what it holds, and a row
\* nobody touches grows old.  Nothing makes a message or a crash happen.
Fairness ==
  /\ \A r \in Requests : WF_vars(IntakeCommit(r) \/ IntakeRollback(r))
  /\ \A w \in Workers : WF_vars(Work(w))
  /\ \A j \in Requests : /\ WF_vars(\E w \in Workers : DeliverToNothing(w, j) \/ Deliver(w, j))
                         /\ WF_vars(GoStale(j))
                         /\ WF_vars(FallDue(j))

FairSpec == Spec /\ Fairness
-----------------------------------------------------------------------------
(* Properties.                                                              *)

WorkerPC == {"idle", "loaded", "claimed", "refused", "fetching", "settling", "flushing",
             "extracting", "writing", "failing", "answering"}

Row == [state : JobState, attempts : Nat, max : Nat, due : BOOLEAN, stale : BOOLEAN]

RequestRow == [pc : {"idle", "open", "done"}, m : Media, target : MediaState \cup {"ABSENT"},
               writes : BOOLEAN, creates : BOOLEAN, briefed : BOOLEAN, allowed : BOOLEAN]

WorkerRow == [pc : WorkerPC, j : Requests, tries : Nat, snap : Row, busy : BOOLEAN,
              permit : BOOLEAN, paid : SUBSET Charge, keep : SUBSET Pages,
              target : MediaState \cup {"ABSENT"}]

CacheRow == Students \X Contents \X Pages

LedgerRow == [Charge -> Nat]

OpRow == [pc : {"idle", "read"}, j : Requests, kind : {"retry", "cancel"}, snap : Row]

\* Every variable has its type.
TypeOK ==
  /\ media \in [Media -> MediaState \cup {"ABSENT"}]
  /\ windowOpen \in [Media -> BOOLEAN]
  /\ job \in [Requests -> Row]
  /\ tasks \in [Requests -> Nat]
  /\ req \in [Requests -> RequestRow]
  /\ wk \in [Workers -> WorkerRow]
  /\ op \in OpRow
  /\ stored \subseteq CacheRow
  /\ fetched \subseteq Media
  /\ ledger \in [Media -> LedgerRow]
  /\ bill \subseteq Media
  /\ told \in [Media -> {"nothing", "promised", "answered"}]
  /\ runs \in [Requests -> Nat]
  /\ crashes \in Nat
  /\ ops \in Nat

\* The cost gate.  Not a byte is downloaded and nothing is paid for unless a
\* committed message passed the allowance and carried a brief - although the
\* queue hears of the job before that message commits, and even if it never
\* does.
PaidWorkIsGated ==
  \A m \in Media : m \in fetched \cup bill =>
    \E r \in Requests : /\ job[r].state # "ABSENT"
                        /\ req[r].m = m
                        /\ req[r].briefed
                        /\ req[r].allowed

\* The workers that run a job.
Handling(j) == {w \in Workers : wk[w].pc # "idle" /\ wk[w].j = j}

\* On a server deployment a job is never in two hands: one queue entry or one
\* worker, never both, through deferrals, restarts and sweeps.
SingleExecutor ==
  ~Serverless => \A j \in Requests :
    /\ tasks[j] > 0 => Handling(j) = {}
    /\ \A v, w \in Handling(j) : v = w

\* The row itself refuses after N attempts (retry_policy.py), whatever the
\* queue, the sweep and an operator's retries do.
RowRefusesAfterN == \A j \in Requests : runs[j] <= PolicyMax

\* ... which a server deployment keeps, because no two workers share a job.
ServerRowRefusesAfterN == ~Serverless => RowRefusesAfterN

\* A committed attachment only moves along _ALLOWED: no replay, no second
\* delivery and no late worker takes it back or out of a terminal state.
MovesAreAllowed ==
  \A m \in Media : media'[m] # media[m] =>
    \/ media[m] = "ABSENT" /\ Reaches("RECEIVED_REFERENCE", media'[m])
    \/ media[m] # "ABSENT" /\ Reaches(media[m], media'[m])

\* ... on a server deployment, where a job has one worker.
ServerOnlyAllowedMoves == [][~Serverless => MovesAreAllowed]_vars

\* SUCCEEDED is never left, but by an operator's write ...
SuccessStays ==
  \A j \in Requests : job[j].state = "SUCCEEDED" /\ op' = op => job'[j].state = "SUCCEEDED"

\* ... on a server deployment: deferral, restart and sweep do not reopen it.
ServerFinishedStays == [][~Serverless => SuccessStays]_vars

\* The words of a page are paid for once.  Deliveries overlap, each pays for
\* at most MaxVisionPages pages and a later one pays for those an earlier one
\* left; but it waits for the row and looks every page up before it pays, so
\* no attachment is charged to the ledger twice for a page that left words.
\* (A transcription without words leaves no row, and is paid for again.)
LedgerChargesOnce == \A m \in Media, p \in Pages : ledger[m][<<p, TRUE>>] <= 1

\* A delivery of the job is turned away at the ceiling, or two overlap.
Contended(j) ==
  \/ \E w \in Handling(j) : wk[w].pc = "loaded" /\ wk[w].busy
  \/ \E v, w \in Handling(j) : v # w

Over(j) == job[j].state \in Settled \cup {"CANCELLED"}

\* The queue has no try left and nobody works on the job.
Abandoned(j) == /\ tasks[j] = 0
                /\ Handling(j) = {}
                /\ job[j].state \in {"PENDING", "FAILED"}

\* With nothing crashing, a committed job that enters the queue is worked
\* until it is settled or cancelled, unless a 429 or an overlapping delivery
\* takes tries from it; and no job the queue holds is left RUNNING - it is
\* over, or it waits in a state the sweep selects for an entry it has lost.
HeldJobsSettle ==
  \A j \in Requests :
    /\ (tasks[j] = DispatchTries /\ job[j].state # "ABSENT") ~> (Over(j) \/ Contended(j))
    /\ (tasks[j] > 0 /\ job[j].state # "ABSENT") ~> (Over(j) \/ Abandoned(j))
-----------------------------------------------------------------------------
(* What a comment in the code says of it and the code does not do.          *)

\* "An operator retrying an exhausted job means 'give it one more'"
\* (admin retry_job): a job is not given up while it has attempts left.
RetriedJobsAreTried ==
  [][\A w \in Workers : GiveUp(w) => wk[w].snap.attempts >= wk[w].snap.max]_vars
=============================================================================
