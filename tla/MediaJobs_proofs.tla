--------------------------- MODULE MediaJobs_proofs ---------------------------
(***************************************************************************)
(* MediaJobs for any number of students, attachments, messages and workers. *)
(***************************************************************************)
EXTENDS MediaJobs, TLAPS

USE MediaJobsAssumption

LEMMA Chosen == /\ (CHOOSE r \in Requests : TRUE) \in Requests
                /\ (CHOOSE m \in Media : TRUE) \in Media
  OBVIOUS

LEMMA Constants == /\ NoJob \in Row
                   /\ NewJob \in Row
                   /\ PolicyMax \in Nat
                   /\ DispatchTries \in Nat
  BY DEF NoJob, NewJob, Row, JobState

LEMMA IdleTypes == IdleWorker \in WorkerRow /\ IdleOp \in OpRow
  BY Chosen, Constants DEF IdleWorker, IdleOp, WorkerPC, WorkerRow, OpRow

\* The states a worker writes.
LEMMA Targets == {"FAILED", "REJECTED", "READY_FOR_CAPABILITY"} \subseteq MediaState
  BY DEF MediaState

\* A worker's steps keep its record's type.
LEMMA WorkerUpdates ==
  ASSUME wk \in [Workers -> WorkerRow], NEW w \in Workers, NEW p \in WorkerPC,
         NEW t \in MediaState, NEW a \in SUBSET Charge, NEW b \in SUBSET Pages
  PROVE  /\ [wk EXCEPT ![w].pc = p] \in [Workers -> WorkerRow]
         /\ [wk EXCEPT ![w].pc = p, ![w].target = t] \in [Workers -> WorkerRow]
         /\ [wk EXCEPT ![w].pc = p, ![w].paid = a, ![w].keep = b] \in [Workers -> WorkerRow]
<1>1. [wk[w] EXCEPT !.pc = p] \in WorkerRow
  BY DEF WorkerRow
<1>2. [wk[w] EXCEPT !.pc = p, !.target = t] \in WorkerRow
  BY DEF WorkerRow
<1>3. [wk[w] EXCEPT !.pc = p, !.paid = a, !.keep = b] \in WorkerRow
  BY DEF WorkerRow
<1>4. [wk EXCEPT ![w].pc = p] \in [Workers -> WorkerRow]
  BY <1>1
<1>5. [wk EXCEPT ![w].pc = p, ![w].target = t] \in [Workers -> WorkerRow]
  BY <1>2 DEF WorkerRow
<1>6. [wk EXCEPT ![w].pc = p, ![w].paid = a, ![w].keep = b] \in [Workers -> WorkerRow]
  BY <1>3 DEF WorkerRow
<1> QED BY <1>4, <1>5, <1>6

\* What a worker writes to a job row keeps its type.
LEMMA RowUpdates ==
  ASSUME NEW x \in Row, NEW n \in Nat, NEW st \in JobState, NEW d \in BOOLEAN
  PROVE  /\ [x EXCEPT !.attempts = n, !.state = st, !.stale = FALSE] \in Row
         /\ [x EXCEPT !.state = st, !.due = d, !.stale = FALSE] \in Row
<1>1. [x EXCEPT !.attempts = n, !.state = st, !.stale = FALSE] \in Row
  BY DEF Row
<1>2. [x EXCEPT !.state = st, !.due = d, !.stale = FALSE] \in Row
  BY DEF Row
<1> QED BY <1>1, <1>2

LEMMA TaskTypes ==
  ASSUME TypeOK, NEW j \in Requests
  PROVE  /\ Ack(j) \in [Requests -> Nat]
         /\ Nack(j) \in [Requests -> Nat]
         /\ TakeTask(j) \in [Requests -> Nat]
  BY DEF TypeOK, Ack, Nack, TakeTask

LEMMA IdleKeepsType ==
  ASSUME TypeOK, NEW w \in Workers, Idle(w)
  PROVE  wk' \in [Workers -> WorkerRow]
  BY IdleTypes DEF TypeOK, Idle
-----------------------------------------------------------------------------
(* What a step does to the workers.                                         *)

\* The steps of a worker that stays with its job, and those that end it.
Proceeds(w) ==
  \/ Claim(w) \/ LoadMedia(w) \/ FetchFindsNothing(w) \/ Fetch(w) \/ RecordFetched(w)
  \/ Extract(w) \/ RejectPdf(w) \/ Finish(w) \/ Raise(w)

Ends(w) ==
  \/ GiveUp(w) \/ Defer(w) \/ RecordFailure(w) \/ Answer(w)
  \/ AnswerSwallowed(w) \/ WorkerCrash(w)

\* What a worker reads: pages it keeps and pages it is charged for, none of
\* which the cache held; a charged page whose words it keeps is marked so.
Reads(w, paid, keep) ==
  /\ wk' = [wk EXCEPT ![w].pc = "writing", ![w].paid = paid, ![w].keep = keep]
  /\ \A p \in Pages : <<p, TRUE>> \in paid =>
       p \in keep /\ CacheKey(MediaOf(w), p) \notin stored

LEMMA ExtractReads ==
  ASSUME NEW w \in Workers, MediaOf(w) \in Media, Extract(w)
  PROVE  \E paid \in SUBSET Charge, keep \in SUBSET Pages : Reads(w, paid, keep)
<1>1. PICK keep \in SUBSET Remaining(MediaOf(w)), charged \in SUBSET Remaining(MediaOf(w)) :
        wk' = [wk EXCEPT ![w].pc = "writing",
                         ![w].paid = {<<p, p \in keep>> : p \in charged},
                         ![w].keep = keep]
  BY DEF Extract
<1>2. Remaining(MediaOf(w)) \subseteq Pages
  BY MediaJobsAssumption DEF Remaining
<1> DEFINE paid == {<<p, p \in keep>> : p \in charged}
<1>3. paid \in SUBSET Charge /\ keep \in SUBSET Pages
  <2>1. ASSUME NEW p \in charged PROVE <<p, p \in keep>> \in Charge
    <3>1. (p \in keep) \in BOOLEAN
      OBVIOUS
    <3> QED BY <1>2, <3>1 DEF Charge
  <2> QED BY <1>2, <2>1
<1>4. ASSUME NEW p \in Pages, <<p, TRUE>> \in paid
      PROVE  p \in keep /\ CacheKey(MediaOf(w), p) \notin stored
  <2>1. PICK q \in charged : <<p, TRUE>> = <<q, q \in keep>>
    BY <1>4
  <2> QED BY <2>1 DEF Remaining
<1> QED BY <1>1, <1>3, <1>4 DEF Reads

\* A worker that proceeds keeps its job, and no other worker is touched.
LEMMA ProceedingKeepsTheJob ==
  ASSUME wk \in [Workers -> WorkerRow], NEW w \in Workers, Proceeds(w)
  PROVE  /\ \A u \in Workers \ {w} : wk'[u] = wk[u]
         /\ wk[w].pc # "idle"
         /\ wk'[w].pc \notin {"idle", "loaded"}
         /\ wk'[w].j = wk[w].j
<1> DEFINE Kept == /\ \A u \in Workers \ {w} : wk'[u] = wk[u]
                   /\ wk[w].pc # "idle"
                   /\ wk'[w].pc \notin {"idle", "loaded"}
                   /\ wk'[w].j = wk[w].j
<1>1. CASE Claim(w)
  BY <1>1 DEF Claim, WorkerRow
<1>2. CASE LoadMedia(w)
  BY <1>2 DEF LoadMedia, WorkerRow
<1>3. CASE FetchFindsNothing(w)
  BY <1>3 DEF FetchFindsNothing, WorkerRow
<1>4. CASE Fetch(w)
  BY <1>4 DEF Fetch, WorkerRow
<1>5. CASE RecordFetched(w)
  BY <1>5 DEF RecordFetched, WorkerRow
<1>7. CASE Extract(w)
  <2>1. PICK paid, keep : wk' = [wk EXCEPT ![w].pc = "writing", ![w].paid = paid, ![w].keep = keep]
    BY <1>7 DEF Extract
  <2>2. wk[w].pc = "extracting"
    BY <1>7 DEF Extract
  <2> QED BY <2>1, <2>2 DEF WorkerRow
<1>8. CASE RejectPdf(w)
  BY <1>8 DEF RejectPdf, WorkerRow
<1>9. CASE Finish(w)
  BY <1>9 DEF Finish, WorkerRow
<1>10. CASE Raise(w)
  BY <1>10 DEF Raise, Raising, WorkerRow
<1> QED BY <1>1, <1>2, <1>3, <1>4, <1>5,
           <1>7, <1>8, <1>9, <1>10 DEF Proceeds

\* A worker that ends is idle, and no other worker is touched.
LEMMA EndingIsIdle ==
  ASSUME wk \in [Workers -> WorkerRow], NEW w \in Workers, Ends(w)
  PROVE  wk' = [wk EXCEPT ![w] = IdleWorker] /\ wk[w].pc # "idle"
  BY DEF Ends, GiveUp, Defer, RecordFailure, Answer, AnswerSwallowed, WorkerCrash, Idle

\* Everything else leaves the workers alone, but a delivery and a restart.
LEMMA StepsOfWorkers ==
  ASSUME [Next]_vars
  PROVE  \/ UNCHANGED wk
         \/ \E w \in Workers : Proceeds(w) \/ Ends(w)
         \/ \E w \in Workers, j \in Requests : Deliver(w, j)
         \/ Restart
<1>1. ASSUME NEW w \in Workers, Work(w) \/ Raise(w) \/ AnswerSwallowed(w) \/ WorkerCrash(w)
      PROVE  Proceeds(w) \/ Ends(w)
  BY <1>1 DEF Work, Proceeds, Ends
<1>2. ASSUME NEW w \in Workers, NEW j \in Requests, DeliverToNothing(w, j)
        PROVE UNCHANGED wk
    BY <1>2 DEF DeliverToNothing, worker
<1>3. ASSUME NEW r \in Requests, NEW m \in Media, ReceiveMedia(r, m) \/ SendBrief(r, m)
         PROVE UNCHANGED wk
    BY <1>3 DEF ReceiveMedia, SendBrief, Intake, worker
<1>4. ASSUME NEW r \in Requests,
                RefuseUnentitled(r) \/ IntakeCommit(r) \/ IntakeRollback(r) \/ GoStale(r) \/ FallDue(r)
         PROVE UNCHANGED wk
    BY <1>4 DEF RefuseUnentitled, IntakeCommit, IntakeRollback, GoStale, FallDue, worker
<1>5. ASSUME NEW m \in Media, CloseWindow(m) PROVE UNCHANGED wk
    BY <1>5 DEF CloseWindow, worker
<1>6. ASSUME NEW kind \in {"retry", "cancel"}, NEW j \in Requests, OperatorReads(kind, j)
         PROVE UNCHANGED wk
    BY <1>6 DEF OperatorReads, worker
<1>7. CASE OperatorRetries \/ OperatorCancels
    BY <1>7 DEF OperatorRetries, OperatorCancels, worker
<1>8. CASE UNCHANGED vars
    BY <1>8 DEF vars
<1> QED BY <1>1, <1>2, <1>3, <1>4, <1>5, <1>6, <1>7, <1>8 DEF Next

-----------------------------------------------------------------------------
\* A worker that has not yet decided what to do with a delivery holds at least
\* one dispatch try; Defer puts the rest back.
TriesLeft == \A w \in Workers : wk[w].pc = "loaded" => wk[w].tries > 0

TypeInv == TypeOK /\ TriesLeft

LEMMA TypeInit == Init => TypeInv
<1>1. Init => TypeOK
  <2> SUFFICES ASSUME Init PROVE TypeOK
    OBVIOUS
  <2>1. ledger \in [Media -> LedgerRow]
    BY DEF Init, LedgerRow
  <2>2. wk \in [Workers -> WorkerRow] /\ op \in OpRow
    BY IdleTypes DEF Init
  <2>3. req \in [Requests -> RequestRow]
    BY Chosen DEF Init, RequestRow
  <2>4. /\ job \in [Requests -> Row] /\ stored \subseteq CacheRow /\ fetched \subseteq Media
        /\ bill \subseteq Media /\ runs \in [Requests -> Nat] /\ tasks \in [Requests -> Nat]
        /\ crashes \in Nat /\ ops \in Nat
    BY Constants DEF Init
  <2>5. /\ media \in [Media -> MediaState \cup {"ABSENT"}]
        /\ windowOpen \in [Media -> BOOLEAN]
        /\ told \in [Media -> {"nothing", "promised", "answered"}]
    BY DEF Init
  <2> QED BY <2>1, <2>2, <2>3, <2>4, <2>5 DEF TypeOK
<1>2. Init => TriesLeft
  BY DEF Init, TriesLeft, IdleWorker
<1> QED BY <1>1, <1>2 DEF TypeInv

LEMMA TypeStep == TypeInv /\ [Next]_vars => TypeInv'
<1>1. TypeInv /\ [Next]_vars => TypeOK'
  <2> SUFFICES ASSUME TypeInv, [Next]_vars PROVE TypeOK'
    OBVIOUS
  <2>0. TypeOK /\ TriesLeft
    BY DEF TypeInv
  <2> USE <2>0 DEF TypeOK, worker, history
  <2>1. CASE UNCHANGED vars
    BY <2>1 DEF vars
  <2>2. ASSUME NEW r \in Requests, NEW m \in Media, NEW briefed \in BOOLEAN,
               NEW allowed \in BOOLEAN, Intake(r, m, briefed, allowed)
        PROVE TypeOK'
    <3>1. IntakeTarget(media[m], briefed, allowed) \in MediaState \cup {"ABSENT"}
      BY DEF IntakeTarget, MediaState
    <3> QED BY <2>2, <3>1, Constants DEF Intake, RequestRow
  <2>3. ASSUME NEW r \in Requests, RefuseUnentitled(r) PROVE TypeOK'
    <3>1. req' \in [Requests -> RequestRow]
      BY SMTT(30), <2>3 DEF RefuseUnentitled, RequestRow
    <3> QED BY <2>3, <3>1 DEF RefuseUnentitled
  <2>4. ASSUME NEW r \in Requests, IntakeCommit(r) PROVE TypeOK'
    <3>1. req' \in [Requests -> RequestRow]
      BY <2>4 DEF IntakeCommit, RequestRow
    <3>2. media' \in [Media -> MediaState \cup {"ABSENT"}]
      BY <2>4 DEF IntakeCommit, RequestRow
    <3>3. job' \in [Requests -> Row]
      BY <2>4, Constants DEF IntakeCommit
    <3> QED BY <2>4, <3>1, <3>2, <3>3 DEF IntakeCommit
  <2>5. ASSUME NEW r \in Requests, IntakeRollback(r) PROVE TypeOK'
    <3>1. req' \in [Requests -> RequestRow]
      BY SMTT(30), <2>5 DEF IntakeRollback, RequestRow
    <3> QED BY <2>5, <3>1 DEF IntakeRollback
  <2>6. ASSUME NEW w \in Workers, NEW j \in Requests, DeliverToNothing(w, j) PROVE TypeOK'
    BY <2>6, TaskTypes DEF DeliverToNothing
  <2>7. ASSUME NEW w \in Workers, NEW j \in Requests, Deliver(w, j) PROVE TypeOK'
    <3>1. wk' \in [Workers -> WorkerRow]
      <4> DEFINE loaded == [IdleWorker EXCEPT !.pc = "loaded", !.j = j, !.tries = tasks[j],
                                              !.snap = job[j], !.busy = InFlight >= Ceiling]
      <4>1. (InFlight >= Ceiling) \in BOOLEAN
        OBVIOUS
      <4>2. ASSUME NEW b \in BOOLEAN
            PROVE [IdleWorker EXCEPT !.pc = "loaded", !.j = j, !.tries = tasks[j],
                                     !.snap = job[j], !.busy = b] \in WorkerRow
        BY IdleTypes DEF WorkerRow, WorkerPC
      <4>3. loaded \in WorkerRow
        BY <4>1, <4>2
      <4> QED BY <2>7, <4>3 DEF Deliver
    <3> QED BY <2>7, <3>1, TaskTypes DEF Deliver
  <2>8. ASSUME NEW w \in Workers, Work(w) PROVE TypeOK'
    <3>0. wk[w].j \in Requests /\ wk[w].snap \in Row /\ wk[w].tries \in Nat /\ MediaOf(w) \in Media
      BY DEF WorkerRow, MediaOf, RequestRow
    <3>1. CASE GiveUp(w)
      <4>1. job' \in [Requests -> Row]
        BY SMTT(30), <3>0, <3>1 DEF GiveUp, Row, JobState
      <4> QED BY <3>0, <3>1, <4>1, TaskTypes, IdleKeepsType DEF GiveUp
    <3>2. CASE Defer(w)
      <4>1. tasks' \in [Requests -> Nat]
        BY <3>0, <3>2, TaskTypes DEF Defer, TriesLeft
      <4> QED BY <3>2, <4>1, IdleKeepsType DEF Defer
    <3>3. CASE Claim(w)
      <4>1. job' \in [Requests -> Row]
        <5> DEFINE old == job[wk[w].j]
                   n   == wk[w].snap.attempts + 1
                   st  == IF wk[w].snap.state = "RUNNING" THEN old.state ELSE "RUNNING"
        <5>1. old \in Row /\ n \in Nat /\ st \in JobState
          BY <3>0 DEF Row, JobState
        <5>2. job' = [job EXCEPT ![wk[w].j] =
                        [old EXCEPT !.attempts = n, !.state = st, !.stale = FALSE]]
          BY <3>3 DEF Claim
        <5>3. [old EXCEPT !.attempts = n, !.state = st, !.stale = FALSE] \in Row
          <6> HIDE DEF old, n, st
          <6> QED BY <5>1, RowUpdates
        <5> HIDE DEF old, n, st
        <5> QED BY <5>2, <5>3
      <4>2. wk' \in [Workers -> WorkerRow]
        BY SMTT(30), <3>3 DEF Claim, WorkerRow, WorkerPC
      <4> QED BY <3>0, <3>3, <4>1, <4>2 DEF Claim
    <3>4. CASE LoadMedia(w)
      <4>1. wk' \in [Workers -> WorkerRow]
        BY SMTT(30), <3>4 DEF LoadMedia, WorkerRow, WorkerPC
      <4> QED BY <3>4, <4>1 DEF LoadMedia
    <3>5. CASE FetchFindsNothing(w)
      <4>1. wk' \in [Workers -> WorkerRow]
        BY <3>5, Targets, WorkerUpdates DEF FetchFindsNothing, WorkerPC
      <4> QED BY <3>5, <4>1 DEF FetchFindsNothing
    <3>6. CASE Fetch(w)
      <4>1. wk' \in [Workers -> WorkerRow]
        <5>1. CASE wk' = [wk EXCEPT ![w].pc = "settling", ![w].target = "REJECTED"]
          BY ZenonT(30), <5>1, Targets, WorkerUpdates DEF WorkerPC
        <5>2. CASE wk' = [wk EXCEPT ![w].pc = "flushing", ![w].target = "READY_FOR_CAPABILITY"]
          BY ZenonT(30), <5>2, Targets, WorkerUpdates DEF WorkerPC
        <5> QED BY <3>6, <5>1, <5>2 DEF Fetch
      <4> QED BY <3>0, <3>6, <4>1 DEF Fetch
    <3>7. CASE RecordFetched(w)
      <4>1. wk' \in [Workers -> WorkerRow]
        <5>1. [wk[w] EXCEPT !.pc = "extracting"] \in WorkerRow
          BY DEF WorkerRow, WorkerPC
        <5> QED BY <3>7, <5>1 DEF RecordFetched
      <4> QED BY <3>7, <4>1 DEF RecordFetched
    <3>9. CASE Extract(w)
      <4>1. PICK paid \in SUBSET Charge, keep \in SUBSET Pages : Reads(w, paid, keep)
        BY ZenonT(30), <3>0, <3>9, ExtractReads
      <4>2. wk' \in [Workers -> WorkerRow]
        <5>1. [wk EXCEPT ![w].pc = "writing", ![w].paid = paid, ![w].keep = keep]
                \in [Workers -> WorkerRow]
          <6>1. wk \in [Workers -> WorkerRow] /\ "writing" \in WorkerPC /\ "FAILED" \in MediaState
            BY Targets DEF WorkerPC
          <6> QED BY ZenonT(30), <6>1, WorkerUpdates
        <5> QED BY <4>1, <5>1 DEF Reads
      <4>3. bill' \subseteq Media
        BY <3>0, <3>9 DEF Extract
      <4> QED BY <3>9, <4>2, <4>3 DEF Extract
    <3>10. CASE RejectPdf(w)
      <4>1. wk' \in [Workers -> WorkerRow]
        BY <3>10, Targets, WorkerUpdates DEF RejectPdf, WorkerPC
      <4> QED BY <3>10, <4>1 DEF RejectPdf
    <3>11. CASE Finish(w)
      <4>1. wk' \in [Workers -> WorkerRow]
        <5>1. [wk EXCEPT ![w].pc = "answering"] \in [Workers -> WorkerRow]
          BY WorkerUpdates, Targets DEF WorkerPC
        <5> QED BY <3>11, <5>1 DEF Finish
      <4>2. job' \in [Requests -> Row]
        BY SMTT(30), <3>0, <3>11 DEF Finish, Row, JobState
      <4>3. media' \in [Media -> MediaState \cup {"ABSENT"}]
        BY <3>0, <3>11 DEF Finish, WorkerRow
      <4>4. stored' \subseteq CacheRow
        <5>1. wk[w].keep \subseteq Pages
          BY DEF WorkerRow
        <5>2. ASSUME NEW p \in wk[w].keep
              PROVE  CacheKey(MediaOf(w), p) \in CacheRow
          BY <3>0, <5>1, MediaJobsAssumption DEF CacheKey, CacheRow
        <5> QED BY <3>11, <5>2 DEF Finish
      <4>5. ledger' \in [Media -> LedgerRow]
        <5>1. ASSUME NEW e \in Charge
              PROVE  (IF e \in wk[w].paid THEN ledger[MediaOf(w)][e] + 1
                      ELSE ledger[MediaOf(w)][e]) \in Nat
          <6>1. ledger[MediaOf(w)] \in LedgerRow
            BY <3>0
          <6>2. ledger[MediaOf(w)][e] \in Nat
            BY <6>1 DEF LedgerRow
          <6> QED BY <6>2
        <5>2. PICK row \in LedgerRow : ledger' = [ledger EXCEPT ![MediaOf(w)] = row]
          BY <3>11, <5>1 DEF Finish, LedgerRow
        <5> QED BY <3>0, <5>2
      <4> QED BY <3>11, <4>1, <4>2, <4>3, <4>4, <4>5 DEF Finish
    <3>12. CASE RecordFailure(w)
      <4>1. job' \in [Requests -> Row]
        <5> DEFINE old == job[wk[w].j]
                   st  == IF old.attempts >= PolicyMax THEN "FAILED_PERMANENT" ELSE "FAILED"
                   d   == IF old.attempts >= PolicyMax THEN old.due ELSE FALSE
        <5>1. old \in Row /\ st \in JobState /\ d \in BOOLEAN
          BY <3>0 DEF Row, JobState
        <5>2. job' = [job EXCEPT ![wk[w].j] =
                        [old EXCEPT !.state = st, !.due = d, !.stale = FALSE]]
          BY <3>12 DEF RecordFailure
        <5>3. [old EXCEPT !.state = st, !.due = d, !.stale = FALSE] \in Row
          <6> HIDE DEF old, st, d
          <6> QED BY <5>1, RowUpdates
        <5> HIDE DEF old, st, d
        <5> QED BY <5>2, <5>3
      <4> QED BY <3>0, <3>12, <4>1, TaskTypes, IdleKeepsType DEF RecordFailure
    <3>13. CASE Answer(w)
      BY <3>0, <3>13, TaskTypes, IdleKeepsType DEF Answer
    <3> QED BY <2>8, <3>1, <3>2, <3>3, <3>4, <3>5, <3>6, <3>7, <3>9, <3>10,
               <3>11, <3>12, <3>13 DEF Work
  <2>9. ASSUME NEW w \in Workers, Raise(w) PROVE TypeOK'
    <3>1. wk' \in [Workers -> WorkerRow]
      BY SMTT(30), <2>9 DEF Raise, WorkerRow, WorkerPC
    <3> QED BY <2>9, <3>1 DEF Raise
  <2>10. ASSUME NEW w \in Workers, AnswerSwallowed(w) \/ WorkerCrash(w) PROVE TypeOK'
    <3>1. Nack(wk[w].j) \in [Requests -> Nat] /\ Ack(wk[w].j) \in [Requests -> Nat]
      BY TaskTypes DEF WorkerRow
    <3>2. wk' \in [Workers -> WorkerRow]
      BY <2>10, IdleKeepsType DEF AnswerSwallowed, WorkerCrash
    <3>3. CASE AnswerSwallowed(w)
      BY <3>1, <3>2, <3>3 DEF AnswerSwallowed
    <3>4. CASE WorkerCrash(w)
      BY <3>1, <3>2, <3>4 DEF WorkerCrash
    <3> QED BY <2>10, <3>3, <3>4
  <2>11. CASE Restart
    <3>1. ASSUME NEW x \in RequestRow PROVE [x EXCEPT !.pc = "done"] \in RequestRow
      BY DEF RequestRow
    <3>2. req' \in [Requests -> RequestRow]
      BY <2>11, <3>1 DEF Restart
    <3> QED BY <2>11, <3>2, IdleTypes, Constants DEF Restart
  <2>12. ASSUME NEW j \in Requests, GoStale(j) \/ FallDue(j) PROVE TypeOK'
    <3>1. CASE GoStale(j)
      <4>1. ASSUME NEW x \in Row PROVE [x EXCEPT !.stale = TRUE] \in Row
        BY DEF Row
      <4>2. job' = [job EXCEPT ![j] = [job[j] EXCEPT !.stale = TRUE]]
        BY <3>1 DEF GoStale
      <4> QED BY <3>1, <4>1, <4>2 DEF GoStale
    <3>2. CASE FallDue(j)
      <4>1. ASSUME NEW x \in Row PROVE [x EXCEPT !.due = TRUE] \in Row
        BY DEF Row
      <4>2. job' = [job EXCEPT ![j] = [job[j] EXCEPT !.due = TRUE]]
        BY <3>2 DEF FallDue
      <4> QED BY <3>2, <4>1, <4>2 DEF FallDue
    <3> QED BY <2>12, <3>1, <3>2
  <2>13. ASSUME NEW m \in Media, CloseWindow(m) PROVE TypeOK'
    BY <2>13 DEF CloseWindow
  <2>14. ASSUME NEW kind \in {"retry", "cancel"}, NEW j \in Requests, OperatorReads(kind, j)
         PROVE TypeOK'
    BY <2>14 DEF OperatorReads, OpRow
  <2>15. CASE OperatorRetries \/ OperatorCancels
    <3>1. op.j \in Requests /\ op.snap \in Row
      BY DEF OpRow
    <3>2. job' \in [Requests -> Row]
      BY SMTT(30), <2>15, <3>1 DEF OperatorRetries, OperatorCancels, Row, JobState
    <3> QED BY <2>15, <3>2, IdleTypes DEF OperatorRetries, OperatorCancels
  <2>16. ASSUME NEW r \in Requests, NEW m \in Media, ReceiveMedia(r, m) \/ SendBrief(r, m)
         PROVE TypeOK'
    <3>1. PICK briefed, allowed \in BOOLEAN : Intake(r, m, briefed, allowed)
      BY <2>16 DEF ReceiveMedia, SendBrief
    <3> QED BY <3>1, <2>2
  <2> QED
    BY <2>1, <2>3, <2>4, <2>5, <2>6, <2>7, <2>8, <2>9, <2>10, <2>11, <2>12, <2>13, <2>14,
       <2>15, <2>16 DEF Next
<1>2. TypeInv /\ [Next]_vars => TriesLeft'
  <2> SUFFICES ASSUME TypeInv, [Next]_vars, NEW w \in Workers, wk'[w].pc = "loaded"
               PROVE wk'[w].tries > 0
    BY DEF TriesLeft
  <2>0. wk \in [Workers -> WorkerRow] /\ TriesLeft /\ tasks \in [Requests -> Nat]
    BY DEF TypeInv, TypeOK
  <2>1. CASE UNCHANGED wk
    BY <2>0, <2>1 DEF TriesLeft
  <2>2. ASSUME NEW v \in Workers, NEW j \in Requests, Deliver(v, j) PROVE wk'[w].tries > 0
    BY <2>0, <2>2 DEF Deliver, TriesLeft, IdleWorker, WorkerRow
  <2>3. ASSUME NEW v \in Workers, Proceeds(v) PROVE wk'[w].tries > 0
    BY <2>0, <2>3, ProceedingKeepsTheJob DEF TriesLeft
  <2>4. ASSUME NEW v \in Workers, Ends(v) PROVE wk'[w].tries > 0
    BY <2>0, <2>4, EndingIsIdle DEF TriesLeft, IdleWorker
  <2>5. CASE Restart
    BY <2>5 DEF Restart, IdleWorker
  <2> QED BY <2>1, <2>2, <2>3, <2>4, <2>5, StepsOfWorkers
<1> QED BY <1>1, <1>2 DEF TypeInv

\* Every action keeps every type; TypeOK is inductive only with TriesLeft, or
\* a deferral could put a negative count of tries back in the queue.
THEOREM TypeCorrect == Spec => []TypeOK
<1>1. TypeInv => TypeOK
  BY DEF TypeInv
<1> QED BY <1>1, TypeInit, TypeStep, PTL DEF Spec
-----------------------------------------------------------------------------
(* The inductive invariant of the two safety theorems.                      *)

\* A job exists only for a committed request that passed both gates; an open
\* request creates one only if it has.
JobsAreGated ==
  \A r \in Requests :
    /\ job[r].state # "ABSENT" => req[r].pc = "done" /\ req[r].briefed /\ req[r].allowed
    /\ req[r].pc = "open" /\ req[r].creates => req[r].briefed /\ req[r].allowed

\* Nobody works on a job that was never committed, although the queue may
\* hold its name.
HandsHoldJobs ==
  /\ \A w \in Workers : wk[w].pc # "idle" => job[wk[w].j].state # "ABSENT"
  /\ op.pc = "read" => job[op.j].state # "ABSENT"

\* On a server deployment the row counts the claims: nobody else claims the
\* job between a worker's look at the row and its own claim.
RowCountsClaims(j) ==
  /\ runs[j] = job[j].attempts
  /\ runs[j] <= PolicyMax
  /\ job[j].state = "ABSENT" => job[j].attempts = 0

RunsAreAttempts ==
  /\ \A j \in Requests : RowCountsClaims(j)
  /\ \A w \in Workers : wk[w].pc = "loaded" => wk[w].snap.attempts = job[wk[w].j].attempts

IInv ==
  /\ TypeInv
  /\ JobsAreGated
  /\ HandsHoldJobs
  /\ PaidWorkIsGated
  /\ SingleExecutor
  /\ ~Serverless => RunsAreAttempts

LEMMA InitIInv == Init => IInv
<1> SUFFICES ASSUME Init PROVE IInv
  OBVIOUS
<1>1. TypeInv
  BY TypeInit
<1>2. JobsAreGated /\ HandsHoldJobs /\ PaidWorkIsGated
  BY DEF Init, JobsAreGated, HandsHoldJobs, PaidWorkIsGated, IdleWorker,
         IdleOp, NoJob
<1>3. SingleExecutor
  BY DEF Init, SingleExecutor, Handling, IdleWorker
<1>4. RunsAreAttempts
  BY Constants DEF Init, RunsAreAttempts, RowCountsClaims, IdleWorker, NoJob
<1> QED BY <1>1, <1>2, <1>3, <1>4 DEF IInv

\* A request is open once, and what an open one will commit is fixed.
RequestStep(r) ==
  /\ req[r].pc = "done" => req'[r] = req[r]
  /\ req[r].pc = "open" => /\ req'[r].pc \in {"open", "done"}
                           /\ req'[r].m = req[r].m
                           /\ req'[r].creates = req[r].creates
                           /\ req'[r].briefed = req[r].briefed
                           /\ req'[r].allowed = req[r].allowed
  /\ req[r].pc = "idle" /\ req'[r].pc = "open" /\ req'[r].creates
       => req'[r].briefed /\ req'[r].allowed

\* A target of FETCH_QUEUED that is news has passed both gates.
LEMMA QueuedIsGated ==
  ASSUME NEW s, NEW briefed \in BOOLEAN, NEW allowed \in BOOLEAN,
         IntakeTarget(s, briefed, allowed) = "FETCH_QUEUED", s # "FETCH_QUEUED"
  PROVE  briefed /\ allowed
  BY DEF IntakeTarget

LEMMA RequestSteps ==
  ASSUME TypeOK, [Next]_vars, NEW r \in Requests
  PROVE  RequestStep(r)
<1>0. req \in [Requests -> RequestRow]
  BY DEF TypeOK
<1>1. CASE UNCHANGED req
  BY <1>1 DEF RequestStep
<1>2. ASSUME NEW q \in Requests, NEW m \in Media, ReceiveMedia(q, m) \/ SendBrief(q, m)
      PROVE RequestStep(r)
  <2>1. PICK briefed, allowed \in BOOLEAN : Intake(q, m, briefed, allowed)
    BY <1>2 DEF ReceiveMedia, SendBrief
  <2>2. CASE q = r
    BY <1>0, <2>1, <2>2, QueuedIsGated DEF Intake, RequestStep
  <2>3. CASE q # r
    BY <1>0, <2>1, <2>3 DEF Intake, RequestStep
  <2> QED BY <2>2, <2>3
<1>3. ASSUME NEW q \in Requests, RefuseUnentitled(q) PROVE RequestStep(r)
  BY <1>0, <1>3 DEF RefuseUnentitled, RequestStep, RequestRow
<1>4. ASSUME NEW q \in Requests, IntakeCommit(q) \/ IntakeRollback(q) PROVE RequestStep(r)
  <2>1. req[q].pc = "open" /\ req' = [req EXCEPT ![q].pc = "done"]
    BY <1>4 DEF IntakeCommit, IntakeRollback
  <2> QED BY <1>0, <2>1 DEF RequestStep, RequestRow
<1>5. CASE Restart
  BY <1>0, <1>5 DEF Restart, RequestStep, RequestRow
<1>6. ASSUME NEW w \in Workers, NEW j \in Requests, DeliverToNothing(w, j) \/ Deliver(w, j)
      PROVE UNCHANGED req
  BY <1>6 DEF DeliverToNothing, Deliver
<1>7. ASSUME NEW w \in Workers, Work(w) \/ Raise(w) \/ AnswerSwallowed(w) \/ WorkerCrash(w)
      PROVE UNCHANGED req
  BY <1>7 DEF Work, GiveUp, Defer, Claim, LoadMedia, FetchFindsNothing, Fetch, RecordFetched,
     Extract, RejectPdf, Finish, RecordFailure, Answer, Raise,
     AnswerSwallowed, WorkerCrash
<1>8. ASSUME NEW j \in Requests, GoStale(j) \/ FallDue(j) PROVE UNCHANGED req
  BY <1>8 DEF GoStale, FallDue
<1>9. ASSUME NEW m \in Media, CloseWindow(m) PROVE UNCHANGED req
  BY <1>9 DEF CloseWindow
<1>10. ASSUME NEW kind \in {"retry", "cancel"}, NEW j \in Requests, OperatorReads(kind, j)
       PROVE UNCHANGED req
  BY <1>10 DEF OperatorReads
<1>11. CASE OperatorRetries \/ OperatorCancels
  BY <1>1, <1>11 DEF OperatorRetries, OperatorCancels
<1>12. CASE UNCHANGED vars
  BY <1>1, <1>12 DEF vars
<1> QED BY <1>1, <1>2, <1>3, <1>4, <1>5, <1>6, <1>7, <1>8, <1>9, <1>10, <1>11, <1>12 DEF Next

\* A row appears only by the commit of the request it is named after, and no
\* row disappears.
LEMMA RowsOverSteps ==
  ASSUME TypeOK, HandsHoldJobs, [Next]_vars, NEW r \in Requests
  PROVE  \/ job'[r].state = "ABSENT" <=> job[r].state = "ABSENT"
         \/ req[r].pc = "open" /\ req[r].creates /\ req'[r].pc = "done"
<1> DEFINE Kept == job'[r].state = "ABSENT" <=> job[r].state = "ABSENT"
<1>0. /\ job \in [Requests -> Row]
      /\ wk \in [Workers -> WorkerRow]
      /\ req \in [Requests -> RequestRow]
      /\ op \in OpRow
  BY DEF TypeOK
<1>1. CASE UNCHANGED job
  BY <1>1
<1>2. ASSUME NEW q \in Requests, IntakeCommit(q)
      PROVE Kept \/ (req[r].pc = "open" /\ req[r].creates /\ req'[r].pc = "done")
  BY <1>0, <1>2 DEF IntakeCommit, RequestRow
<1>3. ASSUME NEW w \in Workers, GiveUp(w) PROVE Kept
  BY <1>0, <1>3 DEF GiveUp, HandsHoldJobs, Row, WorkerRow
<1>4. ASSUME NEW w \in Workers, Claim(w) PROVE Kept
  BY <1>0, <1>4 DEF Claim, HandsHoldJobs, Row, WorkerRow
<1>5. ASSUME NEW w \in Workers, Finish(w) PROVE Kept
  BY SMTT(30), <1>0, <1>5 DEF Finish, HandsHoldJobs, Row, WorkerRow
<1>6. ASSUME NEW w \in Workers, RecordFailure(w) PROVE Kept
  BY <1>0, <1>6 DEF RecordFailure, HandsHoldJobs, Row, WorkerRow
<1>7. ASSUME NEW j \in Requests, GoStale(j) PROVE Kept
  BY <1>0, <1>7 DEF GoStale, Row
<1>8. ASSUME NEW j \in Requests, FallDue(j) PROVE Kept
  BY <1>0, <1>8 DEF FallDue, Row
<1>9. CASE OperatorRetries
  BY <1>0, <1>9 DEF OperatorRetries, HandsHoldJobs, Row, OpRow
<1>10. CASE OperatorCancels
  BY <1>0, <1>10 DEF OperatorCancels, HandsHoldJobs, Row, OpRow
<1>11. ASSUME NEW q \in Requests, NEW m \in Media, ReceiveMedia(q, m) \/ SendBrief(q, m)
       PROVE UNCHANGED job
  BY <1>11 DEF ReceiveMedia, SendBrief, Intake
<1>12. ASSUME NEW q \in Requests, RefuseUnentitled(q) \/ IntakeRollback(q) PROVE UNCHANGED job
  BY <1>12 DEF RefuseUnentitled, IntakeRollback
<1>13. ASSUME NEW w \in Workers, NEW j \in Requests, DeliverToNothing(w, j) \/ Deliver(w, j)
       PROVE UNCHANGED job
  BY <1>13 DEF DeliverToNothing, Deliver
<1>14. ASSUME NEW w \in Workers, Work(w) \/ Raise(w) \/ AnswerSwallowed(w) \/ WorkerCrash(w)
       PROVE Kept
  BY <1>1, <1>3, <1>4, <1>5, <1>6, <1>14
     DEF Work, Defer, LoadMedia, FetchFindsNothing, Fetch, RecordFetched,
         Extract, RejectPdf, Answer, Raise, AnswerSwallowed, WorkerCrash
<1>15. CASE Restart
  BY <1>1, <1>15 DEF Restart
<1>16. ASSUME NEW m \in Media, CloseWindow(m) PROVE UNCHANGED job
  BY <1>16 DEF CloseWindow
<1>17. ASSUME NEW kind \in {"retry", "cancel"}, NEW j \in Requests, OperatorReads(kind, j)
       PROVE UNCHANGED job
  BY <1>17 DEF OperatorReads
<1>18. CASE UNCHANGED vars
  BY <1>1, <1>18 DEF vars
<1> QED BY <1>1, <1>2, <1>7, <1>8, <1>9, <1>10, <1>11, <1>12, <1>13, <1>14, <1>15,
           <1>16, <1>17, <1>18 DEF Next

\* A job that exists keeps existing, and its request keeps what it promised.
LEMMA PresentStays ==
  ASSUME TypeOK, HandsHoldJobs, JobsAreGated, [Next]_vars, NEW r \in Requests,
         job[r].state # "ABSENT"
  PROVE  job'[r].state # "ABSENT" /\ req'[r] = req[r] /\ req[r].pc = "done"
<1>1. req[r].pc = "done"
  BY DEF JobsAreGated
<1> QED BY <1>1, RowsOverSteps, RequestSteps DEF RequestStep

LEMMA JobsAreGatedStep ==
  ASSUME TypeOK, HandsHoldJobs, JobsAreGated, [Next]_vars
  PROVE  JobsAreGated'
<1> SUFFICES ASSUME NEW r \in Requests
             PROVE /\ job'[r].state # "ABSENT"
                        => req'[r].pc = "done" /\ req'[r].briefed /\ req'[r].allowed
                   /\ req'[r].pc = "open" /\ req'[r].creates
                        => req'[r].briefed /\ req'[r].allowed
  BY DEF JobsAreGated
<1>0. req[r].pc \in {"idle", "open", "done"} /\ RequestStep(r)
  BY RequestSteps DEF TypeOK, RequestRow
<1>1. CASE job[r].state # "ABSENT"
  BY <1>1, PresentStays DEF JobsAreGated
<1>2. CASE job[r].state = "ABSENT"
  <2>1. job'[r].state # "ABSENT" => req[r].pc = "open" /\ req[r].creates /\ req'[r].pc = "done"
    BY <1>2, RowsOverSteps
  <2> QED BY <1>0, <2>1 DEF RequestStep, JobsAreGated
<1> QED BY <1>1, <1>2

LEMMA HandsHoldJobsStep ==
  ASSUME TypeOK, HandsHoldJobs, JobsAreGated, [Next]_vars
  PROVE  HandsHoldJobs'
<1>0. wk \in [Workers -> WorkerRow] /\ op \in OpRow
  BY DEF TypeOK
<1>1. ASSUME NEW w \in Workers, wk'[w].pc # "idle"
      PROVE  job'[wk'[w].j].state # "ABSENT"
  <2>1. CASE wk'[w].j = wk[w].j /\ wk[w].pc # "idle"
    BY <1>0, <2>1, PresentStays DEF HandsHoldJobs, WorkerRow
  <2>2. CASE UNCHANGED wk
    BY <1>1, <2>1, <2>2
  <2>3. ASSUME NEW v \in Workers, Proceeds(v) PROVE wk'[w].j = wk[w].j /\ wk[w].pc # "idle"
    BY <1>0, <1>1, <2>3, ProceedingKeepsTheJob
  <2>4. ASSUME NEW v \in Workers, Ends(v) PROVE wk'[w].j = wk[w].j /\ wk[w].pc # "idle"
    BY <1>0, <1>1, <2>4, EndingIsIdle DEF IdleWorker
  <2>5. ASSUME NEW v \in Workers, NEW j \in Requests, Deliver(v, j)
        PROVE job'[wk'[w].j].state # "ABSENT"
    <3>1. CASE v = w
      BY <1>0, <2>5, <3>1 DEF Deliver, IdleWorker
    <3>2. CASE v # w
      BY <1>0, <1>1, <2>1, <2>5, <3>2 DEF Deliver
    <3> QED BY <3>1, <3>2
  <2>6. CASE Restart
    BY <1>1, <2>6 DEF Restart, IdleWorker
  <2> QED BY <2>1, <2>2, <2>3, <2>4, <2>5, <2>6, StepsOfWorkers
<1>2. ASSUME op'.pc = "read" PROVE job'[op'.j].state # "ABSENT"
  <2>1. CASE UNCHANGED op
    BY <1>0, <1>2, <2>1, PresentStays DEF HandsHoldJobs, OpRow
  <2>2. ASSUME NEW kind \in {"retry", "cancel"}, NEW j \in Requests, OperatorReads(kind, j)
        PROVE job'[op'.j].state # "ABSENT"
    BY <2>2 DEF OperatorReads, Retryable, Cancellable
  <2>3. CASE OperatorRetries \/ OperatorCancels \/ Restart
    BY <1>2, <2>3 DEF OperatorRetries, OperatorCancels, Restart, IdleOp
  <2>4. ASSUME NEW r \in Requests, NEW m \in Media, ReceiveMedia(r, m) \/ SendBrief(r, m)
        PROVE UNCHANGED op
    BY <2>4 DEF ReceiveMedia, SendBrief, Intake
  <2>5. ASSUME NEW r \in Requests,
               RefuseUnentitled(r) \/ IntakeCommit(r) \/ IntakeRollback(r) \/ GoStale(r) \/ FallDue(r)
        PROVE UNCHANGED op
    BY <2>5 DEF RefuseUnentitled, IntakeCommit, IntakeRollback, GoStale, FallDue
  <2>6. ASSUME NEW w \in Workers, NEW j \in Requests, DeliverToNothing(w, j) \/ Deliver(w, j)
        PROVE UNCHANGED op
    BY <2>6 DEF DeliverToNothing, Deliver
  <2>7. ASSUME NEW w \in Workers, Work(w) \/ Raise(w) \/ AnswerSwallowed(w) \/ WorkerCrash(w)
        PROVE UNCHANGED op
    BY <2>7 DEF Work, GiveUp, Defer, Claim, LoadMedia, FetchFindsNothing, Fetch, RecordFetched,
       Extract, RejectPdf, Finish, RecordFailure, Answer, Raise,
       AnswerSwallowed, WorkerCrash
  <2>8. ASSUME NEW m \in Media, CloseWindow(m) PROVE UNCHANGED op
    BY <2>8 DEF CloseWindow
  <2>9. CASE UNCHANGED vars
    BY <2>1, <2>9 DEF vars
  <2> QED BY <2>1, <2>2, <2>3, <2>4, <2>5, <2>6, <2>7, <2>8, <2>9 DEF Next
<1> QED BY <1>1, <1>2 DEF HandsHoldJobs

\* Downloads and paid readings are made by a worker, for the attachment of
\* the job in its hands.
LEMMA SpendingSteps ==
  ASSUME TypeOK, [Next]_vars
  PROVE  \/ UNCHANGED <<fetched, bill>>
         \/ \E w \in Workers :
              /\ wk[w].pc # "idle"
              /\ fetched' \cup bill' \subseteq fetched \cup bill \cup {MediaOf(w)}
<1>1. ASSUME NEW w \in Workers, Fetch(w) \/ Extract(w)
      PROVE /\ wk[w].pc # "idle"
            /\ fetched' \cup bill' \subseteq fetched \cup bill \cup {MediaOf(w)}
  BY <1>1 DEF Fetch, Extract
<1>2. ASSUME NEW w \in Workers, Work(w) \/ Raise(w) \/ AnswerSwallowed(w) \/ WorkerCrash(w)
      PROVE  UNCHANGED <<fetched, bill>> \/ Fetch(w) \/ Extract(w)
  BY <1>2 DEF Work, GiveUp, Defer, Claim, LoadMedia, FetchFindsNothing, RecordFetched,
     RejectPdf, Finish, RecordFailure, Answer, Raise, AnswerSwallowed, WorkerCrash
<1>3. ASSUME NEW r \in Requests, NEW m \in Media, ReceiveMedia(r, m) \/ SendBrief(r, m)
      PROVE UNCHANGED <<fetched, bill>>
  BY <1>3 DEF ReceiveMedia, SendBrief, Intake, worker
<1>4. ASSUME NEW r \in Requests,
             RefuseUnentitled(r) \/ IntakeCommit(r) \/ IntakeRollback(r) \/ GoStale(r) \/ FallDue(r)
      PROVE UNCHANGED <<fetched, bill>>
  BY <1>4 DEF RefuseUnentitled, IntakeCommit, IntakeRollback, GoStale, FallDue, worker
<1>5. ASSUME NEW w \in Workers, NEW j \in Requests, DeliverToNothing(w, j) \/ Deliver(w, j)
      PROVE UNCHANGED <<fetched, bill>>
  BY <1>5 DEF DeliverToNothing, Deliver, worker
<1>6. ASSUME NEW m \in Media, CloseWindow(m) PROVE UNCHANGED <<fetched, bill>>
  BY <1>6 DEF CloseWindow, worker
<1>7. ASSUME NEW kind \in {"retry", "cancel"}, NEW j \in Requests, OperatorReads(kind, j)
      PROVE UNCHANGED <<fetched, bill>>
  BY <1>7 DEF OperatorReads, worker
<1>8. CASE OperatorRetries \/ OperatorCancels \/ Restart \/ UNCHANGED vars
  BY <1>8 DEF OperatorRetries, OperatorCancels, Restart, vars, worker
<1> QED BY <1>1, <1>2, <1>3, <1>4, <1>5, <1>6, <1>7, <1>8 DEF Next

LEMMA PaidWorkIsGatedStep ==
  ASSUME TypeOK, HandsHoldJobs, JobsAreGated, PaidWorkIsGated, [Next]_vars
  PROVE  PaidWorkIsGated'
<1> DEFINE Gated(m, r) == job[r].state # "ABSENT" /\ req[r].m = m /\ req[r].briefed /\ req[r].allowed
<1> SUFFICES ASSUME NEW m \in Media, m \in fetched' \cup bill'
             PROVE  \E r \in Requests : Gated(m, r)'
  BY DEF PaidWorkIsGated
<1>1. ASSUME NEW r \in Requests, Gated(m, r) PROVE Gated(m, r)'
  BY <1>1, PresentStays
<1>2. CASE m \in fetched \cup bill
  BY <1>1, <1>2 DEF PaidWorkIsGated
<1>3. CASE m \notin fetched \cup bill
  <2>1. PICK w \in Workers : wk[w].pc # "idle" /\ MediaOf(w) = m
    BY <1>3, SpendingSteps
  <2>2. wk[w].j \in Requests /\ Gated(m, wk[w].j)
    BY <2>1 DEF TypeOK, WorkerRow, HandsHoldJobs, JobsAreGated, MediaOf
  <2> QED BY <1>1, <2>2
<1> QED BY <1>2, <1>3
-----------------------------------------------------------------------------
(* Who holds a job on a server deployment.                                  *)

\* What a step does to the queue.
LEMMA QueueSteps ==
  ASSUME TypeOK, HandsHoldJobs, JobsAreGated, [Next]_vars
  PROVE  \/ UNCHANGED tasks
         \/ /\ UNCHANGED wk
            /\ \E r \in Requests : /\ req[r].pc = "idle" /\ req'[r].pc = "open"
                                   /\ tasks' = [tasks EXCEPT ![r] = DispatchTries]
         \/ UNCHANGED wk /\ \E j \in Requests : tasks' = Ack(j)
         \/ \E w \in Workers : Ends(w)
         \/ \E w \in Workers, j \in Requests : Deliver(w, j)
         \/ Restart
<1>1. ASSUME NEW r \in Requests, NEW m \in Media, ReceiveMedia(r, m) \/ SendBrief(r, m)
      PROVE \/ UNCHANGED tasks
            \/ /\ UNCHANGED wk
               /\ req[r].pc = "idle" /\ req'[r].pc = "open"
               /\ tasks' = [tasks EXCEPT ![r] = DispatchTries]
  <2>1. PICK briefed, allowed \in BOOLEAN : Intake(r, m, briefed, allowed)
    BY <1>1 DEF ReceiveMedia, SendBrief
  <2> QED BY <2>1 DEF Intake, worker, TypeOK
<1>2. ASSUME NEW w \in Workers, NEW j \in Requests, DeliverToNothing(w, j)
      PROVE UNCHANGED wk /\ tasks' = Ack(j)
  BY <1>2 DEF DeliverToNothing, worker
<1>3. ASSUME NEW w \in Workers, Work(w) \/ Raise(w) \/ AnswerSwallowed(w) \/ WorkerCrash(w)
      PROVE UNCHANGED tasks \/ Ends(w)
  BY <1>3 DEF Work, Ends, Claim, LoadMedia, FetchFindsNothing, Fetch, RecordFetched,
     Extract, RejectPdf, Finish, Raise
<1>4. ASSUME NEW r \in Requests,
             RefuseUnentitled(r) \/ IntakeCommit(r) \/ IntakeRollback(r) \/ GoStale(r) \/ FallDue(r)
      PROVE UNCHANGED tasks
  BY <1>4 DEF RefuseUnentitled, IntakeCommit, IntakeRollback, GoStale, FallDue
<1>5. ASSUME NEW m \in Media, CloseWindow(m) PROVE UNCHANGED tasks
  BY <1>5 DEF CloseWindow
<1>6. ASSUME NEW kind \in {"retry", "cancel"}, NEW j \in Requests, OperatorReads(kind, j)
      PROVE UNCHANGED tasks
  BY <1>6 DEF OperatorReads
<1>7. CASE OperatorRetries \/ OperatorCancels \/ UNCHANGED vars
  BY <1>7 DEF OperatorRetries, OperatorCancels, vars
<1> QED BY <1>1, <1>2, <1>3, <1>4, <1>5, <1>6, <1>7 DEF Next

\* A worker that ends touches the queue entry of its own job only, and on a
\* server deployment leaves it only if it was deferred.
LEMMA EndingTouchesItsTask ==
  ASSUME TypeOK, NEW w \in Workers, Ends(w)
  PROVE  \A j \in Requests \ {wk[w].j} : tasks'[j] = tasks[j]
  BY DEF Ends, GiveUp, Defer, RecordFailure, Answer, AnswerSwallowed, WorkerCrash, Ack, Nack,
         TypeOK

\* The same, element by element: the queue and the hands exclude each other,
\* and two hands are one.
Excluded(j) ==
  /\ tasks[j] > 0 => \A w \in Workers : ~(wk[w].pc # "idle" /\ wk[w].j = j)
  /\ \A v, w \in Workers :
       wk[v].pc # "idle" /\ wk[v].j = j /\ wk[w].pc # "idle" /\ wk[w].j = j => v = w

LEMMA SingleExecutorByElements ==
  SingleExecutor <=> (~Serverless => \A j \in Requests : Excluded(j))
  BY DEF SingleExecutor, Handling, Excluded

LEMMA SingleExecutorStep ==
  ASSUME TypeOK, HandsHoldJobs, JobsAreGated, SingleExecutor, [Next]_vars
  PROVE  SingleExecutor'
<1> SUFFICES ASSUME ~Serverless, NEW j \in Requests PROVE Excluded(j)'
  BY SingleExecutorByElements DEF SingleExecutor, Handling, Excluded
<1>0. /\ \A i \in Requests : Excluded(i)
      /\ tasks \in [Requests -> Nat]
      /\ wk \in [Workers -> WorkerRow]
  BY SingleExecutorByElements DEF TypeOK
<1>1. ASSUME tasks'[j] > 0 => tasks[j] > 0, UNCHANGED wk PROVE Excluded(j)'
  BY <1>0, <1>1 DEF Excluded
<1>2. ASSUME NEW w \in Workers, Proceeds(w), UNCHANGED tasks PROVE Excluded(j)'
  BY <1>0, <1>2, ProceedingKeepsTheJob DEF Excluded
<1>3. ASSUME NEW w \in Workers, Ends(w) PROVE Excluded(j)'
  <2>1. wk' = [wk EXCEPT ![w] = IdleWorker] /\ wk[w].pc # "idle" /\ IdleWorker.pc = "idle"
    BY <1>0, <1>3, EndingIsIdle DEF IdleWorker
  <2>2. CASE wk[w].j = j
    BY <1>0, <2>1, <2>2 DEF Excluded
  <2>3. CASE wk[w].j # j
    BY <1>0, <1>3, <2>1, <2>3, EndingTouchesItsTask DEF Excluded
  <2> QED BY <2>2, <2>3
<1>4. ASSUME NEW w \in Workers, NEW i \in Requests, Deliver(w, i) PROVE Excluded(j)'
  <2>1. /\ tasks[i] > 0
        /\ tasks' = [tasks EXCEPT ![i] = 0]
        /\ wk'[w].j = i
        /\ wk[w].pc = "idle"
        /\ \A v \in Workers \ {w} : wk'[v] = wk[v]
    BY <1>0, <1>4 DEF Deliver, TakeTask, IdleWorker
  <2>2. CASE i = j
    BY <1>0, <2>1, <2>2 DEF Excluded
  <2>3. CASE i # j
    BY <1>0, <2>1, <2>3 DEF Excluded
  <2> QED BY <2>2, <2>3
<1>5. CASE Restart
  BY <1>5 DEF Restart, IdleWorker, Excluded
<1>6. ASSUME NEW r \in Requests, req[r].pc = "idle", UNCHANGED wk,
             tasks' = [tasks EXCEPT ![r] = DispatchTries]
      PROVE Excluded(j)'
  <2>1. \A w \in Workers : wk[w].pc # "idle" => wk[w].j # r
    BY <1>0, <1>6 DEF HandsHoldJobs, JobsAreGated
  <2>2. CASE r = j
    BY <1>0, <1>6, <2>1, <2>2 DEF Excluded
  <2>3. CASE r # j
    BY <1>0, <1>1, <1>6, <2>3
  <2> QED BY <2>2, <2>3
<1>7. ASSUME NEW i \in Requests, tasks' = Ack(i), UNCHANGED wk PROVE Excluded(j)'
  BY <1>0, <1>1, <1>7 DEF Ack
<1>8. CASE UNCHANGED tasks
  BY <1>1, <1>2, <1>3, <1>4, <1>5, <1>8, StepsOfWorkers
<1> QED BY <1>3, <1>4, <1>5, <1>6, <1>7, <1>8, QueueSteps
-----------------------------------------------------------------------------
(* Attempts on a server deployment.                                         *)

\* Only a claim counts an attempt; an insert starts at none.
LEMMA AttemptSteps ==
  ASSUME TypeOK, [Next]_vars
  PROVE  \/ \E w \in Workers : Claim(w)
         \/ \E r \in Requests : IntakeCommit(r)
         \/ UNCHANGED runs /\ \A j \in Requests : job'[j].attempts = job[j].attempts
<1> DEFINE Kept == UNCHANGED runs /\ \A j \in Requests : job'[j].attempts = job[j].attempts
<1>0. job \in [Requests -> Row]
  BY DEF TypeOK
<1>1. CASE UNCHANGED <<job, runs>>
  BY <1>1
<1>2. ASSUME NEW w \in Workers, GiveUp(w) PROVE Kept
  BY <1>0, <1>2 DEF GiveUp, Row
<1>3. ASSUME NEW w \in Workers, Finish(w) PROVE Kept
  BY <1>0, <1>3 DEF Finish, Row
<1>4. ASSUME NEW w \in Workers, RecordFailure(w) PROVE Kept
  <2>1. ASSUME NEW j \in Requests PROVE job'[j].attempts = job[j].attempts
    <3>1. CASE j = wk[w].j
      BY <1>0, <1>4, <3>1 DEF RecordFailure, Row
    <3>2. CASE j # wk[w].j
      BY <1>0, <1>4, <3>2 DEF RecordFailure
    <3> QED BY <3>1, <3>2
  <2> QED BY <1>4, <2>1 DEF RecordFailure
<1>5. ASSUME NEW j \in Requests, GoStale(j) PROVE Kept
  BY <1>0, <1>5 DEF GoStale, Row, worker
<1>6. ASSUME NEW j \in Requests, FallDue(j) PROVE Kept
  BY <1>0, <1>6 DEF FallDue, Row, worker
<1>7. CASE OperatorRetries
  BY <1>0, <1>7 DEF OperatorRetries, Row, worker
<1>8. CASE OperatorCancels
  BY <1>0, <1>8 DEF OperatorCancels, Row, worker
<1>9. ASSUME NEW r \in Requests, NEW m \in Media, ReceiveMedia(r, m) \/ SendBrief(r, m)
      PROVE UNCHANGED <<job, runs>>
  BY <1>9 DEF ReceiveMedia, SendBrief, Intake, worker
<1>10. ASSUME NEW r \in Requests, RefuseUnentitled(r) \/ IntakeRollback(r)
       PROVE UNCHANGED <<job, runs>>
  BY <1>10 DEF RefuseUnentitled, IntakeRollback, worker
<1>11. ASSUME NEW w \in Workers, NEW j \in Requests, DeliverToNothing(w, j) \/ Deliver(w, j)
       PROVE UNCHANGED <<job, runs>>
  BY <1>11 DEF DeliverToNothing, Deliver, worker
<1>12. ASSUME NEW w \in Workers, Work(w) \/ Raise(w) \/ AnswerSwallowed(w) \/ WorkerCrash(w)
       PROVE Claim(w) \/ Kept
  BY <1>1, <1>2, <1>3, <1>4, <1>12
     DEF Work, Defer, LoadMedia, FetchFindsNothing, Fetch, RecordFetched,
         Extract, RejectPdf, Answer, Raise, AnswerSwallowed, WorkerCrash
<1>13. ASSUME NEW m \in Media, CloseWindow(m) PROVE UNCHANGED <<job, runs>>
  BY <1>13 DEF CloseWindow, worker
<1>14. ASSUME NEW kind \in {"retry", "cancel"}, NEW j \in Requests, OperatorReads(kind, j)
       PROVE UNCHANGED <<job, runs>>
  BY <1>14 DEF OperatorReads, worker
<1>15. CASE Restart \/ UNCHANGED vars
  BY <1>1, <1>15 DEF Restart, vars, worker
<1> QED BY <1>1, <1>5, <1>6, <1>7, <1>8, <1>9, <1>10, <1>11, <1>12, <1>13, <1>14, <1>15
        DEF Next

\* A worker reads its row when it takes the delivery, and keeps what it read.
LEMMA LoadedSteps ==
  ASSUME TypeOK, [Next]_vars, NEW w \in Workers, wk'[w].pc = "loaded"
  PROVE  \/ wk'[w] = wk[w]
         \/ wk'[w].j \in Requests /\ wk'[w].snap = job[wk'[w].j] /\ UNCHANGED job
<1>0. wk \in [Workers -> WorkerRow]
  BY DEF TypeOK
<1>1. ASSUME NEW v \in Workers, Proceeds(v) PROVE wk'[w] = wk[w]
  BY <1>0, <1>1, ProceedingKeepsTheJob
<1>2. ASSUME NEW v \in Workers, Ends(v) PROVE wk'[w] = wk[w]
  BY <1>0, <1>2, EndingIsIdle DEF IdleWorker
<1>3. ASSUME NEW v \in Workers, NEW j \in Requests, Deliver(v, j)
      PROVE \/ wk'[w] = wk[w]
            \/ wk'[w].j \in Requests /\ wk'[w].snap = job[wk'[w].j] /\ UNCHANGED job
  BY <1>0, <1>3 DEF Deliver, IdleWorker
<1>4. CASE Restart
  BY <1>4 DEF Restart, IdleWorker
<1> QED BY <1>1, <1>2, <1>3, <1>4, StepsOfWorkers

LEMMA RunsAreAttemptsStep ==
  ASSUME TypeOK, HandsHoldJobs, JobsAreGated, SingleExecutor, RunsAreAttempts, ~Serverless, [Next]_vars
  PROVE  RunsAreAttempts'
<1>0. /\ job \in [Requests -> Row]
      /\ runs \in [Requests -> Nat]
      /\ wk \in [Workers -> WorkerRow]
      /\ PolicyMax \in Nat
  BY Constants DEF TypeOK
<1>1. ASSUME NEW w \in Workers, Claim(w) PROVE RunsAreAttempts'
  <2> DEFINE j == wk[w].j
  <2>1. /\ j \in Requests
        /\ wk[w].snap.attempts = job[j].attempts
        /\ wk[w].snap.attempts < PolicyMax
        /\ wk[w].snap \in Row
    BY <1>0, <1>1 DEF Claim, RunsAreAttempts, Exhausted, WorkerRow, Row
  <2>2. /\ job'[j].attempts = job[j].attempts + 1
        /\ runs'[j] = runs[j] + 1
        /\ job'[j].state # "ABSENT"
        /\ \A i \in Requests \ {j} : job'[i] = job[i] /\ runs'[i] = runs[i]
    BY <1>0, <1>1, <2>1 DEF Claim, Row, HandsHoldJobs
  <2>3. ASSUME NEW i \in Requests
        PROVE RowCountsClaims(i)'
    <3>1. RowCountsClaims(i) /\ RowCountsClaims(j) /\ job[j].attempts \in Nat
      BY <1>0, <2>1 DEF RunsAreAttempts, Row
    <3>2. CASE i = j
      BY <1>0, <2>1, <2>2, <3>1, <3>2 DEF RowCountsClaims
    <3>3. CASE i # j
      BY <2>2, <3>1, <3>3 DEF RowCountsClaims
    <3> QED BY <3>2, <3>3
  <2>4. ASSUME NEW v \in Workers, wk'[v].pc = "loaded"
        PROVE wk'[v].snap.attempts = job'[wk'[v].j].attempts
    <3>1. v # w /\ wk'[v] = wk[v] /\ wk[v].j \in Requests
      BY <1>0, <1>1, <2>4, ProceedingKeepsTheJob DEF Proceeds, WorkerRow
    <3>2. wk[v].j # j
      BY <1>1, <2>4, <3>1 DEF SingleExecutor, Handling, Claim
    <3> QED BY <2>2, <2>4, <3>1, <3>2 DEF RunsAreAttempts
  <2> QED BY <2>3, <2>4 DEF RunsAreAttempts
<1>2. ASSUME NEW r \in Requests, IntakeCommit(r) PROVE RunsAreAttempts'
  <2>1. job[r].state = "ABSENT" /\ NewJob.attempts = 0 /\ UNCHANGED <<wk, runs>>
    BY <1>2 DEF IntakeCommit, JobsAreGated, NewJob, NoJob, worker
  <2>2. /\ job'[r] = job[r] \/ job'[r] = NewJob
        /\ \A i \in Requests \ {r} : job'[i] = job[i]
    BY <1>0, <1>2 DEF IntakeCommit
  <2>3. ASSUME NEW i \in Requests
        PROVE RowCountsClaims(i)' /\ job'[i].attempts = job[i].attempts
    <3>1. RowCountsClaims(i)
      BY DEF RunsAreAttempts
    <3> QED BY <2>1, <2>2, <3>1 DEF RowCountsClaims
  <2> QED BY <1>0, <2>1, <2>3 DEF RunsAreAttempts, WorkerRow
<1>3. CASE UNCHANGED runs /\ \A j \in Requests : job'[j].attempts = job[j].attempts
  <2>1. ASSUME NEW j \in Requests PROVE RowCountsClaims(j)'
    <3>1. RowCountsClaims(j)
      BY DEF RunsAreAttempts
    <3>2. job'[j].state = "ABSENT" => job[j].state = "ABSENT"
      BY PresentStays
    <3> QED BY <1>3, <3>1, <3>2 DEF RowCountsClaims
  <2>2. ASSUME NEW w \in Workers, wk'[w].pc = "loaded"
        PROVE wk'[w].snap.attempts = job'[wk'[w].j].attempts
    <3>1. CASE wk'[w] = wk[w]
      BY <1>0, <1>3, <2>2, <3>1 DEF RunsAreAttempts, WorkerRow
    <3>2. CASE wk'[w].snap = job[wk'[w].j] /\ UNCHANGED job
      BY <3>2
    <3> QED BY <2>2, <3>1, <3>2, LoadedSteps
  <2> QED BY <1>3, <2>1, <2>2 DEF RunsAreAttempts
<1> QED BY <1>1, <1>2, <1>3, AttemptSteps
-----------------------------------------------------------------------------
LEMMA InvariantStep == IInv /\ [Next]_vars => IInv'
<1> SUFFICES ASSUME IInv, [Next]_vars PROVE IInv'
  OBVIOUS
<1>1. /\ TypeInv /\ TypeOK /\ JobsAreGated /\ HandsHoldJobs
      /\ PaidWorkIsGated /\ SingleExecutor
      /\ ~Serverless => RunsAreAttempts
  BY DEF IInv, TypeInv
<1>2. TypeInv'
  BY <1>1, TypeStep
<1>3. JobsAreGated' /\ HandsHoldJobs'
  BY <1>1, JobsAreGatedStep, HandsHoldJobsStep
<1>4. PaidWorkIsGated' /\ SingleExecutor'
  BY <1>1, PaidWorkIsGatedStep, SingleExecutorStep
<1>5. ~Serverless => RunsAreAttempts'
  BY <1>1, RunsAreAttemptsStep
<1> QED BY <1>2, <1>3, <1>4, <1>5 DEF IInv

LEMMA Invariant == Spec => []IInv
  BY InitIInv, InvariantStep, PTL DEF Spec

\* The cost gate: whatever the queue, the crashes and the operator do, no byte
\* is downloaded and no reading is paid for without a committed message that
\* passed the allowance and carried a brief.
THEOREM CostGate == Spec => []PaidWorkIsGated
<1>1. IInv => PaidWorkIsGated
  BY DEF IInv
<1> QED BY <1>1, Invariant, PTL

\* With InProcessTaskQueue a job is never queued while it runs and never run
\* twice at once, restarts and sweeps included.
THEOREM OneExecutor == Spec => []SingleExecutor
<1>1. IInv => SingleExecutor
  BY DEF IInv
<1> QED BY <1>1, Invariant, PTL

\* "The row itself refuses after N attempts": with InProcessTaskQueue no job
\* is ever claimed more than PolicyMax times, whatever an operator raises
\* max_attempts to.
THEOREM AttemptsAreBounded == Spec => []ServerRowRefusesAfterN
<1>1. IInv => ServerRowRefusesAfterN
  BY DEF IInv, RunsAreAttempts, RowCountsClaims, ServerRowRefusesAfterN, RowRefusesAfterN
<1> QED BY <1>1, Invariant, PTL
-----------------------------------------------------------------------------
(* The ledger, on every deployment.                                         *)

Unread == {"idle", "loaded", "claimed", "refused", "fetching", "settling", "flushing",
           "extracting"}

\* A worker has nothing to charge or keep before it has read the file.
NothingReadYet(w) == wk[w].pc \in Unread => wk[w].paid = {} /\ wk[w].keep = {}

\* Two workers past their first UPDATE hold the locks of two attachments.
RowLockIsExclusive ==
  \A v, w \in Workers :
    /\ v # w
    /\ wk[v].pc \in {"extracting", "writing"}
    /\ wk[w].pc \in {"extracting", "writing"}
    => MediaOf(v) # MediaOf(w)

\* The words of a page a worker is about to charge are new to the ledger, and
\* are stored with the charge.
ChargeIsNew(w, p) ==
  wk[w].pc = "writing" /\ <<p, TRUE>> \in wk[w].paid =>
    p \in wk[w].keep /\ ledger[MediaOf(w)][<<p, TRUE>>] = 0

\* The words of a charged page are in the cache.
ChargedIsStored(m, p) ==
  /\ ledger[m][<<p, TRUE>>] <= 1
  /\ ledger[m][<<p, TRUE>>] = 1 => CacheKey(m, p) \in stored

LedgerInv ==
  /\ \A w \in Workers : NothingReadYet(w)
  /\ \A w \in Workers, p \in Pages : ChargeIsNew(w, p)
  /\ \A m \in Media, p \in Pages : ChargedIsStored(m, p)
  /\ RowLockIsExclusive

\* An attachment in hand stays the one the job was made for.
LEMMA MediaOfStays ==
  ASSUME TypeOK, HandsHoldJobs, JobsAreGated, [Next]_vars, NEW w \in Workers,
         wk[w].pc # "idle", wk'[w].j = wk[w].j
  PROVE  MediaOf(w)' = MediaOf(w) /\ MediaOf(w) \in Media
<1>1. wk[w].j \in Requests /\ req \in [Requests -> RequestRow]
  BY DEF TypeOK, WorkerRow
<1>2. req'[wk[w].j] = req[wk[w].j]
  BY <1>1, PresentStays DEF HandsHoldJobs
<1> QED BY <1>1, <1>2 DEF MediaOf, RequestRow

\* The ledger and the extraction cache are written by Finish alone.
LEMMA LedgerSteps ==
  ASSUME [Next]_vars
  PROVE  (\E w \in Workers : Finish(w)) \/ UNCHANGED <<ledger, stored>>
<1>1. ASSUME NEW w \in Workers, Work(w) \/ Raise(w) \/ AnswerSwallowed(w) \/ WorkerCrash(w)
      PROVE  Finish(w) \/ UNCHANGED <<ledger, stored>>
  BY <1>1 DEF Work, GiveUp, Defer, Claim, LoadMedia, FetchFindsNothing, Fetch, RecordFetched,
     Extract, RejectPdf, RecordFailure, Answer, Raise, AnswerSwallowed, WorkerCrash
<1>2. ASSUME NEW r \in Requests, NEW m \in Media, ReceiveMedia(r, m) \/ SendBrief(r, m)
      PROVE UNCHANGED <<ledger, stored>>
  BY <1>2 DEF ReceiveMedia, SendBrief, Intake
<1>3. ASSUME NEW r \in Requests,
             RefuseUnentitled(r) \/ IntakeCommit(r) \/ IntakeRollback(r) \/ GoStale(r) \/ FallDue(r)
      PROVE UNCHANGED <<ledger, stored>>
  BY <1>3 DEF RefuseUnentitled, IntakeCommit, IntakeRollback, GoStale, FallDue
<1>4. ASSUME NEW w \in Workers, NEW j \in Requests, DeliverToNothing(w, j) \/ Deliver(w, j)
      PROVE UNCHANGED <<ledger, stored>>
  BY <1>4 DEF DeliverToNothing, Deliver
<1>5. ASSUME NEW m \in Media, CloseWindow(m) PROVE UNCHANGED <<ledger, stored>>
  BY <1>5 DEF CloseWindow
<1>6. ASSUME NEW kind \in {"retry", "cancel"}, NEW j \in Requests, OperatorReads(kind, j)
      PROVE UNCHANGED <<ledger, stored>>
  BY <1>6 DEF OperatorReads
<1>7. CASE OperatorRetries \/ OperatorCancels \/ Restart \/ UNCHANGED vars
  BY <1>7 DEF OperatorRetries, OperatorCancels, Restart, vars
<1> QED BY <1>1, <1>2, <1>3, <1>4, <1>5, <1>6, <1>7 DEF Next

\* How a worker's stage, and what it has read, change while it proceeds.
ReadsInOrder(w) ==
  /\ wk'[w].pc \in Unread =>
       wk[w].pc \in Unread /\ wk'[w].paid = wk[w].paid /\ wk'[w].keep = wk[w].keep
  /\ wk'[w].pc = "extracting" => ~RowLocked(MediaOf(w))
  /\ wk'[w].pc = "writing" =>
       /\ wk[w].pc = "extracting"
       /\ \A p \in Pages : <<p, TRUE>> \in wk'[w].paid =>
            \/ <<p, TRUE>> \in wk[w].paid
            \/ p \in wk'[w].keep /\ CacheKey(MediaOf(w), p) \notin stored

LEMMA ReadingSteps ==
  ASSUME TypeOK, NEW w \in Workers, Proceeds(w)
  PROVE  ReadsInOrder(w)
<1>0. wk \in [Workers -> WorkerRow] /\ MediaOf(w) \in Media
  BY DEF TypeOK, WorkerRow, MediaOf, RequestRow
<1>1. CASE Claim(w)
  BY <1>0, <1>1 DEF Claim, ReadsInOrder, Unread, WorkerRow
<1>2. CASE LoadMedia(w)
  BY <1>0, <1>2 DEF LoadMedia, ReadsInOrder, Unread, WorkerRow
<1>3. CASE FetchFindsNothing(w)
  BY <1>0, <1>3 DEF FetchFindsNothing, ReadsInOrder, Unread, WorkerRow
<1>4. CASE Fetch(w)
  BY <1>0, <1>4 DEF Fetch, ReadsInOrder, Unread, WorkerRow
<1>5. CASE RecordFetched(w)
  BY <1>0, <1>5 DEF RecordFetched, ReadsInOrder, Unread, WorkerRow
<1>7. CASE Extract(w)
  <2>1. PICK paid \in SUBSET Charge, keep \in SUBSET Pages : Reads(w, paid, keep)
    BY <1>0, <1>7, ExtractReads
  <2>2. wk'[w].pc = "writing" /\ wk'[w].paid = paid /\ wk'[w].keep = keep
    BY <1>0, <2>1 DEF WorkerRow, Reads
  <2>3. wk[w].pc = "extracting"
    BY <1>7 DEF Extract
  <2> QED BY <2>1, <2>2, <2>3 DEF ReadsInOrder, Unread, Reads
<1>8. CASE RejectPdf(w)
  BY <1>0, <1>8 DEF RejectPdf, ReadsInOrder, Unread, WorkerRow
<1>9. CASE Finish(w) \/ Raise(w)
  <2>1. wk'[w].pc \in {"answering", "failing"}
    BY <1>0, <1>9 DEF Finish, Raise, WorkerRow
  <2> QED BY <2>1 DEF ReadsInOrder, Unread
<1> QED BY <1>1, <1>2, <1>3, <1>4, <1>5, <1>7, <1>8, <1>9 DEF Proceeds

\* A worker's record after a step: unchanged, that of a worker who holds
\* nothing yet, or one step further.
LEMMA WorkerAfterStep ==
  ASSUME TypeOK, [Next]_vars, NEW w \in Workers
  PROVE  \/ wk'[w] = wk[w]
         \/ wk'[w].pc \in {"idle", "loaded"} /\ wk'[w].paid = {} /\ wk'[w].keep = {}
         \/ Proceeds(w) /\ \A u \in Workers \ {w} : wk'[u] = wk[u]
<1>0. wk \in [Workers -> WorkerRow]
  BY DEF TypeOK
<1>1. ASSUME NEW v \in Workers, Proceeds(v)
      PROVE  wk'[w] = wk[w] \/ (Proceeds(w) /\ \A u \in Workers \ {w} : wk'[u] = wk[u])
  BY <1>0, <1>1, ProceedingKeepsTheJob
<1>2. ASSUME NEW v \in Workers, Ends(v)
      PROVE  wk'[w] = wk[w] \/ (wk'[w].pc \in {"idle", "loaded"} /\ wk'[w].paid = {} /\ wk'[w].keep = {})
  BY <1>0, <1>2, EndingIsIdle DEF IdleWorker
<1>3. ASSUME NEW v \in Workers, NEW j \in Requests, Deliver(v, j)
      PROVE  wk'[w] = wk[w] \/ (wk'[w].pc \in {"idle", "loaded"} /\ wk'[w].paid = {} /\ wk'[w].keep = {})
  BY <1>0, <1>3 DEF Deliver, IdleWorker
<1>4. CASE Restart
  BY <1>4 DEF Restart, IdleWorker
<1> QED BY <1>1, <1>2, <1>3, <1>4, StepsOfWorkers

\* A worker with the lock of a row had it before the step, or took it free.
LEMMA LockSteps ==
  ASSUME IInv, [Next]_vars, NEW w \in Workers, wk'[w].pc \in {"extracting", "writing"}
  PROVE  /\ MediaOf(w)' = MediaOf(w)
         /\ \/ wk[w].pc \in {"extracting", "writing"}
            \/ ~RowLocked(MediaOf(w)) /\ \A u \in Workers \ {w} : wk'[u] = wk[u]
<1>0. /\ TypeOK /\ HandsHoldJobs /\ JobsAreGated
      /\ wk \in [Workers -> WorkerRow]
  BY DEF IInv, TypeInv, TypeOK
<1>1. CASE wk'[w] = wk[w]
  BY <1>0, <1>1, MediaOfStays
<1>2. CASE Proceeds(w) /\ \A u \in Workers \ {w} : wk'[u] = wk[u]
  <2>1. MediaOf(w)' = MediaOf(w)
    BY <1>0, <1>2, MediaOfStays, ProceedingKeepsTheJob
  <2>2. ReadsInOrder(w)
    BY <1>0, <1>2, ReadingSteps
  <2> QED BY <1>2, <2>1, <2>2 DEF ReadsInOrder
<1> QED BY <1>0, <1>1, <1>2, WorkerAfterStep

\* What finishing writes to the ledger: one charge more for each page paid.
LEMMA FinishCharges ==
  ASSUME NEW w \in Workers, MediaOf(w) \in Media, Finish(w),
         ledger \in [Media -> LedgerRow]
  PROVE  /\ \A m \in Media \ {MediaOf(w)} : ledger'[m] = ledger[m]
         /\ \A e \in Charge :
              ledger'[MediaOf(w)][e] = IF e \in wk[w].paid THEN ledger[MediaOf(w)][e] + 1
                                       ELSE ledger[MediaOf(w)][e]
         /\ wk[w].paid = {} => ledger' = ledger
<1> DEFINE row == [e \in Charge |->
                     IF e \in wk[w].paid THEN ledger[MediaOf(w)][e] + 1
                     ELSE ledger[MediaOf(w)][e]]
<1>1. ledger' = [ledger EXCEPT ![MediaOf(w)] = row]
  BY DEF Finish
<1>2. ASSUME wk[w].paid = {} PROVE ledger' = ledger
  <2>1. row = [e \in Charge |-> ledger[MediaOf(w)][e]]
    BY <1>2
  <2>2. ledger[MediaOf(w)] \in [Charge -> Nat]
    BY DEF LedgerRow
  <2>3. row = ledger[MediaOf(w)]
    BY <2>1, <2>2
  <2> HIDE DEF row
  <2> QED BY <1>1, <2>3
<1> HIDE DEF row
<1>3. ledger'[MediaOf(w)] = row /\ \A m \in Media \ {MediaOf(w)} : ledger'[m] = ledger[m]
  BY <1>1
<1> QED BY <1>2, <1>3 DEF row

LEMMA LedgerInvStep == IInv /\ LedgerInv /\ [Next]_vars => LedgerInv'
<1> SUFFICES ASSUME IInv, LedgerInv, [Next]_vars PROVE LedgerInv'
  OBVIOUS
<1>0. /\ TypeOK /\ HandsHoldJobs /\ JobsAreGated
      /\ wk \in [Workers -> WorkerRow]
      /\ ledger \in [Media -> LedgerRow]
      /\ \A w \in Workers : MediaOf(w) \in Media
  BY DEF IInv, TypeInv, TypeOK, WorkerRow, MediaOf, RequestRow
<1>1. ASSUME NEW w \in Workers PROVE NothingReadYet(w)'
  <2>1. NothingReadYet(w)
    BY DEF LedgerInv
  <2>2. CASE Proceeds(w)
    <3>1. ReadsInOrder(w)
      BY <1>0, <2>2, ReadingSteps
    <3> QED BY <2>1, <3>1 DEF NothingReadYet, ReadsInOrder
  <2> QED BY <1>0, <2>1, <2>2, WorkerAfterStep DEF NothingReadYet
<1>2. RowLockIsExclusive'
  <2> SUFFICES ASSUME NEW v \in Workers, NEW w \in Workers, v # w,
                      wk'[v].pc \in {"extracting", "writing"},
                      wk'[w].pc \in {"extracting", "writing"}
               PROVE  MediaOf(v)' # MediaOf(w)'
    BY DEF RowLockIsExclusive
  <2>1. MediaOf(v)' = MediaOf(v) /\ MediaOf(w)' = MediaOf(w)
    BY LockSteps
  <2>2. CASE wk[v].pc \in {"extracting", "writing"} /\ wk[w].pc \in {"extracting", "writing"}
    BY <2>1, <2>2 DEF LedgerInv, RowLockIsExclusive
  <2>3. CASE wk[v].pc \notin {"extracting", "writing"}
    <3>1. ~RowLocked(MediaOf(v)) /\ wk'[w] = wk[w]
      BY <2>3, LockSteps
    <3> QED BY <2>1, <3>1 DEF RowLocked
  <2>4. CASE wk[w].pc \notin {"extracting", "writing"}
    <3>1. ~RowLocked(MediaOf(w)) /\ wk'[v] = wk[v]
      BY <2>4, LockSteps
    <3> QED BY <2>1, <3>1 DEF RowLocked
  <2> QED BY <2>2, <2>3, <2>4
<1>3. ASSUME NEW w \in Workers, NEW p \in Pages, wk'[w].pc = "writing",
             <<p, TRUE>> \in wk'[w].paid
      PROVE  p \in wk'[w].keep /\ ledger'[MediaOf(w)'][<<p, TRUE>>] = 0
  <2>1. MediaOf(w)' = MediaOf(w) /\ MediaOf(w) \in Media
    BY <1>0, <1>3, LockSteps
  <2> DEFINE charges == ledger[MediaOf(w)][<<p, TRUE>>]
  <2>2. p \in wk'[w].keep /\ charges = 0 /\ wk[w].pc \in {"extracting", "writing"}
    <3>1. CASE wk'[w] = wk[w]
      BY <1>3, <3>1 DEF LedgerInv, ChargeIsNew
    <3>2. CASE Proceeds(w)
      <4>1. ReadsInOrder(w) /\ NothingReadYet(w)
        BY <1>0, <3>2, ReadingSteps DEF LedgerInv
      <4>2. /\ p \in wk'[w].keep /\ wk[w].pc = "extracting"
            /\ CacheKey(MediaOf(w), p) \notin stored
        BY <1>3, <4>1 DEF ReadsInOrder, NothingReadYet, Unread
      <4>3. ChargedIsStored(MediaOf(w), p) /\ charges \in Nat
        <5>1. ledger[MediaOf(w)] \in LedgerRow /\ <<p, TRUE>> \in Charge
          BY <1>0, <2>1 DEF Charge
        <5>2. charges \in Nat
          BY <5>1 DEF LedgerRow
        <5> QED BY <2>1, <5>2 DEF LedgerInv
      <4>4. charges = 0
        BY <4>2, <4>3 DEF ChargedIsStored
      <4> QED BY <4>2, <4>4
    <3> QED BY <1>0, <1>3, <3>1, <3>2, WorkerAfterStep
  <2>3. CASE UNCHANGED ledger
    BY <2>1, <2>2, <2>3
  <2>4. ASSUME NEW v \in Workers, Finish(v) PROVE ledger'[MediaOf(w)] = ledger[MediaOf(w)]
    <3>1. v # w
      BY <1>0, <1>3, <2>4 DEF Finish, WorkerRow
    <3>2. CASE wk[v].pc = "writing"
      <4>1. MediaOf(v) # MediaOf(w)
        BY <2>2, <3>1, <3>2 DEF LedgerInv, RowLockIsExclusive
      <4> QED BY <1>0, <2>1, <2>4, <4>1 DEF Finish
    <3>3. CASE wk[v].pc # "writing"
      <4>1. wk[v].paid = {}
        BY <2>4, <3>3 DEF Finish, LedgerInv, NothingReadYet, Unread
      <4> QED BY <1>0, <2>1, <2>4, <4>1, FinishCharges
    <3> QED BY <3>2, <3>3
  <2> QED BY <2>1, <2>2, <2>3, <2>4, LedgerSteps
<1>4. ASSUME NEW m \in Media, NEW p \in Pages PROVE ChargedIsStored(m, p)'
  <2>0. ChargedIsStored(m, p)
    BY DEF LedgerInv
  <2>1. CASE UNCHANGED <<ledger, stored>>
    BY <2>0, <2>1 DEF ChargedIsStored, CacheKey
  <2>2. ASSUME NEW w \in Workers, Finish(w) PROVE ChargedIsStored(m, p)'
    <3>1. stored' = stored \cup {CacheKey(MediaOf(w), q) : q \in wk[w].keep}
      BY <2>2 DEF Finish
    <3>2. CASE m = MediaOf(w) /\ <<p, TRUE>> \in wk[w].paid
      <4>1. wk[w].pc = "writing"
        BY <2>2, <3>2 DEF Finish, LedgerInv, NothingReadYet, Unread
      <4>2. p \in wk[w].keep /\ ledger[m][<<p, TRUE>>] = 0
        BY <3>2, <4>1 DEF LedgerInv, ChargeIsNew
      <4>3. ledger'[m][<<p, TRUE>>] = 1
        <5>1. <<p, TRUE>> \in Charge /\ MediaOf(w) \in Media
          BY <1>0 DEF Charge
        <5>2. ledger'[m][<<p, TRUE>>] = ledger[m][<<p, TRUE>>] + 1
          BY <1>0, <2>2, <3>2, <5>1, FinishCharges
        <5> QED BY <4>2, <5>2
      <4>4. CacheKey(m, p) \in stored'
        BY <3>1, <3>2, <4>2
      <4> QED BY <4>3, <4>4 DEF ChargedIsStored, CacheKey
    <3>3. CASE ~(m = MediaOf(w) /\ <<p, TRUE>> \in wk[w].paid)
      <4>1. ledger'[m][<<p, TRUE>>] = ledger[m][<<p, TRUE>>]
        <5>1. <<p, TRUE>> \in Charge /\ MediaOf(w) \in Media
          BY <1>0 DEF Charge
        <5> QED BY <1>0, <2>2, <3>3, <5>1, FinishCharges
      <4> QED BY <2>0, <3>1, <4>1 DEF ChargedIsStored, CacheKey
    <3> QED BY <3>2, <3>3
  <2> QED BY <2>1, <2>2, LedgerSteps
<1> QED BY <1>1, <1>2, <1>3, <1>4 DEF LedgerInv, ChargeIsNew

\* The words of a page of an attachment are charged once, whatever the queue
\* redelivers, however many workers overlap and however few pages each may pay
\* for: the row lock of record_fetched lets one reading of the attachment be
\* under way, and what it keeps is committed with its charges, so the next one
\* finds those pages and pays for others.
THEOREM ChargedOnce == Spec => []LedgerChargesOnce
<1>1. Init => LedgerInv
  <2> SUFFICES ASSUME Init PROVE LedgerInv
    OBVIOUS
  <2>1. \A w \in Workers : wk[w].pc = "idle" /\ wk[w].paid = {} /\ wk[w].keep = {}
    BY DEF Init, IdleWorker
  <2>2. \A m \in Media, p \in Pages : ledger[m][<<p, TRUE>>] = 0
    BY DEF Init, Charge
  <2>3. \A m \in Media, p \in Pages : ChargedIsStored(m, p)
    <3>1. 0 <= 1 /\ 0 # 1
      OBVIOUS
    <3> QED BY <2>2, <3>1 DEF ChargedIsStored
  <2> QED BY <2>1, <2>3 DEF LedgerInv, NothingReadYet, ChargeIsNew, RowLockIsExclusive
<1>2. LedgerInv => LedgerChargesOnce
  BY DEF LedgerInv, ChargedIsStored, LedgerChargesOnce
<1> QED BY <1>1, <1>2, Invariant, LedgerInvStep, PTL DEF Spec
-----------------------------------------------------------------------------
(* A finished job on a server deployment.                                   *)

\* A job in hand is not finished before its answer.
UnfinishedInHand ==
  ~Serverless => \A w \in Workers :
    wk[w].pc \notin {"idle", "answering"} => job[wk[w].j].state # "SUCCEEDED"

\* A row becomes SUCCEEDED when its worker finishes, and is taken back by a
\* worker that gives up, claims or fails, or by the operator.
SuccessMoves(j) ==
  \/ job'[j].state = "SUCCEEDED" <=> job[j].state = "SUCCEEDED"
  \/ \E w \in Workers : Finish(w) /\ wk[w].j = j /\ job'[j].state = "SUCCEEDED"
  \/ /\ job'[j].state # "SUCCEEDED"
     /\ \/ \E w \in Workers : wk[w].pc \in {"loaded", "failing"} /\ wk[w].j = j
        \/ op.pc = "read" /\ op'.pc = "idle"

LEMMA SuccessSteps ==
  ASSUME TypeOK, JobsAreGated, [Next]_vars, NEW j \in Requests
  PROVE  SuccessMoves(j)
<1>0. job \in [Requests -> Row] /\ wk \in [Workers -> WorkerRow] /\ op \in OpRow
  BY DEF TypeOK
<1>1. CASE UNCHANGED job
  BY <1>1 DEF SuccessMoves
<1>2. ASSUME NEW r \in Requests, IntakeCommit(r) PROVE SuccessMoves(j)
  <2>1. job[r].state = "ABSENT" /\ (UNCHANGED job \/ job' = [job EXCEPT ![r] = NewJob])
    BY <1>2 DEF IntakeCommit, JobsAreGated
  <2>2. NewJob.state = "PENDING"
    BY DEF NewJob, NoJob
  <2> QED BY <1>0, <1>1, <2>1, <2>2 DEF SuccessMoves
<1>3. ASSUME NEW w \in Workers, GiveUp(w) PROVE SuccessMoves(j)
  <2>1. CASE wk[w].j = j
    <3>1. job'[j].state = "FAILED_PERMANENT" /\ wk[w].pc = "loaded"
      BY <1>0, <1>3, <2>1 DEF GiveUp, Row
    <3> QED BY <2>1, <3>1 DEF SuccessMoves
  <2>2. CASE wk[w].j # j
    BY <1>0, <1>3, <2>2 DEF GiveUp, SuccessMoves
  <2> QED BY <2>1, <2>2
<1>4. ASSUME NEW w \in Workers, Claim(w) PROVE SuccessMoves(j)
  <2>1. CASE wk[w].j = j
    <3>1. wk[w].pc = "loaded" /\ (job'[j].state = job[j].state \/ job'[j].state = "RUNNING")
      BY <1>0, <1>4, <2>1 DEF Claim, Row
    <3> QED BY <2>1, <3>1 DEF SuccessMoves
  <2>2. CASE wk[w].j # j
    BY <1>0, <1>4, <2>2 DEF Claim, SuccessMoves
  <2> QED BY <2>1, <2>2
<1>5. ASSUME NEW w \in Workers, Finish(w) PROVE SuccessMoves(j)
  <2>1. CASE wk[w].j = j
    <3>1. job'[j].state = "SUCCEEDED"
      BY <1>0, <1>5, <2>1 DEF Finish, Row
    <3> QED BY <1>5, <2>1, <3>1 DEF SuccessMoves
  <2>2. CASE wk[w].j # j
    BY <1>0, <1>5, <2>2 DEF Finish, SuccessMoves
  <2> QED BY <2>1, <2>2
<1>6. ASSUME NEW w \in Workers, RecordFailure(w) PROVE SuccessMoves(j)
  <2>1. CASE wk[w].j = j
    <3>1. wk[w].pc = "failing" /\ job'[j].state \in {"FAILED_PERMANENT", "FAILED"}
      BY <1>0, <1>6, <2>1 DEF RecordFailure, Row
    <3> QED BY <2>1, <3>1 DEF SuccessMoves
  <2>2. CASE wk[w].j # j
    BY <1>0, <1>6, <2>2 DEF RecordFailure, SuccessMoves
  <2> QED BY <2>1, <2>2
<1>7. ASSUME NEW i \in Requests, GoStale(i) \/ FallDue(i) PROVE job'[j].state = job[j].state
  BY <1>0, <1>7 DEF GoStale, FallDue, Row
<1>8. CASE OperatorRetries
  <2>1. op.pc = "read" /\ op'.pc = "idle"
    BY <1>8 DEF OperatorRetries, IdleOp
  <2>2. job'[j].state = job[j].state \/ job'[j].state = "PENDING"
    BY <1>0, <1>8 DEF OperatorRetries, Row
  <2> QED BY <2>1, <2>2 DEF SuccessMoves
<1>9. CASE OperatorCancels
  <2>1. op.pc = "read" /\ op'.pc = "idle"
    BY <1>9 DEF OperatorCancels, IdleOp
  <2>2. job'[j].state = job[j].state \/ job'[j].state = "CANCELLED"
    BY <1>0, <1>9 DEF OperatorCancels, Row
  <2> QED BY <2>1, <2>2 DEF SuccessMoves
<1>10. ASSUME NEW r \in Requests, NEW m \in Media, ReceiveMedia(r, m) \/ SendBrief(r, m)
       PROVE UNCHANGED job
  BY <1>10 DEF ReceiveMedia, SendBrief, Intake
<1>11. ASSUME NEW r \in Requests, RefuseUnentitled(r) \/ IntakeRollback(r) PROVE UNCHANGED job
  BY <1>11 DEF RefuseUnentitled, IntakeRollback
<1>12. ASSUME NEW w \in Workers, NEW i \in Requests, DeliverToNothing(w, i) \/ Deliver(w, i)
       PROVE UNCHANGED job
  BY <1>12 DEF DeliverToNothing, Deliver
<1>13. ASSUME NEW w \in Workers, Work(w) \/ Raise(w) \/ AnswerSwallowed(w) \/ WorkerCrash(w)
       PROVE GiveUp(w) \/ Claim(w) \/ Finish(w) \/ RecordFailure(w) \/ UNCHANGED job
  BY <1>13 DEF Work, Defer, LoadMedia, FetchFindsNothing, Fetch, RecordFetched,
     Extract, RejectPdf, Answer, Raise, AnswerSwallowed, WorkerCrash
<1>14. ASSUME NEW m \in Media, CloseWindow(m) PROVE UNCHANGED job
  BY <1>14 DEF CloseWindow
<1>15. ASSUME NEW kind \in {"retry", "cancel"}, NEW i \in Requests, OperatorReads(kind, i)
       PROVE UNCHANGED job
  BY <1>15 DEF OperatorReads
<1>16. CASE Restart \/ UNCHANGED vars
  BY <1>1, <1>16 DEF Restart, vars
<1>17. CASE job'[j].state = job[j].state
  BY <1>17 DEF SuccessMoves
<1> QED BY <1>1, <1>2, <1>3, <1>4, <1>5, <1>6, <1>7, <1>8, <1>9, <1>10, <1>11, <1>12, <1>13,
           <1>14, <1>15, <1>16, <1>17 DEF Next

\* A worker that answers has nothing left to do to the row.
LEMMA AnsweringIsOver ==
  ASSUME NEW w \in Workers, Proceeds(w)
  PROVE  wk[w].pc # "answering"
  BY DEF Proceeds, Claim, LoadMedia, FetchFindsNothing, Fetch, RecordFetched,
         Extract, RejectPdf, Finish, Raise, Raising

LEMMA UnfinishedStep == IInv /\ UnfinishedInHand /\ [Next]_vars => UnfinishedInHand'
<1> SUFFICES ASSUME IInv, UnfinishedInHand, [Next]_vars, ~Serverless, NEW w \in Workers,
                    wk'[w].pc \notin {"idle", "answering"}
             PROVE  job'[wk'[w].j].state # "SUCCEEDED"
  BY DEF UnfinishedInHand
<1>0. /\ TypeOK /\ HandsHoldJobs /\ JobsAreGated /\ SingleExecutor
      /\ wk \in [Workers -> WorkerRow]
  BY DEF IInv, TypeInv, TypeOK
<1>1. CASE wk'[w].j = wk[w].j /\ wk[w].pc \notin {"idle", "answering"}
  <2>1. PICK j \in Requests : j = wk[w].j
    BY <1>0 DEF WorkerRow
  <2>2. job[j].state # "SUCCEEDED"
    BY <1>1, <2>1 DEF UnfinishedInHand
  <2>3. ASSUME NEW v \in Workers, Finish(v), wk[v].j = j PROVE FALSE
    <3>1. wk[v].pc # "idle" /\ wk'[v].pc = "answering"
      BY <1>0, <2>3 DEF Finish, WorkerRow
    <3>2. v = w
      BY <1>0, <1>1, <2>1, <2>3, <3>1 DEF SingleExecutor, Handling
    <3> QED BY <3>1, <3>2
  <2> QED BY <1>0, <1>1, <2>1, <2>2, <2>3, SuccessSteps DEF SuccessMoves
<1>2. CASE UNCHANGED wk
  BY <1>1, <1>2
<1>3. ASSUME NEW v \in Workers, Proceeds(v)
      PROVE  wk'[w].j = wk[w].j /\ wk[w].pc \notin {"idle", "answering"}
  BY <1>0, <1>3, ProceedingKeepsTheJob, AnsweringIsOver
<1>4. ASSUME NEW v \in Workers, Ends(v)
      PROVE  wk'[w].j = wk[w].j /\ wk[w].pc \notin {"idle", "answering"}
  BY <1>0, <1>4, EndingIsIdle DEF IdleWorker
<1>5. ASSUME NEW v \in Workers, NEW j \in Requests, Deliver(v, j)
      PROVE  job'[wk'[w].j].state # "SUCCEEDED"
  <2>1. CASE v = w
    BY <1>0, <1>5, <2>1 DEF Deliver, IdleWorker, Settled
  <2>2. CASE v # w
    BY <1>0, <1>1, <1>5, <2>2 DEF Deliver
  <2> QED BY <2>1, <2>2
<1>6. CASE Restart
  BY <1>6 DEF Restart, IdleWorker
<1> QED BY <1>1, <1>2, <1>3, <1>4, <1>5, <1>6, StepsOfWorkers

\* With InProcessTaskQueue a SUCCEEDED job is taken back by an operator only:
\* no deferral, late failure, restart or sweep reopens it.
THEOREM FinishedStays == Spec => ServerFinishedStays
<1>1. Init => UnfinishedInHand
  BY DEF Init, UnfinishedInHand, IdleWorker
<1>2. IInv /\ UnfinishedInHand /\ [Next]_vars => [~Serverless => SuccessStays]_vars
  <2> SUFFICES ASSUME IInv, UnfinishedInHand, [Next]_vars, ~Serverless, NEW j \in Requests,
                      job[j].state = "SUCCEEDED", op' = op
               PROVE  job'[j].state = "SUCCEEDED"
    BY DEF SuccessStays
  <2>1. SuccessMoves(j)
    BY SuccessSteps DEF IInv, TypeInv
  <2>2. \A w \in Workers : wk[w].pc \in {"loaded", "failing"} => wk[w].j # j
    BY DEF UnfinishedInHand
  <2> QED BY <2>1, <2>2 DEF SuccessMoves
<1>3. Spec => []UnfinishedInHand
  BY <1>1, Invariant, UnfinishedStep, PTL DEF Spec
<1> QED BY <1>2, <1>3, Invariant, PTL DEF Spec, ServerFinishedStays
-----------------------------------------------------------------------------
(* What transition() allows in any number of calls.                         *)

LEMMA ReachesItself ==
  ASSUME NEW s \in MediaState
  PROVE  Reaches(s, s)
  BY DEF Reaches, Downstream

LEMMA ReachesFurther ==
  ASSUME NEW s \in MediaState, NEW t \in MediaState, NEW u \in MediaState,
         Reaches(s, t), u \in Allowed[t]
  PROVE  Reaches(s, u)
<1>1. ASSUME NEW c \in ClosedSets, s \in c PROVE u \in c
  <2>1. t \in c
    BY <1>1 DEF Reaches, Downstream
  <2> QED BY <2>1 DEF ClosedSets
<1> QED BY <1>1 DEF Reaches, Downstream

\* The moves of the two writers: intake's and process()'s.
LEMMA IntakeMoves ==
  /\ \A t \in {"REJECTED", "WAITING_FOR_BRIEF", "FETCH_QUEUED"} :
       Reaches("RECEIVED_REFERENCE", t)
  /\ \A t \in {"REJECTED", "FETCH_QUEUED"} : Reaches("WAITING_FOR_BRIEF", t)
<1> DEFINE R == "RECEIVED_REFERENCE"
           E == "ENTITLEMENT_CHECKED"
           W == "WAITING_FOR_BRIEF"
           B == "BRIEF_RECEIVED"
           Q == "FETCH_QUEUED"
           X == "REJECTED"
<1>1. {R, E, W, B, Q, X} \subseteq MediaState
  BY DEF MediaState
<1>2. X \in Allowed[R] /\ E \in Allowed[R] /\ W \in Allowed[E] /\ B \in Allowed[W]
        /\ Q \in Allowed[B] /\ X \in Allowed[W]
  BY DEF Allowed, MediaState
<1> HIDE DEF R, E, W, B, Q, X
<1>3. Reaches(R, R) /\ Reaches(W, W)
  BY <1>1, ReachesItself
<1>4. Reaches(R, X) /\ Reaches(R, E) /\ Reaches(W, B) /\ Reaches(W, X)
  BY <1>1, <1>2, <1>3, ReachesFurther
<1>5. Reaches(R, W) /\ Reaches(W, Q)
  BY <1>1, <1>2, <1>4, ReachesFurther
<1>6. Reaches(R, B)
  BY <1>1, <1>2, <1>5, ReachesFurther
<1>7. Reaches(R, Q)
  BY <1>1, <1>2, <1>6, ReachesFurther
<1> QED BY <1>4, <1>5, <1>7 DEF R, W, Q, X

LEMMA ProcessMoves ==
  \A s \in {"FETCH_QUEUED", "FETCHED"}, t \in {"FAILED", "REJECTED", "READY_FOR_CAPABILITY"} :
    Reaches(s, t)
<1> DEFINE Q == "FETCH_QUEUED"
           F == "FETCHED"
           V == "VALIDATED"
           P == "EXTRACTION_PLANNED"
           E == "EXTRACTING"
           D == "READY_FOR_CAPABILITY"
           X == "REJECTED"
           L == "FAILED"
<1>1. {Q, F, V, P, E, D, X, L} \subseteq MediaState
  BY DEF MediaState
<1>2. F \in Allowed[Q] /\ V \in Allowed[F] /\ P \in Allowed[V] /\ E \in Allowed[P]
        /\ D \in Allowed[E] /\ X \in Allowed[F] /\ L \in Allowed[F]
  BY DEF Allowed, MediaState
<1> HIDE DEF Q, F, V, P, E, D, X, L
<1>3. Reaches(F, F) /\ Reaches(Q, Q)
  BY <1>1, ReachesItself
<1>4. Reaches(Q, F)
  BY <1>1, <1>2, <1>3, ReachesFurther
<1>5. ASSUME NEW s \in {Q, F} PROVE Reaches(s, X) /\ Reaches(s, L) /\ Reaches(s, D)
  <2>1. s \in MediaState /\ Reaches(s, F)
    BY <1>1, <1>3, <1>4, <1>5
  <2>2. Reaches(s, X) /\ Reaches(s, L) /\ Reaches(s, V)
    BY <1>1, <1>2, <2>1, ReachesFurther
  <2>3. Reaches(s, P)
    BY <1>1, <1>2, <2>1, <2>2, ReachesFurther
  <2>4. Reaches(s, E)
    BY <1>1, <1>2, <2>1, <2>3, ReachesFurther
  <2>5. Reaches(s, D)
    BY <1>1, <1>2, <2>1, <2>4, ReachesFurther
  <2> QED BY <2>2, <2>5
<1> QED BY <1>5 DEF Q, F, D, X, L
-----------------------------------------------------------------------------
(* How an attachment moves.                                                 *)

Unqueued == {"ABSENT", "WAITING_FOR_BRIEF"}

\* A transaction that will write the attachment read it before it was queued,
\* and one that will insert a job also queues it.
WritesAreDue(r) ==
  /\ req[r].writes => /\ media[req[r].m] \in Unqueued
                      /\ req[r].target \in {"REJECTED", "WAITING_FOR_BRIEF", "FETCH_QUEUED"}
                      /\ req[r].target # media[req[r].m]
  /\ req[r].creates => req[r].writes /\ req[r].target = "FETCH_QUEUED"

OpenWritesAreDue == \A r \in Requests : req[r].pc = "open" => WritesAreDue(r)

\* The student's row lets one transaction at an attachment be open.
OneOpenPerMedia ==
  \A q, r \in Requests : q # r /\ req[q].pc = "open" /\ req[r].pc = "open" => req[q].m # req[r].m

\* An attachment with a job has been queued, and has one job.
JobsAreQueued ==
  \A r \in Requests : job[r].state # "ABSENT" => media[req[r].m] \notin Unqueued

OneJobPerMedia ==
  \A q, r \in Requests :
    q # r /\ job[q].state # "ABSENT" /\ job[r].state # "ABSENT" => req[q].m # req[r].m

\* What a worker will write depends on how far it came.
TargetsByStage ==
  \A w \in Workers :
    /\ wk[w].pc \in {"flushing", "extracting"} => wk[w].target = "READY_FOR_CAPABILITY"
    /\ wk[w].pc \in {"settling", "writing"} =>
         wk[w].target \in {"FAILED", "REJECTED", "READY_FOR_CAPABILITY"}

\* On a server deployment the attachment does not move between the check of
\* process() and its commit.
InProcess == {"fetching", "settling", "flushing", "extracting", "writing"}

ProcessedStays ==
  \A w \in Workers : wk[w].pc \in InProcess => CanProcess(media[MediaOf(w)])

MovesInv ==
  /\ OpenWritesAreDue
  /\ OneOpenPerMedia
  /\ JobsAreQueued
  /\ OneJobPerMedia
  /\ TargetsByStage
  /\ ~Serverless => ProcessedStays

\* The attachments are written by the two commits.
LEMMA MediaSteps ==
  ASSUME [Next]_vars
  PROVE  \/ UNCHANGED media
         \/ \E r \in Requests : IntakeCommit(r)
         \/ \E w \in Workers : /\ Finish(w)
                               /\ wk[w].pc \in {"settling", "writing"}
                               /\ media' = [media EXCEPT ![MediaOf(w)] = wk[w].target]
<1>1. ASSUME NEW w \in Workers, Finish(w)
      PROVE  \/ UNCHANGED media
             \/ /\ wk[w].pc \in {"settling", "writing"}
                /\ media' = [media EXCEPT ![MediaOf(w)] = wk[w].target]
  BY <1>1 DEF Finish
<1>2. ASSUME NEW w \in Workers, Work(w) \/ Raise(w) \/ AnswerSwallowed(w) \/ WorkerCrash(w)
      PROVE  Finish(w) \/ UNCHANGED media
  BY <1>2 DEF Work, GiveUp, Defer, Claim, LoadMedia, FetchFindsNothing, Fetch, RecordFetched,
     Extract, RejectPdf, RecordFailure, Answer, Raise, AnswerSwallowed, WorkerCrash
<1>3. ASSUME NEW r \in Requests, NEW m \in Media, ReceiveMedia(r, m) \/ SendBrief(r, m)
      PROVE UNCHANGED media
  BY <1>3 DEF ReceiveMedia, SendBrief, Intake
<1>4. ASSUME NEW r \in Requests,
             RefuseUnentitled(r) \/ IntakeRollback(r) \/ GoStale(r) \/ FallDue(r)
      PROVE UNCHANGED media
  BY <1>4 DEF RefuseUnentitled, IntakeRollback, GoStale, FallDue
<1>5. ASSUME NEW w \in Workers, NEW j \in Requests, DeliverToNothing(w, j) \/ Deliver(w, j)
      PROVE UNCHANGED media
  BY <1>5 DEF DeliverToNothing, Deliver
<1>6. ASSUME NEW m \in Media, CloseWindow(m) PROVE UNCHANGED media
  BY <1>6 DEF CloseWindow
<1>7. ASSUME NEW kind \in {"retry", "cancel"}, NEW j \in Requests, OperatorReads(kind, j)
      PROVE UNCHANGED media
  BY <1>7 DEF OperatorReads
<1>8. CASE OperatorRetries \/ OperatorCancels \/ Restart \/ UNCHANGED vars
  BY <1>8 DEF OperatorRetries, OperatorCancels, Restart, vars
<1> QED BY <1>1, <1>2, <1>3, <1>4, <1>5, <1>6, <1>7, <1>8 DEF Next

\* A transaction is opened by the intake of a message, and only a commit
\* writes both the request and a job.
LEMMA OpeningSteps ==
  ASSUME TypeOK, [Next]_vars
  PROVE  /\ \/ \A r \in Requests : req'[r].pc = "open" => req'[r] = req[r]
            \/ \E r \in Requests, m \in Media, briefed, allowed \in BOOLEAN :
                 Intake(r, m, briefed, allowed)
         /\ UNCHANGED req \/ UNCHANGED job \/ \E r \in Requests : IntakeCommit(r)
<1>0. req \in [Requests -> RequestRow]
  BY DEF TypeOK
<1>1. CASE UNCHANGED req
  BY <1>1
<1>2. ASSUME NEW r \in Requests, NEW m \in Media, ReceiveMedia(r, m) \/ SendBrief(r, m)
      PROVE  UNCHANGED job /\ \E briefed, allowed \in BOOLEAN : Intake(r, m, briefed, allowed)
  BY <1>2 DEF ReceiveMedia, SendBrief, Intake
<1>3. ASSUME NEW q \in Requests, RefuseUnentitled(q) \/ IntakeCommit(q) \/ IntakeRollback(q)
      PROVE  /\ \A r \in Requests : req'[r].pc = "open" => req'[r] = req[r]
             /\ UNCHANGED job \/ IntakeCommit(q)
  <2>1. req' = [req EXCEPT ![q].pc = "done"]
    BY <1>3 DEF RefuseUnentitled, IntakeCommit, IntakeRollback
  <2>2. \A r \in Requests : req'[r].pc = "open" => req'[r] = req[r]
    BY <1>0, <2>1 DEF RequestRow
  <2> QED BY <1>3, <2>2 DEF RefuseUnentitled, IntakeRollback
<1>4. CASE Restart
  <2>1. \A r \in Requests : req'[r].pc = "open" => req'[r] = req[r]
    BY <1>0, <1>4 DEF Restart, RequestRow
  <2> QED BY <1>4, <2>1 DEF Restart
<1>5. ASSUME NEW w \in Workers, NEW j \in Requests, DeliverToNothing(w, j) \/ Deliver(w, j)
      PROVE UNCHANGED req
  BY <1>5 DEF DeliverToNothing, Deliver
<1>6. ASSUME NEW w \in Workers, Work(w) \/ Raise(w) \/ AnswerSwallowed(w) \/ WorkerCrash(w)
      PROVE UNCHANGED req
  BY <1>6 DEF Work, GiveUp, Defer, Claim, LoadMedia, FetchFindsNothing, Fetch, RecordFetched,
     Extract, RejectPdf, Finish, RecordFailure, Answer, Raise,
     AnswerSwallowed, WorkerCrash
<1>7. ASSUME NEW j \in Requests, GoStale(j) \/ FallDue(j) PROVE UNCHANGED req
  BY <1>7 DEF GoStale, FallDue
<1>8. ASSUME NEW m \in Media, CloseWindow(m) PROVE UNCHANGED req
  BY <1>8 DEF CloseWindow
<1>9. ASSUME NEW kind \in {"retry", "cancel"}, NEW j \in Requests, OperatorReads(kind, j)
      PROVE UNCHANGED req
  BY <1>9 DEF OperatorReads
<1>10. CASE OperatorRetries \/ OperatorCancels \/ UNCHANGED vars
  BY <1>1, <1>10 DEF OperatorRetries, OperatorCancels, vars
<1> QED BY <1>1, <1>2, <1>3, <1>4, <1>5, <1>6, <1>7, <1>8, <1>9, <1>10 DEF Next

\* A job appears by the commit of a request that creates it.
LEMMA NewRows ==
  ASSUME TypeOK, HandsHoldJobs, [Next]_vars, NEW r \in Requests,
         job[r].state = "ABSENT", job'[r].state # "ABSENT"
  PROVE  IntakeCommit(r) /\ req[r].creates
<1>1. req[r].pc = "open" /\ req[r].creates /\ req'[r].pc = "done"
  BY RowsOverSteps
<1>2. PICK q \in Requests : IntakeCommit(q)
  BY <1>1, OpeningSteps
<1>3. q = r
  BY <1>1, <1>2 DEF IntakeCommit
<1> QED BY <1>1, <1>2, <1>3

\* What a transaction is about to do when it opens.
LEMMA IntakeIsDue ==
  ASSUME TypeOK, NEW r \in Requests, NEW m \in Media, NEW briefed \in BOOLEAN,
         NEW allowed \in BOOLEAN, Intake(r, m, briefed, allowed)
  PROVE  /\ WritesAreDue(r)'
         /\ UNCHANGED media
         /\ req[r].pc = "idle"
         /\ req'[r].m = m
         /\ \A q \in Requests \ {r} : req'[q] = req[q] /\ (req[q].pc = "open" => req[q].m # m)
<1> DEFINE target == IntakeTarget(media[m], briefed, allowed)
<1>0. req \in [Requests -> RequestRow]
  BY DEF TypeOK
<1>1. /\ req'[r].m = m
      /\ req'[r].target = target
      /\ req'[r].writes = (target # media[m])
      /\ req'[r].creates => target = "FETCH_QUEUED" /\ media[m] # target
  BY <1>0 DEF Intake
<1>2. target # media[m] =>
        media[m] \in Unqueued /\ target \in {"REJECTED", "WAITING_FOR_BRIEF", "FETCH_QUEUED"}
  BY DEF IntakeTarget, Unqueued
<1>3. UNCHANGED media /\ req[r].pc = "idle"
  BY DEF Intake
<1>4. ASSUME NEW q \in Requests \ {r}
      PROVE req'[q] = req[q] /\ (req[q].pc = "open" => req[q].m # m)
  BY <1>0 DEF Intake, TxOpen
<1> HIDE DEF target
<1> QED BY <1>1, <1>2, <1>3, <1>4 DEF WritesAreDue

\* A commit of intake leaves alone every attachment but its own, which had not
\* been queued if it is written.
LEMMA CommitMoves ==
  ASSUME TypeOK, MovesInv, NEW r \in Requests, IntakeCommit(r)
  PROVE  /\ req[r].m \in Media
         /\ \A m \in Media : media'[m] = media[m] \/ (m = req[r].m /\ req[r].writes)
         /\ req[r].writes => /\ media[req[r].m] \in Unqueued
                             /\ media'[req[r].m] = req[r].target
                             /\ req[r].target \in {"REJECTED", "WAITING_FOR_BRIEF", "FETCH_QUEUED"}
                             /\ req[r].target # media[req[r].m]
         /\ req[r].creates => req[r].writes /\ req[r].target = "FETCH_QUEUED"
         /\ req[r].pc = "open" /\ req'[r].pc = "done"
<1>0. req[r].m \in Media /\ media \in [Media -> MediaState \cup {"ABSENT"}]
      /\ req \in [Requests -> RequestRow]
  BY DEF TypeOK, RequestRow
<1>1. req[r].pc = "open" /\ req'[r].pc = "done"
  BY <1>0 DEF IntakeCommit, RequestRow
<1>2. WritesAreDue(r)
  BY <1>1 DEF MovesInv, OpenWritesAreDue
<1>3. media' = IF req[r].writes THEN [media EXCEPT ![req[r].m] = req[r].target] ELSE media
  BY DEF IntakeCommit
<1> QED BY <1>0, <1>1, <1>2, <1>3 DEF WritesAreDue

\* A commit of process() writes an attachment that has been queued.
LEMMA FinishMoves ==
  ASSUME TypeOK, HandsHoldJobs, MovesInv, NEW w \in Workers, Finish(w),
         wk[w].pc \in {"settling", "writing"},
         media' = [media EXCEPT ![MediaOf(w)] = wk[w].target]
  PROVE  /\ MediaOf(w) \in Media
         /\ media[MediaOf(w)] \notin Unqueued
         /\ media'[MediaOf(w)] = wk[w].target
         /\ wk[w].target \in {"FAILED", "REJECTED", "READY_FOR_CAPABILITY"}
         /\ \A m \in Media \ {MediaOf(w)} : media'[m] = media[m]
<1>1. MediaOf(w) \in Media /\ wk[w].j \in Requests
      /\ media \in [Media -> MediaState \cup {"ABSENT"}]
  BY DEF TypeOK, MediaOf, WorkerRow, RequestRow
<1>2. media[MediaOf(w)] \notin Unqueued
  BY <1>1 DEF MovesInv, JobsAreQueued, HandsHoldJobs, MediaOf
<1> QED BY <1>1, <1>2 DEF MovesInv, TargetsByStage

LEMMA OpenWritesStep == IInv /\ MovesInv /\ [Next]_vars => OpenWritesAreDue' /\ OneOpenPerMedia'
<1> SUFFICES ASSUME IInv, MovesInv, [Next]_vars PROVE OpenWritesAreDue' /\ OneOpenPerMedia'
  OBVIOUS
<1>0. /\ TypeOK /\ HandsHoldJobs /\ JobsAreGated
      /\ req \in [Requests -> RequestRow]
  BY DEF IInv, TypeInv, TypeOK
<1>1. ASSUME NEW r \in Requests, req'[r].pc = "open", req'[r] = req[r]
      PROVE  WritesAreDue(r)'
  <2>1. WritesAreDue(r) /\ req[r].m \in Media
    BY <1>0, <1>1 DEF MovesInv, OpenWritesAreDue, RequestRow
  <2>2. req[r].writes => media'[req[r].m] = media[req[r].m]
    <3>1. ASSUME NEW q \in Requests, IntakeCommit(q) PROVE media'[req[r].m] = media[req[r].m]
      <4>1. q # r /\ req[q].pc = "open"
        BY <1>0, <1>1, <3>1, CommitMoves
      <4>2. req[q].m # req[r].m
        BY <1>1, <4>1 DEF MovesInv, OneOpenPerMedia
      <4> QED BY <1>0, <2>1, <3>1, <4>2, CommitMoves
    <3>2. ASSUME NEW w \in Workers, Finish(w), wk[w].pc \in {"settling", "writing"},
                 media' = [media EXCEPT ![MediaOf(w)] = wk[w].target], req[r].writes
          PROVE  media'[req[r].m] = media[req[r].m]
      <4>1. media[req[r].m] \in Unqueued
        BY <2>1, <3>2 DEF WritesAreDue
      <4> QED BY <1>0, <2>1, <3>2, <4>1, FinishMoves
    <3> QED BY <3>1, <3>2, MediaSteps
  <2> QED BY <1>1, <2>1, <2>2 DEF WritesAreDue
<1>2. ASSUME \A r \in Requests : req'[r].pc = "open" => req'[r] = req[r]
      PROVE  OpenWritesAreDue' /\ OneOpenPerMedia'
  <2>1. OpenWritesAreDue'
    BY <1>1, <1>2 DEF OpenWritesAreDue
  <2>2. OneOpenPerMedia'
    BY <1>2 DEF OneOpenPerMedia, MovesInv
  <2> QED BY <2>1, <2>2
<1>3. ASSUME NEW r \in Requests, NEW m \in Media, NEW briefed \in BOOLEAN,
             NEW allowed \in BOOLEAN, Intake(r, m, briefed, allowed)
      PROVE  OpenWritesAreDue' /\ OneOpenPerMedia'
  <2>1. /\ WritesAreDue(r)'
        /\ req'[r].m = m
        /\ \A q \in Requests \ {r} : req'[q] = req[q] /\ (req[q].pc = "open" => req[q].m # m)
    BY <1>0, <1>3, IntakeIsDue
  <2>2. OpenWritesAreDue'
    BY <1>1, <2>1 DEF OpenWritesAreDue
  <2>3. OneOpenPerMedia'
    BY <2>1 DEF OneOpenPerMedia, MovesInv
  <2> QED BY <2>2, <2>3
<1> QED BY <1>0, <1>2, <1>3, OpeningSteps

LEMMA JobsAreQueuedStep == IInv /\ MovesInv /\ [Next]_vars => JobsAreQueued' /\ OneJobPerMedia'
<1> SUFFICES ASSUME IInv, MovesInv, [Next]_vars PROVE JobsAreQueued' /\ OneJobPerMedia'
  OBVIOUS
<1>0. /\ TypeOK /\ HandsHoldJobs /\ JobsAreGated
      /\ req \in [Requests -> RequestRow]
  BY DEF IInv, TypeInv, TypeOK
\* The row of the committed request keeps its attachment.
<1>1. ASSUME NEW r \in Requests, job'[r].state # "ABSENT"
      PROVE  req'[r].m = req[r].m /\ req[r].m \in Media
  <2>1. CASE job[r].state # "ABSENT"
    BY <1>0, <2>1, PresentStays DEF RequestRow
  <2>2. CASE job[r].state = "ABSENT"
    <3>1. IntakeCommit(r)
      BY <1>0, <1>1, <2>2, NewRows
    <3> QED BY <1>0, <3>1, CommitMoves, RequestSteps DEF RequestStep
  <2> QED BY <2>1, <2>2
<1>2. ASSUME NEW r \in Requests, job'[r].state # "ABSENT", job[r].state = "ABSENT"
      PROVE  /\ IntakeCommit(r)
             /\ media[req[r].m] \in Unqueued
             /\ media'[req[r].m] = "FETCH_QUEUED"
  BY <1>0, <1>2, NewRows, CommitMoves
<1>3. ASSUME NEW r \in Requests, job'[r].state # "ABSENT", job[r].state # "ABSENT"
      PROVE  media'[req[r].m] \notin Unqueued
  <2>1. media[req[r].m] \notin Unqueued /\ req[r].m \in Media
    BY <1>1, <1>3 DEF MovesInv, JobsAreQueued
  <2>2. ASSUME NEW q \in Requests, IntakeCommit(q) PROVE media'[req[r].m] \notin Unqueued
    BY <1>0, <2>1, <2>2, CommitMoves
  <2>3. ASSUME NEW w \in Workers, Finish(w), wk[w].pc \in {"settling", "writing"},
               media' = [media EXCEPT ![MediaOf(w)] = wk[w].target]
        PROVE  media'[req[r].m] \notin Unqueued
    <3>1. CASE MediaOf(w) = req[r].m
      BY <1>0, <2>3, <3>1, FinishMoves DEF Unqueued
    <3>2. CASE MediaOf(w) # req[r].m
      BY <1>0, <2>1, <2>3, <3>2, FinishMoves
    <3> QED BY <3>1, <3>2
  <2> QED BY <2>1, <2>2, <2>3, MediaSteps
<1>4. JobsAreQueued'
  <2> SUFFICES ASSUME NEW r \in Requests, job'[r].state # "ABSENT"
               PROVE  media'[req'[r].m] \notin Unqueued
    BY DEF JobsAreQueued
  <2> QED BY <1>1, <1>2, <1>3 DEF Unqueued
<1>5. OneJobPerMedia'
  <2> SUFFICES ASSUME NEW q \in Requests, NEW r \in Requests, q # r,
                      job'[q].state # "ABSENT", job'[r].state # "ABSENT"
               PROVE  req[q].m # req[r].m
    BY <1>1 DEF OneJobPerMedia
  <2>1. CASE job[q].state # "ABSENT" /\ job[r].state # "ABSENT"
    BY <2>1 DEF MovesInv, OneJobPerMedia
  <2>2. CASE job[q].state # "ABSENT" /\ job[r].state = "ABSENT"
    BY <1>2, <2>2 DEF MovesInv, JobsAreQueued
  <2>3. CASE job[q].state = "ABSENT" /\ job[r].state # "ABSENT"
    BY <1>2, <2>3 DEF MovesInv, JobsAreQueued
  <2>4. CASE job[q].state = "ABSENT" /\ job[r].state = "ABSENT"
    <3>1. IntakeCommit(q) /\ IntakeCommit(r)
      BY <1>2, <2>4
    <3>2. req' = [req EXCEPT ![q].pc = "done"] /\ req'[r].pc # req[r].pc
      BY <1>0, <3>1, CommitMoves DEF IntakeCommit
    <3> QED BY <1>0, <3>2
  <2> QED BY <2>1, <2>2, <2>3, <2>4
<1> QED BY <1>4, <1>5

LEMMA TargetSteps ==
  ASSUME TypeOK, NEW w \in Workers, Proceeds(w)
  PROVE  /\ wk'[w].pc = "settling" => wk'[w].target \in {"FAILED", "REJECTED"}
         /\ wk'[w].pc = "flushing" => wk'[w].target = "READY_FOR_CAPABILITY"
         /\ wk'[w].pc = "extracting" => wk[w].pc = "flushing" /\ wk'[w].target = wk[w].target
         /\ wk'[w].pc = "writing" => /\ wk[w].pc = "extracting"
                                     /\ wk'[w].target \in {wk[w].target, "REJECTED"}
         /\ wk'[w].pc \in InProcess => wk[w].pc \in InProcess \/ LoadMedia(w)
         /\ wk'[w].pc \in InProcess => UNCHANGED media
<1> DEFINE Goal ==
         /\ wk'[w].pc = "settling" => wk'[w].target \in {"FAILED", "REJECTED"}
         /\ wk'[w].pc = "flushing" => wk'[w].target = "READY_FOR_CAPABILITY"
         /\ wk'[w].pc = "extracting" => wk[w].pc = "flushing" /\ wk'[w].target = wk[w].target
         /\ wk'[w].pc = "writing" => /\ wk[w].pc = "extracting"
                                     /\ wk'[w].target \in {wk[w].target, "REJECTED"}
         /\ wk'[w].pc \in InProcess => wk[w].pc \in InProcess \/ LoadMedia(w)
         /\ wk'[w].pc \in InProcess => UNCHANGED media
<1>0. wk \in [Workers -> WorkerRow]
  BY DEF TypeOK
<1>1. CASE Claim(w)
  BY <1>0, <1>1 DEF Claim, InProcess, WorkerRow
<1>2. CASE LoadMedia(w)
  <2>1. wk'[w].pc \in {"fetching", "refused"} /\ UNCHANGED media
    BY <1>0, <1>2 DEF LoadMedia, WorkerRow
  <2> QED BY <1>2, <2>1
<1>3. CASE FetchFindsNothing(w)
  <2>1. wk'[w].pc = "settling" /\ wk'[w].target = "FAILED" /\ wk[w].pc = "fetching" /\ UNCHANGED media
    BY <1>0, <1>3 DEF FetchFindsNothing, WorkerRow
  <2> QED BY <2>1 DEF InProcess
<1>4. CASE Fetch(w)
  <2>1. wk[w].pc = "fetching" /\ UNCHANGED media
    BY <1>4 DEF Fetch
  <2>2. \/ wk'[w].pc = "settling" /\ wk'[w].target = "REJECTED"
        \/ wk'[w].pc = "flushing" /\ wk'[w].target = "READY_FOR_CAPABILITY"
    BY <1>0, <1>4 DEF Fetch, WorkerRow
  <2> QED BY <2>1, <2>2 DEF InProcess
<1>5. CASE RecordFetched(w)
  <2>1. wk'[w].pc = "extracting" /\ wk'[w].target = wk[w].target /\ wk[w].pc = "flushing" /\ UNCHANGED media
    BY <1>0, <1>5 DEF RecordFetched, WorkerRow
  <2> QED BY <2>1 DEF InProcess
<1>6. CASE Extract(w) \/ RejectPdf(w)
  <2>1. wk[w].pc = "extracting" /\ UNCHANGED media
    BY <1>6 DEF Extract, RejectPdf
  <2>2. wk'[w].pc = "writing" /\ wk'[w].target \in {wk[w].target, "REJECTED"}
    <3>2. CASE Extract(w)
      <4>1. PICK paid, keep :
              wk' = [wk EXCEPT ![w].pc = "writing", ![w].paid = paid, ![w].keep = keep]
        BY <3>2 DEF Extract
      <4> QED BY <1>0, <4>1 DEF WorkerRow
    <3>3. CASE RejectPdf(w)
      BY <1>0, <3>3 DEF RejectPdf, WorkerRow
    <3> QED BY <1>6, <3>2, <3>3
  <2> QED BY <2>1, <2>2 DEF InProcess
<1>7. CASE Finish(w) \/ Raise(w)
  <2>1. wk'[w].pc \in {"answering", "failing"}
    BY <1>0, <1>7 DEF Finish, Raise, WorkerRow
  <2> QED BY <2>1 DEF InProcess
<1> HIDE DEF Goal
<1>8. Goal
  BY <1>1, <1>2, <1>3, <1>4, <1>5, <1>6, <1>7 DEF Proceeds, Goal
<1> QED BY <1>8 DEF Goal

LEMMA TargetsStep == TypeOK /\ TargetsByStage /\ [Next]_vars => TargetsByStage'
<1> SUFFICES ASSUME TypeOK, TargetsByStage, [Next]_vars, NEW w \in Workers
             PROVE  /\ wk'[w].pc \in {"flushing", "extracting"} => wk'[w].target = "READY_FOR_CAPABILITY"
                    /\ wk'[w].pc \in {"settling", "writing"} =>
                         wk'[w].target \in {"FAILED", "REJECTED", "READY_FOR_CAPABILITY"}
  BY DEF TargetsByStage
<1>1. CASE Proceeds(w)
  BY <1>1, TargetSteps DEF TargetsByStage
<1> QED BY <1>1, WorkerAfterStep DEF TargetsByStage

LEMMA ProcessedStep ==
  ASSUME IInv, MovesInv, [Next]_vars, ~Serverless
  PROVE  ProcessedStays'
<1> SUFFICES ASSUME NEW w \in Workers, wk'[w].pc \in InProcess
             PROVE  CanProcess(media'[MediaOf(w)'])
  BY DEF ProcessedStays, CanProcess
<1>0. /\ TypeOK /\ HandsHoldJobs /\ JobsAreGated /\ SingleExecutor
      /\ wk \in [Workers -> WorkerRow]
      /\ wk[w].j \in Requests
  BY DEF IInv, TypeInv, TypeOK, WorkerRow
<1>1. CASE wk'[w] = wk[w]
  <2>1. MediaOf(w)' = MediaOf(w) /\ MediaOf(w) \in Media /\ wk[w].pc # "idle"
    BY <1>0, <1>1, MediaOfStays DEF InProcess
  <2>2. CanProcess(media[MediaOf(w)])
    BY <1>1 DEF MovesInv, ProcessedStays
  <2>3. ASSUME NEW q \in Requests, IntakeCommit(q) PROVE CanProcess(media'[MediaOf(w)])
    <3>1. media[MediaOf(w)] \notin Unqueued
      BY <2>2 DEF CanProcess, Unqueued
    <3>2. media'[MediaOf(w)] = media[MediaOf(w)]
      BY <1>0, <2>1, <2>3, <3>1, CommitMoves
    <3> QED BY <2>2, <3>2
  <2>4. ASSUME NEW v \in Workers, Finish(v), wk[v].pc \in {"settling", "writing"},
               media' = [media EXCEPT ![MediaOf(v)] = wk[v].target]
        PROVE  CanProcess(media'[MediaOf(w)])
    <3>1. v # w
      BY <1>0, <2>4 DEF Finish, InProcess, WorkerRow
    <3>2. wk[v].j # wk[w].j /\ wk[v].j \in Requests
      BY <1>0, <2>1, <2>4, <3>1 DEF SingleExecutor, Handling, WorkerRow
    <3>3. MediaOf(v) # MediaOf(w)
      BY <1>0, <2>1, <2>4, <3>2 DEF HandsHoldJobs, MovesInv, OneJobPerMedia, MediaOf
    <3>4. media'[MediaOf(w)] = media[MediaOf(w)]
      BY <1>0, <2>1, <2>4, <3>3, FinishMoves
    <3> QED BY <2>2, <3>4
  <2> QED BY <2>1, <2>2, <2>3, <2>4, MediaSteps
<1>2. CASE Proceeds(w)
  <2>1. MediaOf(w)' = MediaOf(w) /\ UNCHANGED media
    BY <1>0, <1>2, MediaOfStays, ProceedingKeepsTheJob, TargetSteps
  <2>2. CASE wk[w].pc \in InProcess
    BY <2>1, <2>2 DEF MovesInv, ProcessedStays
  <2>3. CASE LoadMedia(w)
    <3>1. CanProcess(media[MediaOf(w)])
      BY <1>0, <2>3 DEF LoadMedia, InProcess, WorkerRow
    <3> QED BY <2>1, <3>1
  <2> QED BY <1>0, <1>2, <2>2, <2>3, TargetSteps
<1> QED BY <1>0, <1>1, <1>2, WorkerAfterStep DEF InProcess

LEMMA MovesInvStep == IInv /\ MovesInv /\ [Next]_vars => MovesInv'
<1> SUFFICES ASSUME IInv, MovesInv, [Next]_vars PROVE MovesInv'
  OBVIOUS
<1>1. TargetsByStage'
  BY TargetsStep DEF IInv, TypeInv, MovesInv
<1>2. ~Serverless => ProcessedStays'
  BY ProcessedStep
<1> QED BY <1>1, <1>2, OpenWritesStep, JobsAreQueuedStep DEF MovesInv

\* With InProcessTaskQueue a committed attachment only ever moves along
\* _ALLOWED: a replayed message, a second brief, a late worker or a job taken
\* up after a restart never takes it back or out of a terminal state.
THEOREM AttachmentsMoveForward == Spec => ServerOnlyAllowedMoves
<1>1. Init => MovesInv
  BY DEF Init, MovesInv, OpenWritesAreDue, OneOpenPerMedia, JobsAreQueued, OneJobPerMedia,
         TargetsByStage, ProcessedStays, InProcess, IdleWorker, NoJob
<1>2. IInv /\ MovesInv /\ [Next]_vars => [~Serverless => MovesAreAllowed]_vars
  <2> SUFFICES ASSUME IInv, MovesInv, [Next]_vars, ~Serverless, NEW m \in Media,
                      media'[m] # media[m]
               PROVE  \/ media[m] = "ABSENT" /\ Reaches("RECEIVED_REFERENCE", media'[m])
                      \/ media[m] # "ABSENT" /\ Reaches(media[m], media'[m])
    BY DEF MovesAreAllowed
  <2>0. TypeOK /\ HandsHoldJobs
    BY DEF IInv, TypeInv
  <2>1. ASSUME NEW r \in Requests, IntakeCommit(r)
        PROVE \/ media[m] = "ABSENT" /\ Reaches("RECEIVED_REFERENCE", media'[m])
              \/ media[m] # "ABSENT" /\ Reaches(media[m], media'[m])
    <3>1. /\ media[m] \in Unqueued
          /\ media'[m] \in {"REJECTED", "WAITING_FOR_BRIEF", "FETCH_QUEUED"}
      BY <2>0, <2>1, CommitMoves
    <3> QED BY <3>1, IntakeMoves DEF Unqueued
  <2>2. ASSUME NEW w \in Workers, Finish(w), wk[w].pc \in {"settling", "writing"},
               media' = [media EXCEPT ![MediaOf(w)] = wk[w].target]
        PROVE \/ media[m] = "ABSENT" /\ Reaches("RECEIVED_REFERENCE", media'[m])
              \/ media[m] # "ABSENT" /\ Reaches(media[m], media'[m])
    <3>1. m = MediaOf(w) /\ media'[m] \in {"FAILED", "REJECTED", "READY_FOR_CAPABILITY"}
      BY <2>0, <2>2, FinishMoves
    <3>2. CanProcess(media[m])
      BY <2>2, <3>1 DEF MovesInv, ProcessedStays, InProcess
    <3> QED BY <3>1, <3>2, ProcessMoves DEF CanProcess
  <2> QED BY <2>1, <2>2, MediaSteps
<1>3. Spec => []MovesInv
  BY <1>1, Invariant, MovesInvStep, PTL DEF Spec
<1> QED BY <1>2, <1>3, Invariant, PTL DEF Spec, ServerOnlyAllowedMoves
=============================================================================
