------------------------------- MODULE Files --------------------------------
(***************************************************************************)
(* The files of one student (media/pipeline.py, media/blobstore.py,         *)
(* repositories/media.py) and the sweep that forgets them                   *)
(* (services/retention.py).                                                 *)
(*                                                                          *)
(* Bytes are kept under their hash, and so are the words read from them:    *)
(* two attachments with the same bytes share both.  A worker's call writes  *)
(* the bytes at once and its rows in one commit at the end; so does a       *)
(* sweep.  How a worker comes to a job is MediaJobs.                        *)
(***************************************************************************)
EXTENDS Extraction

CONSTANTS
  Workers,       \* concurrent calls: jobs and sweeps
  Contents,      \* name -> the file of these bytes
  Uploads,       \* attachment -> [content, brief]
  Environments,  \* what a call may find: [ocr, gateway, permits, answers]
  RetentionDays, \* days the bytes are kept
  Batch,         \* attachments one sweep handles
  LastDay,       \* bound on the days
  MaxReadings    \* bound on the readings that commit

ASSUME FilesAssumption ==
  /\ RetentionDays \in Nat \ {0} /\ Batch \in Nat \ {0} /\ LastDay \in Nat /\ MaxReadings \in Nat
  /\ \A u \in DOMAIN Uploads : Uploads[u].content \in DOMAIN Contents

VARIABLES
  attachments,  \* attachment -> its row (media_objects): state and expires_at
  blobs,        \* content -> the day it was put
  texts,        \* rows of media_extractions
  calls,        \* worker -> its call in progress
  date,         \* the day
  readings,     \* readings that committed
  bought,       \* pages a vendor was paid for
  unrecorded,   \* attachments whose bytes were put by a call that has not committed
  erased        \* contents an operator deleted the rows of

fileVars == <<attachments, blobs, texts, calls, date, readings, bought, unrecorded, erased>>

NoExpiry == -1

Waiting == [state |-> "FETCH_QUEUED", expires |-> NoExpiry]
Gone    == [state |-> "DELETED", expires |-> NoExpiry]

ContentOf(u) == Uploads[u].content

\* Mutant: the key of the cache is never the one of what was stored.
TextsOfNobody(c) == {}

TextsOf(c) == {t \in texts : t.content = c}

Starts(w, call) == calls[w] = {} /\ calls' = [calls EXCEPT ![w] = {call}]
Goes(w, call)   == calls' = [calls EXCEPT ![w] = {call}]
Ends(w)         == calls' = [calls EXCEPT ![w] = {}]
-----------------------------------------------------------------------------
(* Reading.                                                                 *)

\* What becomes of a file the source no longer has, or whose bytes are refused.
Unstored(c) == {"FAILED"} \cup (IF Refusal(Contents[c]) = "OK" THEN {} ELSE {"REJECTED"})

\* Bytes that pass the checks are stored before anything is written about
\* them; the others never are.
FetchAndStore(w, u) ==
  LET c == ContentOf(u) IN
  /\ attachments[u] = Waiting
  /\ readings < MaxReadings
  /\ \/ /\ calls[w] = {}
        /\ \E state \in Unstored(c) : attachments' = [attachments EXCEPT ![u].state = state]
        /\ UNCHANGED <<blobs, calls, unrecorded>>
     \/ /\ Refusal(Contents[c]) = "OK"
        /\ Starts(w, [task |-> "read", pc |-> "stored", upload |-> u, expires |-> date + RetentionDays,
                      cached |-> {}, began |-> readings])
        /\ blobs' = [d \in DOMAIN blobs \cup {c} |-> IF d = c THEN date ELSE blobs[d]]
        /\ unrecorded' = unrecorded \cup {u}
        /\ UNCHANGED attachments
  /\ UNCHANGED <<texts, date, readings, bought, erased>>

\* The cache is looked up by owner, content and parser; nothing is locked.
LoadCachedExtraction(w) ==
  /\ \E call \in calls[w] :
       /\ call.task = "read" /\ call.pc = "stored"
       /\ Goes(w, [call EXCEPT !.pc = "looked", !.began = readings,
                     !.cached = {[page |-> t.page, method |-> t.method] : t \in TextsOf(ContentOf(call.upload))}])
  /\ UNCHANGED <<attachments, blobs, texts, date, readings, bought, unrecorded, erased>>

\* uq_media_extraction: content, parser, page and method; the row of a second
\* writer updates the first.
Stored(c, read) ==
  {[content |-> c, page |-> p.page, method |-> p.method, at |-> readings] :
     p \in {q \in read : \A t \in TextsOf(c) : t.page # q.page \/ t.method # q.method}}

\* Read, store the words, record what became of the file: one commit, which a
\* deleted row or a dead process undoes.  What was paid is paid.
ReadAndCommit(w, env) ==
  /\ readings < MaxReadings
  /\ \E call \in calls[w] :
       LET u      == call.upload
           c      == ContentOf(u)
           result == ReadFile(Contents[c], Uploads[u].brief, env, call.cached)
       IN  /\ call.task = "read" /\ call.pc = "looked"
           /\ bought' = bought \cup {[content |-> c, page |-> p, began |-> call.began] : p \in result.vision}
           /\ \/ UNCHANGED <<attachments, texts, readings, unrecorded>>
              \/ /\ attachments[u] # Gone
                 /\ attachments' = [attachments EXCEPT ![u] = [state |-> result.state, expires |-> call.expires]]
                 /\ texts' = texts \cup Stored(c, ToSet(result.pages))
                 /\ readings' = readings + 1
                 /\ unrecorded' = unrecorded \ {u}
  /\ Ends(w)
  /\ UNCHANGED <<blobs, date, erased>>
-----------------------------------------------------------------------------
(* Forgetting.                                                              *)

Expired(u) == attachments[u].expires # NoExpiry /\ attachments[u].expires <= date

\* As many as fit in a batch, what expired first.
IsOldest(batch, us) ==
  /\ Cardinality(batch) = (IF Cardinality(us) < Batch THEN Cardinality(us) ELSE Batch)
  /\ \A u \in batch, v \in us \ batch : attachments[u].expires <= attachments[v].expires

SelectExpired(w) ==
  /\ \E batch \in SUBSET {u \in DOMAIN Uploads : Expired(u)} :
       /\ batch # {} /\ IsOldest(batch, {u \in DOMAIN Uploads : Expired(u)})
       /\ Starts(w, [task |-> "sweep", todo |-> batch, doomed |-> {}, words |-> {}])
  /\ UNCHANGED <<attachments, blobs, texts, date, readings, bought, unrecorded, erased>>

\* Mutant: the row goes although its blob could not be deleted.
AfterBlobErrorDoomed(call, u) == [call EXCEPT !.todo = @ \ {u}, !.doomed = @ \cup {u}, !.words = @ \cup TextsOf(ContentOf(u))]

\* A row whose blob is still there is left for the next sweep.
AfterBlobError(call, u) == [call EXCEPT !.todo = @ \ {u}]

\* The blob first, then the words and the row, which the commit deletes.
SweepOne(w) ==
  /\ \E call \in calls[w] :
       /\ call.task = "sweep"
       /\ \E u \in call.todo :
            \/ /\ blobs' = [c \in DOMAIN blobs \ {ContentOf(u)} |-> blobs[c]]
               /\ Goes(w, [call EXCEPT !.todo = @ \ {u}, !.doomed = @ \cup {u}, !.words = @ \cup TextsOf(ContentOf(u))])
            \/ /\ Goes(w, AfterBlobError(call, u))
               /\ UNCHANGED blobs
  /\ UNCHANGED <<attachments, texts, date, readings, bought, unrecorded, erased>>

CommitSweep(w) ==
  /\ \E call \in calls[w] :
       /\ call.task = "sweep" /\ call.todo = {}
       /\ attachments' = [u \in DOMAIN attachments |-> IF u \in call.doomed THEN Gone ELSE attachments[u]]
       /\ texts' = texts \ call.words
  /\ Ends(w)
  /\ UNCHANGED <<blobs, date, readings, bought, unrecorded, erased>>

\* An operator deletes the student's data: the rows of the attachments, and
\* neither the bytes nor the words.
DeleteStudentData ==
  /\ erased = {}
  /\ erased' = {ContentOf(u) : u \in {v \in DOMAIN Uploads : attachments[v] # Gone}}
  /\ attachments' = [u \in DOMAIN attachments |-> Gone]
  /\ UNCHANGED <<blobs, texts, calls, date, readings, bought, unrecorded>>

\* The bucket's own rule.
ExpireBlob(c) ==
  /\ c \in DOMAIN blobs /\ blobs[c] + RetentionDays <= date
  /\ blobs' = [d \in DOMAIN blobs \ {c} |-> blobs[d]]
  /\ UNCHANGED <<attachments, texts, calls, date, readings, bought, unrecorded, erased>>

\* The process dies, or a statement fails: what was not committed is undone,
\* what the bucket was told is not.
LoseCall(w) ==
  /\ calls[w] # {}
  /\ Ends(w)
  /\ UNCHANGED <<attachments, blobs, texts, date, readings, bought, unrecorded, erased>>

\* A call takes minutes: it ends on the day it began.
Tomorrow ==
  /\ date < LastDay /\ \A w \in Workers : calls[w] = {}
  /\ date' = date + 1
  /\ UNCHANGED <<attachments, blobs, texts, calls, readings, bought, unrecorded, erased>>
-----------------------------------------------------------------------------
InitFiles ==
  /\ attachments = [u \in DOMAIN Uploads |-> Waiting]
  /\ blobs = [c \in {} |-> 0]
  /\ texts = {} /\ bought = {} /\ unrecorded = {} /\ erased = {}
  /\ calls = [w \in Workers |-> {}]
  /\ date = 0 /\ readings = 0

Filing ==
  \/ \E w \in Workers, u \in DOMAIN Uploads : FetchAndStore(w, u)
  \/ \E w \in Workers : LoadCachedExtraction(w) \/ SelectExpired(w) \/ SweepOne(w) \/ CommitSweep(w) \/ LoseCall(w)
  \/ \E w \in Workers, env \in Environments : ReadAndCommit(w, env)
  \/ \E c \in DOMAIN Contents : ExpireBlob(c)
  \/ DeleteStudentData
  \/ Tomorrow
-----------------------------------------------------------------------------
(* Properties.                                                              *)

\* A sweep selects rows by their expiry.
Dated(u)   == attachments[u].expires # NoExpiry
Undated(u) == attachments[u] # Gone /\ u \in unrecorded

\* "Blob-first": whatever fails or dies between the steps of a sweep, and
\* whoever else reads or sweeps the same bytes, words have a row whose expiry a
\* later sweep will find, and so have the bytes they were read from, but for
\* what an operator deleted the rows of.  Bytes alone may be without such a row
\* while the call that put them has not committed: for good, when that call was
\* lost and no later one reads the attachment (services/retention.py, put and
\* record_fetched in process).
KeptBytesHaveAnExpiry ==
  /\ \A c \in DOMAIN blobs :
       c \in erased \/ \E u \in DOMAIN Uploads : ContentOf(u) = c /\ (Dated(u) \/ Undated(u))
  /\ \A t \in texts :
       t.content \in erased \/ \E u \in DOMAIN Uploads : ContentOf(u) = t.content /\ Dated(u)

\* "Read once and paid for once": a page of the same bytes is paid for again
\* only by a call that looked before the words of the other were committed
\* (load_cached_extraction, process).
NoPageIsPaidForAgain ==
  \A b \in bought, t \in texts : (b.content = t.content /\ b.page = t.page) => b.began <= t.at
=============================================================================
