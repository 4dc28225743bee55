---------------------------- MODULE Study_proofs ----------------------------
(***************************************************************************)
(* What Study does for any number of sessions, cards, topics, candidates,   *)
(* attachments and workers, and any bounds.                                 *)
(***************************************************************************)
EXTENDS Study, Sums, SequenceTheorems

-----------------------------------------------------------------------------
(* The readers: a page that is cached is never paid for.                    *)

LEMMA RunPlanPaysForItsSteps ==
  ASSUME NEW plan, NEW todo, NEW pages, NEW brief, NEW env
  PROVE  \A p \in RunPlan(plan, todo, pages, brief, env).vision : \E i \in todo : p = plan[i].page
  BY DEF RunPlan, VisionPages

LEMMA ReadPdfPaysForTheRest ==
  ASSUME NEW file, NEW brief, NEW env, NEW cached
  PROVE  \A p \in ReadPdf(file, brief, env, cached).vision : \A c \in cached : c.page # p
<1>1. CASE Inspect(file) # "OK"
  BY <1>1 DEF ReadPdf, Result, Unread
<1>2. CASE Inspect(file) = "OK"
  <2> DEFINE plan == PlanExtraction(file.pages, brief, env.ocr)
             todo == Remaining(plan, cached)
             paid == RunPlan(plan, todo, file.pages, brief, env).vision
  <2>1. ReadPdf(file, brief, env, cached).vision = paid
    <3> DEFINE got    == RunPlan(plan, todo, file.pages, brief, env)
               hits   == {p \in {planned.page : planned \in ToSet(plan)} : \E c \in cached : c.page = p}
               served == {Served(cached, p) : p \in hits}
               whole  == [got EXCEPT !.pages = @ \cup served]
    <3>1. ReadPdf(file, brief, env, cached) = Ready(whole, Cardinality(hits))
      BY <1>2 DEF ReadPdf
    <3>2. whole.vision = got.vision
      BY DEF RunPlan
    <3>3. Ready(whole, Cardinality(hits)).vision = whole.vision
      BY DEF Ready, Result
    <3> QED BY <3>1, <3>2, <3>3
  <2>2. \A p \in paid : \E i \in todo : p = plan[i].page
    BY RunPlanPaysForItsSteps
  <2>3. \A i \in todo : \A c \in cached : c.page # plan[i].page
    BY DEF Remaining
  <2> HIDE DEF plan, todo, paid
  <2> QED BY <2>1, <2>2, <2>3
<1> QED BY <1>1, <1>2

LEMMA ReadVoicePaysForTheRest ==
  ASSUME NEW file, NEW env, NEW cached
  PROVE  \A p \in ReadVoice(file, env, cached).vision : \A c \in cached : c.page # p
<1>1. CASE cached = {}
  BY <1>1
<1>2. CASE cached # {}
  <2>1. ReadVoice(file, env, cached) = Ready([Unread EXCEPT !.pages = {Served(cached, 1)}], 1)
    BY <1>2 DEF ReadVoice
  <2> QED BY <2>1 DEF Ready, Result, Unread
<1> QED BY <1>1, <1>2

LEMMA ReadImagePaysForTheRest ==
  ASSUME NEW file, NEW brief, NEW env, NEW cached
  PROVE  \A p \in ReadImage(file, brief, env, cached).vision : \A c \in cached : c.page # p
<1>1. CASE cached = {}
  BY <1>1
<1>2. CASE cached # {} /\ WantsEnhancement(brief) /\ file.filters
  <2>1. ReadImage(file, brief, env, cached) = Result("READY_FOR_CAPABILITY", "OK", Unread, 0)
    BY <1>2 DEF ReadImage
  <2> QED BY <2>1 DEF Result, Unread
<1>3. CASE cached # {} /\ ~(WantsEnhancement(brief) /\ file.filters)
  <2>1. ReadImage(file, brief, env, cached) = Ready([Unread EXCEPT !.pages = {Served(cached, 1)}], 1)
    BY <1>3 DEF ReadImage
  <2> QED BY <2>1 DEF Ready, Result, Unread
<1> QED BY <1>1, <1>2, <1>3

\* Bytes that pass the checks are of one of the three kinds there is a reader for.
LEMMA AcceptedFilesHaveAReader ==
  ASSUME NEW file, Refusal(file) = "OK"
  PROVE  file.head \in {"image", "pdf", "audio"}
<1>1. Validate(file) = "OK"
  BY DEF Refusal
<1>2. file.head \in DOMAIN Category
  BY <1>1 DEF Validate
<1> QED BY <1>2 DEF Category

LEMMA CachedPagesAreFree ==
  ASSUME NEW file, NEW brief, NEW env, NEW cached
  PROVE  \A p \in ReadFile(file, brief, env, cached).vision : \A c \in cached : c.page # p
<1>1. CASE Refusal(file) # "OK"
  <2>1. ReadFile(file, brief, env, cached) = Result("REJECTED", Refusal(file), Unread, 0)
    BY <1>1 DEF ReadFile
  <2> QED BY <2>1 DEF Result, Unread
<1>2. CASE Refusal(file) = "OK" /\ file.head = "pdf"
  <2>1. ReadFile(file, brief, env, cached) = ReadPdf(file, brief, env, cached)
    BY <1>2 DEF ReadFile
  <2> QED BY <2>1, ReadPdfPaysForTheRest
<1>3. CASE Refusal(file) = "OK" /\ file.head = "audio"
  <2>1. ReadFile(file, brief, env, cached) = ReadVoice(file, env, cached)
    BY <1>3 DEF ReadFile
  <2> QED BY <2>1, ReadVoicePaysForTheRest
<1>4. CASE Refusal(file) = "OK" /\ file.head = "image"
  <2>1. ReadFile(file, brief, env, cached) = ReadImage(file, brief, env, cached)
    BY <1>4 DEF ReadFile
  <2> QED BY <2>1, ReadImagePaysForTheRest
<1> QED BY <1>1, <1>2, <1>3, <1>4, AcceptedFilesHaveAReader
-----------------------------------------------------------------------------
(* The inductive invariant.                                                 *)

ReadCall  == {"task", "pc", "upload", "expires", "cached", "began"}
SweepCall == {"task", "todo", "doomed", "words"}

CallShape(call) ==
  \/ /\ call.task = "read" /\ DOMAIN call = ReadCall
     /\ call.upload \in DOMAIN Uploads /\ call.expires \in Int /\ call.began \in Nat
  \/ /\ call.task = "sweep" /\ DOMAIN call = SweepCall
     /\ call.todo \subseteq DOMAIN Uploads /\ call.doomed \subseteq DOMAIN Uploads

FileTypes ==
  /\ date \in Nat /\ readings \in Nat
  /\ DOMAIN attachments = DOMAIN Uploads
  /\ \A u \in DOMAIN Uploads : attachments[u].expires \in Int
  /\ \A t \in texts : t.at \in Nat
  /\ \A b \in bought : b.began \in Nat /\ b.began <= readings
  /\ DOMAIN calls = Workers
  /\ \A w \in Workers : \A call \in calls[w] : CallShape(call)

\* What a sweep under way may not orphan: some row of it is not due.
FreshBytes(c) == \E v \in DOMAIN Uploads : ContentOf(v) = c /\ ~Expired(v) /\ (Dated(v) \/ Undated(v))
FreshWords(c) == \E v \in DOMAIN Uploads : ContentOf(v) = c /\ ~Expired(v) /\ Dated(v)

\* What a reader decided by still holds: its file is not due, and every text of
\* it that it did not see was committed after it looked.
ReaderKnows(call) ==
  call.task = "read" =>
    /\ call.expires > date /\ ~Expired(call.upload)
    /\ call.began <= readings
    /\ call.pc = "looked" =>
         \A t \in TextsOf(ContentOf(call.upload)) : t.at >= call.began \/ \E c \in call.cached : c.page = t.page

\* What a sweep will delete the rows of is due, and of it nothing is kept that
\* a later row does not answer for.
SweepIsSafe(call) ==
  call.task = "sweep" =>
    /\ \A u \in call.todo \cup call.doomed : attachments[u] = Gone \/ Expired(u)
    /\ \A u \in call.doomed :
         /\ ContentOf(u) \in DOMAIN blobs => ContentOf(u) \in erased \/ FreshBytes(ContentOf(u))
         /\ TextsOf(ContentOf(u)) \ call.words # {} => ContentOf(u) \in erased \/ FreshWords(ContentOf(u))

CallsAreSafe == \A w \in Workers : \A call \in calls[w] : ReaderKnows(call) /\ SweepIsSafe(call)

FileInv ==
  /\ FileTypes
  /\ CallsAreSafe
  /\ KeptBytesHaveAnExpiry
  /\ NoPageIsPaidForAgain

LEMMA FileInvInit == ASSUME FilesAssumption, InitFiles PROVE FileInv
<1>1. \A u \in DOMAIN Uploads : attachments[u].expires \in Int
  BY DEF InitFiles, Waiting, NoExpiry
<1>2. FileTypes
  BY <1>1 DEF InitFiles, FileTypes
<1>3. CallsAreSafe
  BY DEF InitFiles, CallsAreSafe
<1>4. KeptBytesHaveAnExpiry /\ NoPageIsPaidForAgain
  BY DEF InitFiles, KeptBytesHaveAnExpiry, NoPageIsPaidForAgain
<1> QED BY <1>2, <1>3, <1>4 DEF FileInv
-----------------------------------------------------------------------------
(* What the steps have in common.                                           *)

BytesHaveRow(c) == \E u \in DOMAIN Uploads : ContentOf(u) = c /\ (Dated(u) \/ Undated(u))
WordsHaveRow(c) == \E u \in DOMAIN Uploads : ContentOf(u) = c /\ Dated(u)

\* What each row answers for, it still does.
RowsStay ==
  \A u \in DOMAIN Uploads : (Dated(u) => Dated(u)') /\ (Undated(u) => Undated(u)' \/ Dated(u)')

\* A step within a day: a file that is due stays so and no other becomes due,
\* what is kept is kept under a row that is not due, and new words are those of
\* a reading that commits now.
Frame ==
  /\ date' = date
  /\ \A u \in DOMAIN Uploads :
       /\ Expired(u)' => Expired(u)
       /\ (attachments[u] = Gone \/ Expired(u)) => (attachments'[u] = Gone \/ Expired(u)')
  /\ erased \subseteq erased'
  /\ \A c \in DOMAIN Contents : FreshBytes(c) => (FreshBytes(c)' \/ c \in erased')
  /\ \A c \in DOMAIN Contents : FreshWords(c) => (FreshWords(c)' \/ c \in erased')
  /\ \A c \in DOMAIN blobs' : c \in DOMAIN blobs \/ FreshBytes(c)'
  /\ \A t \in texts' : t \in texts \/ (t.at >= readings /\ FreshWords(t.content)')
  /\ readings <= readings'

LEMMA FreshIsARow == \A c : (FreshBytes(c) => BytesHaveRow(c)) /\ (FreshWords(c) => WordsHaveRow(c))
  BY DEF FreshBytes, FreshWords, BytesHaveRow, WordsHaveRow

\* Where rows stay and none becomes due, so does what is fresh.
LEMMA RowsStayFresh ==
  ASSUME RowsStay, \A u \in DOMAIN Uploads : Expired(u)' => Expired(u)
  PROVE  \A c : /\ (FreshBytes(c) => FreshBytes(c)') /\ (FreshWords(c) => FreshWords(c)')
                /\ (BytesHaveRow(c) => BytesHaveRow(c)') /\ (WordsHaveRow(c) => WordsHaveRow(c)')
  BY DEF RowsStay, FreshBytes, FreshWords, BytesHaveRow, WordsHaveRow, ContentOf

LEMMA SafeCallsStaySafe ==
  ASSUME FilesAssumption, FileTypes, Frame, FileTypes', NEW call, CallShape(call), ReaderKnows(call), SweepIsSafe(call)
  PROVE  ReaderKnows(call)' /\ SweepIsSafe(call)'
<1>1. \A u \in DOMAIN Uploads : ContentOf(u) \in DOMAIN Contents
  BY DEF FilesAssumption, ContentOf
<1>2. ASSUME call.task = "read" PROVE ReaderKnows(call)'
  <2>1. call.upload \in DOMAIN Uploads /\ call.began \in Nat /\ call.expires \in Int
    BY <1>2 DEF CallShape
  <2>2. call.expires > date' /\ ~Expired(call.upload)'
    BY <1>2, <2>1 DEF Frame, ReaderKnows
  <2>3. call.began <= readings'
    BY <1>2, <2>1 DEF Frame, ReaderKnows, FileTypes
  <2>4. ASSUME call.pc = "looked", NEW t \in TextsOf(ContentOf(call.upload))'
        PROVE  t.at >= call.began \/ \E c \in call.cached : c.page = t.page
    <3>1. t \in texts' /\ t.content = ContentOf(call.upload)
      BY <2>4 DEF TextsOf, ContentOf
    <3>2. CASE t \in texts
      BY <3>1, <3>2, <2>4, <1>2 DEF TextsOf, ReaderKnows
    <3>3. CASE t \notin texts
      <4>1. t.at >= readings /\ t.at \in Nat
        BY <3>1, <3>3 DEF Frame, FileTypes
      <4> QED BY <4>1, <2>1, <1>2 DEF ReaderKnows, FileTypes
    <3> QED BY <3>2, <3>3
  <2> QED BY <2>2, <2>3, <2>4 DEF ReaderKnows, ContentOf
<1>3. ASSUME call.task = "sweep" PROVE SweepIsSafe(call)'
  <2>1. call.todo \subseteq DOMAIN Uploads /\ call.doomed \subseteq DOMAIN Uploads
    BY <1>3 DEF CallShape
  <2>2. \A u \in call.todo \cup call.doomed : attachments'[u] = Gone \/ Expired(u)'
    BY <1>3, <2>1 DEF Frame, SweepIsSafe
  <2>3. ASSUME NEW u \in call.doomed, NEW c, c = ContentOf(u), c \in DOMAIN blobs'
        PROVE  c \in erased' \/ FreshBytes(c)'
    <3>1. c \in DOMAIN Contents
      BY <1>1, <2>1, <2>3
    <3>2. CASE c \in DOMAIN blobs
      <4>1. c \in erased \/ FreshBytes(c)
        BY <1>3, <2>3, <3>2 DEF SweepIsSafe
      <4> QED BY <3>1, <4>1 DEF Frame
    <3> QED BY <2>3, <3>2 DEF Frame
  <2>4. ASSUME NEW u \in call.doomed, NEW c, c = ContentOf(u), TextsOf(c)' \ call.words # {}
        PROVE  c \in erased' \/ FreshWords(c)'
    <3>1. c \in DOMAIN Contents
      BY <1>1, <2>1, <2>4
    <3>2. PICK t \in texts' : t.content = c /\ t \notin call.words
      BY <2>4 DEF TextsOf
    <3>3. t \in texts \/ FreshWords(t.content)'
      BY DEF Frame
    <3>4. CASE t \in texts
      <4>1. t \in TextsOf(c) \ call.words
        BY <3>2, <3>4 DEF TextsOf
      <4>2. c \in erased \/ FreshWords(c)
        BY <1>3, <2>4, <4>1 DEF SweepIsSafe
      <4> QED BY <3>1, <4>2 DEF Frame
    <3> QED BY <3>2, <3>3, <3>4
  <2> QED BY <2>2, <2>3, <2>4 DEF SweepIsSafe, ContentOf
<1>4. call.task # "read" => ReaderKnows(call)'
  BY DEF ReaderKnows
<1>5. call.task # "sweep" => SweepIsSafe(call)'
  BY DEF SweepIsSafe
<1> QED BY <1>2, <1>3, <1>4, <1>5

\* It is enough to look at the call that takes the step.
LEMMA CallsStaySafe ==
  ASSUME FilesAssumption, FileTypes, Frame, FileTypes', CallsAreSafe,
         \A w \in Workers : \A call \in calls'[w] : call \in calls[w] \/ (ReaderKnows(call)' /\ SweepIsSafe(call)')
  PROVE  CallsAreSafe'
<1>1. ASSUME NEW w \in Workers, NEW call \in calls'[w], call \in calls[w]
      PROVE  ReaderKnows(call)' /\ SweepIsSafe(call)'
  BY <1>1, SafeCallsStaySafe DEF CallsAreSafe, FileTypes
<1> QED BY <1>1 DEF CallsAreSafe

\* Rows may go as long as what they answered for has another, or an operator
\* deleted them.
LEMMA KeptBytesKeepARow ==
  ASSUME FilesAssumption, Frame, KeptBytesHaveAnExpiry,
         \A c \in DOMAIN blobs' : BytesHaveRow(c) => BytesHaveRow(c)' \/ c \in erased',
         \A t \in texts' : WordsHaveRow(t.content) => WordsHaveRow(t.content)' \/ t.content \in erased'
  PROVE  KeptBytesHaveAnExpiry'
<1>1. \A c : (FreshBytes(c)' => BytesHaveRow(c)') /\ (FreshWords(c)' => WordsHaveRow(c)')
  BY DEF FreshBytes, FreshWords, BytesHaveRow, WordsHaveRow
<1>2. ASSUME NEW c \in DOMAIN blobs' PROVE c \in erased' \/ BytesHaveRow(c)'
  <2>1. c \in DOMAIN blobs \/ FreshBytes(c)'
    BY DEF Frame
  <2>2. c \in DOMAIN blobs => c \in erased \/ BytesHaveRow(c)
    BY DEF KeptBytesHaveAnExpiry, BytesHaveRow
  <2> QED BY <1>1, <2>1, <2>2 DEF Frame
<1>3. ASSUME NEW t \in texts' PROVE t.content \in erased' \/ WordsHaveRow(t.content)'
  <2>1. t \in texts \/ FreshWords(t.content)'
    BY DEF Frame
  <2>2. t \in texts => t.content \in erased \/ WordsHaveRow(t.content)
    BY DEF KeptBytesHaveAnExpiry, WordsHaveRow
  <2> QED BY <1>1, <2>1, <2>2 DEF Frame
<1> QED BY <1>2, <1>3 DEF KeptBytesHaveAnExpiry, BytesHaveRow, WordsHaveRow, ContentOf

LEMMA PaidPagesStayPaidOnce ==
  ASSUME FileTypes, Frame, NoPageIsPaidForAgain, UNCHANGED bought, FileTypes'
  PROVE  NoPageIsPaidForAgain'
<1>1. ASSUME NEW b \in bought, NEW t \in texts', b.content = t.content, b.page = t.page
      PROVE  b.began <= t.at
  <2>1. CASE t \in texts
    BY <1>1, <2>1 DEF NoPageIsPaidForAgain
  <2>2. CASE t \notin texts
    BY <2>2 DEF Frame, FileTypes
  <2> QED BY <2>1, <2>2
<1> QED BY <1>1 DEF NoPageIsPaidForAgain
-----------------------------------------------------------------------------
(* The steps of a reader.                                                   *)

\* A call that begins or goes on is its worker's only one.
LEMMA CallsGo ==
  ASSUME FileTypes, NEW w \in Workers, NEW call, CallShape(call), Goes(w, call) \/ Starts(w, call)
  PROVE  /\ DOMAIN calls' = Workers /\ \A v \in Workers : \A one \in calls'[v] : CallShape(one)
         /\ \A v \in Workers : \A one \in calls'[v] : one \in calls[v] \/ one = call
<1>1. calls' = [calls EXCEPT ![w] = {call}]
  BY DEF Goes, Starts
<1>2. DOMAIN calls' = Workers /\ \A v \in Workers : calls'[v] = IF v = w THEN {call} ELSE calls[v]
  BY <1>1 DEF FileTypes
<1>3. \A v \in Workers : \A one \in calls[v] : CallShape(one)
  BY DEF FileTypes
<1> QED BY <1>2, <1>3

LEMMA CallsEnd ==
  ASSUME FileTypes, NEW w \in Workers, Ends(w)
  PROVE  /\ DOMAIN calls' = Workers /\ \A v \in Workers : \A one \in calls'[v] : CallShape(one)
         /\ \A v \in Workers : \A one \in calls'[v] : one \in calls[v]
<1>1. DOMAIN calls' = Workers /\ \A v \in Workers : calls'[v] = IF v = w THEN {} ELSE calls[v]
  BY DEF FileTypes, Ends
<1>2. \A v \in Workers : \A one \in calls[v] : CallShape(one)
  BY DEF FileTypes
<1> QED BY <1>1, <1>2

LEMMA FetchKeepsInv ==
  ASSUME FilesAssumption, FileInv, NEW w \in Workers, NEW u \in DOMAIN Uploads, FetchAndStore(w, u)
  PROVE  FileInv'
<1> DEFINE c == ContentOf(u)
<1> PICK call : call = [task |-> "read", pc |-> "stored", upload |-> u, expires |-> date + RetentionDays,
                        cached |-> {}, began |-> readings]
  OBVIOUS
<1>1. FileTypes /\ CallsAreSafe /\ KeptBytesHaveAnExpiry /\ NoPageIsPaidForAgain
  BY DEF FileInv
<1>2. /\ attachments[u] = Waiting /\ attachments[u] # Gone /\ ~Expired(u)
      /\ UNCHANGED <<texts, date, readings, bought, erased>>
  BY DEF FetchAndStore, Waiting, Gone, Expired
<1>3. CASE \E state \in Unstored(c) : attachments' = [attachments EXCEPT ![u].state = state] /\ UNCHANGED <<blobs, calls, unrecorded>>
  <2>1. PICK state \in {"FAILED", "REJECTED"} : attachments' = [attachments EXCEPT ![u].state = state]
    BY <1>3 DEF Unstored
  <2>2. UNCHANGED <<blobs, calls, unrecorded>>
    BY <1>3
  <2>3. /\ DOMAIN attachments' = DOMAIN Uploads
        /\ attachments'[u] = [state |-> state, expires |-> NoExpiry]
        /\ \A v \in DOMAIN Uploads \ {u} : attachments'[v] = attachments[v]
    BY <1>1, <1>2, <2>1 DEF FileTypes, Waiting
  <2>4. attachments'[u] # Gone /\ ~Expired(u)' /\ ~Dated(u)
    BY <1>2, <2>3 DEF Gone, Expired, Dated, Waiting
  <2>5. FileTypes'
    BY <1>1, <1>2, <2>2, <2>3 DEF FileTypes, NoExpiry
  <2>6. \A v \in DOMAIN Uploads \ {u} : Expired(v)' <=> Expired(v)
    BY <1>2, <2>3 DEF Expired
  <2>7. RowsStay
    BY <2>2, <2>3, <2>4 DEF RowsStay, Dated, Undated
  <2>9. \A d : /\ (FreshBytes(d) => FreshBytes(d)') /\ (FreshWords(d) => FreshWords(d)')
              /\ (BytesHaveRow(d) => BytesHaveRow(d)') /\ (WordsHaveRow(d) => WordsHaveRow(d)')
    BY <2>4, <2>6, <2>7, RowsStayFresh
  <2>8. Frame
    BY <1>1, <1>2, <2>2, <2>3, <2>4, <2>6, <2>9 DEF Frame, FileTypes
  <2>10. CallsAreSafe'
    BY <1>1, <2>2, <2>5, <2>8, CallsStaySafe
  <2>11. KeptBytesHaveAnExpiry'
    BY <1>1, <2>8, <2>9, KeptBytesKeepARow
  <2>12. NoPageIsPaidForAgain'
    BY <1>1, <1>2, <2>5, <2>8, PaidPagesStayPaidOnce
  <2> QED BY <2>5, <2>10, <2>11, <2>12 DEF FileInv
<1>4. CASE /\ Starts(w, call)
           /\ blobs' = [d \in DOMAIN blobs \cup {c} |-> IF d = c THEN date ELSE blobs[d]]
           /\ unrecorded' = unrecorded \cup {u}
           /\ UNCHANGED attachments
  <2>1. call.expires \in Int /\ call.expires > date /\ call.began \in Nat
    BY <1>1 DEF FilesAssumption, FileTypes
  <2>2. CallShape(call)
    BY <2>1 DEF CallShape, ReadCall
  <2>3. \A v \in DOMAIN Uploads : Expired(v)' <=> Expired(v)
    BY <1>2, <1>4 DEF Expired
  <2>4. ReaderKnows(call)' /\ SweepIsSafe(call)'
    <3>1. call.task = "read" /\ call.pc = "stored" /\ call.upload = u /\ call.began = readings
      OBVIOUS
    <3> QED BY <1>1, <1>2, <1>4, <2>1, <2>3, <3>1 DEF ReaderKnows, SweepIsSafe, FileTypes
  <2>5. /\ DOMAIN calls' = Workers /\ \A v \in Workers : \A one \in calls'[v] : CallShape(one)
        /\ \A v \in Workers : \A one \in calls'[v] : one \in calls[v] \/ one = call
    BY <1>1, <1>4, <2>2, CallsGo
  <2>6. FileTypes'
    BY <1>1, <1>2, <1>4, <2>5 DEF FileTypes, CallShape
  <2>7. \A d : /\ (FreshBytes(d) => FreshBytes(d)') /\ (FreshWords(d) => FreshWords(d)')
              /\ (BytesHaveRow(d) => BytesHaveRow(d)') /\ (WordsHaveRow(d) => WordsHaveRow(d)')
    <3>1. RowsStay
      BY <1>4 DEF RowsStay, Dated, Undated
    <3> QED BY <2>3, <3>1, RowsStayFresh
  <2>8. FreshBytes(c)'
    BY <1>2, <1>4, <2>3 DEF FreshBytes, Undated, ContentOf
  <2>9. \A d \in DOMAIN blobs' : d \in DOMAIN blobs \/ d = c
    BY <1>4
  <2> HIDE DEF c
  <2>10. Frame
    BY <1>1, <1>2, <1>4, <2>3, <2>7, <2>8, <2>9 DEF Frame, FileTypes
  <2>11. CallsAreSafe'
    BY <1>1, <2>4, <2>5, <2>6, <2>10, CallsStaySafe
  <2>12. KeptBytesHaveAnExpiry'
    BY <1>1, <2>7, <2>10, KeptBytesKeepARow
  <2>13. NoPageIsPaidForAgain'
    BY <1>1, <1>2, <2>6, <2>10, PaidPagesStayPaidOnce
  <2> QED BY <2>6, <2>11, <2>12, <2>13 DEF FileInv
<1> QED BY <1>3, <1>4 DEF FetchAndStore

\* Steps that move only the calls.
LEMMA MovingKeepsInv ==
  ASSUME FilesAssumption, FileInv, UNCHANGED <<attachments, texts, date, readings, bought, unrecorded, erased>>,
         DOMAIN blobs' \subseteq DOMAIN blobs,
         DOMAIN calls' = Workers, \A v \in Workers : \A one \in calls'[v] : CallShape(one),
         \A v \in Workers : \A one \in calls'[v] : one \in calls[v] \/ (ReaderKnows(one)' /\ SweepIsSafe(one)')
  PROVE  FileInv'
<1>1. FileTypes /\ CallsAreSafe /\ KeptBytesHaveAnExpiry /\ NoPageIsPaidForAgain
  BY DEF FileInv
<1>2. FileTypes'
  BY <1>1 DEF FileTypes, CallShape
<1>3. \A v \in DOMAIN Uploads : Expired(v)' <=> Expired(v)
  BY DEF Expired
<1>4. \A d : /\ (FreshBytes(d) => FreshBytes(d)') /\ (FreshWords(d) => FreshWords(d)')
            /\ (BytesHaveRow(d) => BytesHaveRow(d)') /\ (WordsHaveRow(d) => WordsHaveRow(d)')
  <2>1. RowsStay
    BY DEF RowsStay, Dated, Undated
  <2> QED BY <1>3, <2>1, RowsStayFresh
<1>5. Frame
  BY <1>1, <1>3, <1>4 DEF Frame, FileTypes
<1>6. CallsAreSafe'
  BY <1>1, <1>2, <1>5, CallsStaySafe
<1>7. KeptBytesHaveAnExpiry'
  BY <1>1, <1>4, <1>5, KeptBytesKeepARow
<1>8. NoPageIsPaidForAgain'
  BY <1>1, <1>2, <1>5, PaidPagesStayPaidOnce
<1> QED BY <1>2, <1>6, <1>7, <1>8 DEF FileInv

LEMMA LookUpKeepsInv ==
  ASSUME FilesAssumption, FileInv, NEW w \in Workers, LoadCachedExtraction(w)
  PROVE  FileInv'
<1>1. FileTypes /\ CallsAreSafe
  BY DEF FileInv
<1>2. PICK call \in calls[w] :
        /\ call.task = "read" /\ call.pc = "stored"
        /\ Goes(w, [call EXCEPT !.pc = "looked", !.began = readings,
                      !.cached = {[page |-> t.page, method |-> t.method] : t \in TextsOf(ContentOf(call.upload))}])
  BY DEF LoadCachedExtraction
<1>3. CallShape(call) /\ ReaderKnows(call)
  BY <1>1 DEF FileTypes, CallsAreSafe
<1>4. PICK found : found = {[page |-> t.page, method |-> t.method] : t \in TextsOf(ContentOf(call.upload))}
  OBVIOUS
<1>5. PICK next : next = [call EXCEPT !.pc = "looked", !.began = readings, !.cached = found]
  OBVIOUS
<1>6. /\ DOMAIN next = ReadCall /\ next.task = "read" /\ next.upload = call.upload /\ next.expires = call.expires
      /\ next.began = readings /\ next.cached = found
  BY <1>2, <1>3, <1>5 DEF CallShape, ReadCall
<1>7. CallShape(next)
  BY <1>1, <1>2, <1>3, <1>6 DEF CallShape, FileTypes
<1>8. UNCHANGED <<attachments, blobs, texts, date, readings, bought, unrecorded, erased>>
  BY DEF LoadCachedExtraction
<1>9. \A t \in TextsOf(ContentOf(call.upload)) : \E c \in found : c.page = t.page
  <2> SUFFICES ASSUME NEW t \in TextsOf(ContentOf(call.upload)) PROVE \E c \in found : c.page = t.page
    OBVIOUS
  <2>1. [page |-> t.page, method |-> t.method] \in found
    BY <1>4
  <2> QED BY <2>1
<1>10. ReaderKnows(next)' /\ SweepIsSafe(next)'
  <2>1. call.expires > date' /\ ~Expired(call.upload)'
    BY <1>2, <1>3, <1>8 DEF ReaderKnows, Expired
  <2>2. next.began <= readings'
    BY <1>1, <1>6, <1>8 DEF FileTypes
  <2>3. \A t \in TextsOf(ContentOf(next.upload))' : \E c \in next.cached : c.page = t.page
    BY <1>6, <1>8, <1>9 DEF TextsOf, ContentOf
  <2> QED BY <1>6, <2>1, <2>2, <2>3 DEF ReaderKnows, SweepIsSafe, ContentOf
<1>11. Goes(w, next)
  BY <1>2, <1>4, <1>5
<1>12. /\ DOMAIN calls' = Workers /\ \A v \in Workers : \A one \in calls'[v] : CallShape(one)
       /\ \A v \in Workers : \A one \in calls'[v] : one \in calls[v] \/ one = next
  BY <1>1, <1>7, <1>11, CallsGo
<1> QED BY <1>8, <1>10, <1>12, MovingKeepsInv
\* What a call does with what it read: content c of attachment u.
WordsRead(call, env, u, c, result) ==
  /\ u = call.upload /\ c = ContentOf(u)
  /\ result = ReadFile(Contents[c], Uploads[u].brief, env, call.cached)
  /\ call.task = "read" /\ call.pc = "looked"
  /\ bought' = bought \cup {[content |-> c, page |-> p, began |-> call.began] : p \in result.vision}
  /\ \/ UNCHANGED <<attachments, texts, readings, unrecorded>>
     \/ /\ attachments[u] # Gone
        /\ attachments' = [attachments EXCEPT ![u] = [state |-> result.state, expires |-> call.expires]]
        /\ texts' = texts \cup Stored(c, ToSet(result.pages))
        /\ readings' = readings + 1
        /\ unrecorded' = unrecorded \ {u}

LEMMA ReadKeepsInv ==
  ASSUME FilesAssumption, FileInv, NEW w \in Workers, NEW env \in Environments, ReadAndCommit(w, env)
  PROVE  FileInv'
<1>1. FileTypes /\ CallsAreSafe /\ KeptBytesHaveAnExpiry /\ NoPageIsPaidForAgain
  BY DEF FileInv
<1>0. PICK call \in calls[w] : \E u, c, result : WordsRead(call, env, u, c, result)
  BY DEF ReadAndCommit, WordsRead
<1>2. PICK u, c, result : WordsRead(call, env, u, c, result)
  BY <1>0
<1>3. Ends(w) /\ UNCHANGED <<blobs, date, erased>>
  BY DEF ReadAndCommit
<1>4. CallShape(call) /\ ReaderKnows(call)
  BY <1>1, <1>2 DEF FileTypes, CallsAreSafe, WordsRead
<1>5. u \in DOMAIN Uploads /\ call.began \in Nat /\ call.began <= readings /\ call.expires \in Int /\ call.expires > date
  BY <1>2, <1>4 DEF CallShape, ReaderKnows, WordsRead
<1>6. /\ DOMAIN calls' = Workers /\ \A v \in Workers : \A one \in calls'[v] : CallShape(one)
      /\ \A v \in Workers : \A one \in calls'[v] : one \in calls[v]
  BY <1>1, <1>3, CallsEnd
<1>7. \A b \in bought' : b \in bought \/ (b.content = c /\ b.page \in result.vision /\ b.began = call.began)
  BY <1>2 DEF WordsRead
<1>8. \A t \in texts' : t \in texts \/ (t.content = c /\ t.at = readings)
  BY <1>2 DEF Stored, WordsRead
<1>9. readings' \in Nat /\ readings <= readings'
  BY <1>1, <1>2 DEF FileTypes, WordsRead
<1>10. /\ DOMAIN attachments' = DOMAIN Uploads
       /\ \A v \in DOMAIN Uploads : attachments'[v] = attachments[v] \/ (v = u /\ attachments'[u].expires = call.expires)
  BY <1>1, <1>2, <1>5 DEF FileTypes, WordsRead
<1>11. FileTypes'
  <2>1. \A b \in bought' : b.began \in Nat /\ b.began <= readings'
    BY <1>1, <1>5, <1>7, <1>9 DEF FileTypes
  <2>2. \A t \in texts' : t.at \in Nat
    BY <1>1, <1>8 DEF FileTypes
  <2>3. \A v \in DOMAIN Uploads : attachments'[v].expires \in Int
    BY <1>1, <1>5, <1>10 DEF FileTypes
  <2> QED BY <1>1, <1>3, <1>6, <1>9, <1>10, <2>1, <2>2, <2>3 DEF FileTypes, CallShape
\* A file that is due, or whose row went, is not the one this call commits.
<1>12. ASSUME NEW v \in DOMAIN Uploads, attachments'[v] # attachments[v]
       PROVE  v = u /\ attachments[u] # Gone /\ ~Expired(u) /\ attachments'[u] # Gone /\ ~Expired(u)'
  <2>1. v = u /\ attachments[u] # Gone /\ attachments'[u].expires = call.expires
    BY <1>1, <1>2, <1>5, <1>10, <1>12 DEF FileTypes, WordsRead
  <2>2. call.expires # NoExpiry /\ ~(call.expires <= date')
    BY <1>1, <1>3, <1>5 DEF FileTypes, NoExpiry
  <2>3. attachments'[u] # Gone
    BY <2>1, <2>2 DEF Gone
  <2> QED BY <1>2, <1>4, <2>1, <2>2, <2>3 DEF ReaderKnows, Expired, WordsRead
<1>13. \A v \in DOMAIN Uploads : attachments'[v] = attachments[v] => (Expired(v)' <=> Expired(v))
  BY <1>3 DEF Expired
<1>14. \A d : /\ (FreshBytes(d) => FreshBytes(d)') /\ (FreshWords(d) => FreshWords(d)')
             /\ (BytesHaveRow(d) => BytesHaveRow(d)') /\ (WordsHaveRow(d) => WordsHaveRow(d)')
  <2>1. \A v \in DOMAIN Uploads : Expired(v)' => Expired(v)
    BY <1>12, <1>13
  <2>2. call.expires # NoExpiry
    BY <1>1, <1>5 DEF FileTypes, NoExpiry
  <2>3. \A v \in DOMAIN Uploads : attachments'[v] = attachments[v] \/ Dated(v)'
    BY <1>10, <2>2 DEF Dated
  <2>4. \A v \in unrecorded : v \in unrecorded' \/ (v = u /\ attachments'[u].expires = call.expires)
    BY <1>1, <1>2, <1>5 DEF WordsRead, FileTypes
  <2>5. \A v \in DOMAIN Uploads : v \in unrecorded => v \in unrecorded' \/ Dated(v)'
    BY <2>2, <2>4 DEF Dated
  <2>6. RowsStay
    BY <2>3, <2>5 DEF RowsStay, Dated, Undated
  <2> QED BY <2>1, <2>6, RowsStayFresh
<1>15. \A t \in texts' : t \in texts \/ FreshWords(t.content)'
  <2>1. CASE UNCHANGED texts
    BY <2>1
  <2>2. CASE /\ attachments[u] # Gone
             /\ attachments' = [attachments EXCEPT ![u] = [state |-> result.state, expires |-> call.expires]]
    <3>1. attachments'[u].expires = call.expires
      BY <1>1, <1>5, <2>2 DEF FileTypes
    <3>2. Dated(u)' /\ ~Expired(u)'
      BY <1>1, <1>3, <1>5, <3>1 DEF Expired, Dated, FileTypes, NoExpiry
    <3>3. FreshWords(c)'
      BY <1>2, <1>5, <3>2 DEF FreshWords, ContentOf, WordsRead
    <3> QED BY <1>8, <3>3
  <2> QED BY <1>2, <2>1, <2>2 DEF WordsRead
<1>16. Frame
  <2>1. \A t \in texts' : t \in texts \/ t.at >= readings
    BY <1>1, <1>8 DEF FileTypes
  <2> QED BY <1>3, <1>9, <1>12, <1>13, <1>14, <1>15, <2>1 DEF Frame
<1>17. NoPageIsPaidForAgain'
  <2> SUFFICES ASSUME NEW b \in bought', NEW t \in texts', b.content = t.content, b.page = t.page
               PROVE  b.began <= t.at
    BY DEF NoPageIsPaidForAgain
  <2>1. CASE b \in bought /\ t \in texts
    BY <1>1, <2>1 DEF NoPageIsPaidForAgain
  <2>2. CASE b \in bought /\ t \notin texts
    BY <1>1, <1>8, <2>2 DEF FileTypes
  <2>3. CASE b \notin bought /\ t \notin texts
    BY <1>5, <1>7, <1>8, <2>3
  <2>4. CASE b \notin bought /\ t \in texts
    <3>1. b.content = c /\ b.page \in result.vision /\ b.began = call.began
      BY <1>7, <2>4
    <3>2. \A found \in call.cached : found.page # b.page
      BY <1>2, <3>1, CachedPagesAreFree DEF WordsRead
    <3>3. t \in TextsOf(ContentOf(call.upload))
      BY <1>2, <2>4, <3>1 DEF TextsOf, WordsRead
    <3>4. t.at >= call.began
      BY <1>2, <1>4, <3>2, <3>3 DEF ReaderKnows, WordsRead
    <3> QED BY <1>1, <1>5, <2>4, <3>1, <3>4 DEF FileTypes
  <2> QED BY <2>1, <2>2, <2>3, <2>4
<1>18. CallsAreSafe'
  BY <1>1, <1>6, <1>11, <1>16, CallsStaySafe
<1>19. KeptBytesHaveAnExpiry'
  BY <1>1, <1>14, <1>16, KeptBytesKeepARow
<1> QED BY <1>11, <1>17, <1>18, <1>19 DEF FileInv
-----------------------------------------------------------------------------
(* The steps of a sweep.                                                    *)

LEMMA SelectKeepsInv ==
  ASSUME FilesAssumption, FileInv, NEW w \in Workers, SelectExpired(w)
  PROVE  FileInv'
<1>1. FileTypes
  BY DEF FileInv
<1>0. PICK batch \in SUBSET {u \in DOMAIN Uploads : Expired(u)} :
        Starts(w, [task |-> "sweep", todo |-> batch, doomed |-> {}, words |-> {}])
  BY DEF SelectExpired
<1>2. PICK call : call = [task |-> "sweep", todo |-> batch, doomed |-> {}, words |-> {}] /\ Starts(w, call)
  BY <1>0
<1>3. UNCHANGED <<attachments, blobs, texts, date, readings, bought, unrecorded, erased>>
  BY DEF SelectExpired
<1>4. CallShape(call)
  BY <1>2 DEF CallShape, SweepCall
<1>5. \A u \in batch : Expired(u)'
  BY <1>2, <1>3 DEF Expired
<1>6. ReaderKnows(call)' /\ SweepIsSafe(call)'
  BY <1>2, <1>5 DEF ReaderKnows, SweepIsSafe
<1>7. /\ DOMAIN calls' = Workers /\ \A v \in Workers : \A one \in calls'[v] : CallShape(one)
      /\ \A v \in Workers : \A one \in calls'[v] : one \in calls[v] \/ one = call
  BY <1>1, <1>2, <1>4, CallsGo
<1> QED BY <1>3, <1>6, <1>7, MovingKeepsInv

\* The next file of the batch: its blob goes and its row will, or neither.
LEMMA SweepOneKeepsInv ==
  ASSUME FilesAssumption, FileInv, NEW w \in Workers, SweepOne(w)
  PROVE  FileInv'
<1>1. FileTypes /\ CallsAreSafe
  BY DEF FileInv
<1>2. PICK call \in calls[w] :
        /\ call.task = "sweep"
        /\ \E u \in call.todo :
             \/ /\ blobs' = [c \in DOMAIN blobs \ {ContentOf(u)} |-> blobs[c]]
                /\ Goes(w, [call EXCEPT !.todo = @ \ {u}, !.doomed = @ \cup {u}, !.words = @ \cup TextsOf(ContentOf(u))])
             \/ /\ Goes(w, AfterBlobError(call, u))
                /\ UNCHANGED blobs
  BY DEF SweepOne
<1>3. UNCHANGED <<attachments, texts, date, readings, bought, unrecorded, erased>>
  BY DEF SweepOne
<1>4. PICK u \in call.todo :
             \/ /\ blobs' = [c \in DOMAIN blobs \ {ContentOf(u)} |-> blobs[c]]
                /\ Goes(w, [call EXCEPT !.todo = @ \ {u}, !.doomed = @ \cup {u}, !.words = @ \cup TextsOf(ContentOf(u))])
             \/ /\ Goes(w, AfterBlobError(call, u))
                /\ UNCHANGED blobs
  BY <1>2
<1>5. CallShape(call) /\ SweepIsSafe(call) /\ DOMAIN call = SweepCall
  BY <1>1, <1>2 DEF FileTypes, CallsAreSafe, CallShape
<1>6. call.todo \subseteq DOMAIN Uploads /\ call.doomed \subseteq DOMAIN Uploads
  BY <1>2, <1>5 DEF CallShape
<1>7. \A v \in DOMAIN Uploads : Expired(v)' <=> Expired(v)
  BY <1>3 DEF Expired
<1>8. \A d : (FreshBytes(d) => FreshBytes(d)') /\ (FreshWords(d) => FreshWords(d)')
  <2>1. RowsStay
    BY <1>3 DEF RowsStay, Dated, Undated
  <2> QED BY <1>7, <2>1, RowsStayFresh
<1>9. CASE /\ blobs' = [c \in DOMAIN blobs \ {ContentOf(u)} |-> blobs[c]]
           /\ Goes(w, [call EXCEPT !.todo = @ \ {u}, !.doomed = @ \cup {u}, !.words = @ \cup TextsOf(ContentOf(u))])
  <2>1. PICK words, next : /\ words = call.words \cup TextsOf(ContentOf(u))
                           /\ next = [call EXCEPT !.todo = @ \ {u}, !.doomed = @ \cup {u}, !.words = words]
    OBVIOUS
  <2>2. /\ DOMAIN next = SweepCall /\ next.task = "sweep" /\ next.todo = call.todo \ {u}
        /\ next.doomed = call.doomed \cup {u} /\ next.words = words
    BY <1>2, <1>5, <2>1 DEF SweepCall
  <2>3. Goes(w, next) /\ CallShape(next)
    BY <1>6, <1>9, <2>1, <2>2 DEF CallShape
  <2>4. \A v \in next.todo \cup next.doomed : attachments'[v] = Gone \/ Expired(v)'
    BY <1>2, <1>3, <1>5, <1>6, <1>7, <2>2 DEF SweepIsSafe
  <2>5. ASSUME NEW v \in next.doomed
        PROVE  /\ ContentOf(v) \in DOMAIN blobs' => ContentOf(v) \in erased' \/ FreshBytes(ContentOf(v))'
               /\ TextsOf(ContentOf(v))' \ next.words # {} => ContentOf(v) \in erased' \/ FreshWords(ContentOf(v))'
    <3>1. DOMAIN blobs' = DOMAIN blobs \ {ContentOf(u)}
      BY <1>9
    <3>2. TextsOf(ContentOf(v))' = TextsOf(ContentOf(v))
      BY <1>3 DEF TextsOf, ContentOf
    <3>3. CASE ContentOf(v) = ContentOf(u)
      BY <2>1, <2>2, <3>1, <3>2, <3>3
    <3>4. CASE ContentOf(v) # ContentOf(u)
      <4>1. v \in call.doomed
        BY <2>2, <2>5, <3>4
      <4>2. /\ ContentOf(v) \in DOMAIN blobs => ContentOf(v) \in erased \/ FreshBytes(ContentOf(v))
            /\ TextsOf(ContentOf(v)) \ call.words # {} => ContentOf(v) \in erased \/ FreshWords(ContentOf(v))
        BY <1>2, <1>5, <4>1 DEF SweepIsSafe
      <4>3. TextsOf(ContentOf(v)) \ next.words # {} => TextsOf(ContentOf(v)) \ call.words # {}
        BY <2>1, <2>2
      <4>4. ContentOf(v)' = ContentOf(v)
        BY DEF ContentOf
      <4> QED BY <1>3, <1>8, <3>1, <3>2, <4>2, <4>3, <4>4
    <3> QED BY <3>3, <3>4
  <2>6. ReaderKnows(next)' /\ SweepIsSafe(next)'
    BY <2>2, <2>4, <2>5 DEF ReaderKnows, SweepIsSafe, ContentOf
  <2>7. /\ DOMAIN calls' = Workers /\ \A v \in Workers : \A one \in calls'[v] : CallShape(one)
        /\ \A v \in Workers : \A one \in calls'[v] : one \in calls[v] \/ one = next
    BY <1>1, <2>3, CallsGo
  <2> QED BY <1>3, <1>9, <2>6, <2>7, MovingKeepsInv
<1>10. CASE Goes(w, AfterBlobError(call, u)) /\ UNCHANGED blobs
  <2>1. PICK next : next = AfterBlobError(call, u)
    OBVIOUS
  <2>2. /\ DOMAIN next = SweepCall /\ next.task = "sweep" /\ next.todo = call.todo \ {u}
        /\ next.doomed = call.doomed /\ next.words = call.words
    BY <1>2, <1>5, <2>1 DEF SweepCall, AfterBlobError
  <2>3. Goes(w, next) /\ CallShape(next)
    BY <1>6, <1>10, <2>1, <2>2 DEF CallShape
  <2>4. \A v \in next.todo \cup next.doomed : attachments'[v] = Gone \/ Expired(v)'
    BY <1>2, <1>3, <1>5, <1>6, <1>7, <2>2 DEF SweepIsSafe
  <2>5. ASSUME NEW v \in next.doomed
        PROVE  /\ ContentOf(v) \in DOMAIN blobs' => ContentOf(v) \in erased' \/ FreshBytes(ContentOf(v))'
               /\ TextsOf(ContentOf(v))' \ next.words # {} => ContentOf(v) \in erased' \/ FreshWords(ContentOf(v))'
    <3>1. TextsOf(ContentOf(v))' = TextsOf(ContentOf(v)) /\ ContentOf(v)' = ContentOf(v)
      BY <1>3 DEF TextsOf, ContentOf
    <3>2. /\ ContentOf(v) \in DOMAIN blobs => ContentOf(v) \in erased \/ FreshBytes(ContentOf(v))
          /\ TextsOf(ContentOf(v)) \ call.words # {} => ContentOf(v) \in erased \/ FreshWords(ContentOf(v))
      BY <1>2, <1>5, <2>2, <2>5 DEF SweepIsSafe
    <3> QED BY <1>3, <1>8, <1>10, <2>2, <3>1, <3>2
  <2>6. ReaderKnows(next)' /\ SweepIsSafe(next)'
    BY <2>2, <2>4, <2>5 DEF ReaderKnows, SweepIsSafe, ContentOf
  <2>7. /\ DOMAIN calls' = Workers /\ \A v \in Workers : \A one \in calls'[v] : CallShape(one)
        /\ \A v \in Workers : \A one \in calls'[v] : one \in calls[v] \/ one = next
    BY <1>1, <2>3, CallsGo
  <2> QED BY <1>3, <1>10, <2>6, <2>7, MovingKeepsInv
<1> QED BY <1>4, <1>9, <1>10

\* A step that ends a call and no more, and the bucket's own rule.
LEMMA LoseKeepsInv ==
  ASSUME FilesAssumption, FileInv, NEW w \in Workers, LoseCall(w)
  PROVE  FileInv'
<1>1. FileTypes /\ Ends(w) /\ UNCHANGED <<attachments, blobs, texts, date, readings, bought, unrecorded, erased>>
  BY DEF FileInv, LoseCall
<1>2. /\ DOMAIN calls' = Workers /\ \A v \in Workers : \A one \in calls'[v] : CallShape(one)
      /\ \A v \in Workers : \A one \in calls'[v] : one \in calls[v]
  BY <1>1, CallsEnd
<1> QED BY <1>1, <1>2, MovingKeepsInv

LEMMA ExpireKeepsInv ==
  ASSUME FilesAssumption, FileInv, NEW c, ExpireBlob(c)
  PROVE  FileInv'
<1>1. FileTypes /\ UNCHANGED <<attachments, texts, calls, date, readings, bought, unrecorded, erased>>
  BY DEF FileInv, ExpireBlob
<1>2. DOMAIN blobs' \subseteq DOMAIN blobs
  BY DEF ExpireBlob
<1>3. DOMAIN calls' = Workers /\ \A v \in Workers : \A one \in calls'[v] : CallShape(one) /\ one \in calls[v]
  BY <1>1 DEF FileTypes
<1> QED BY <1>1, <1>2, <1>3, MovingKeepsInv
\* The commit deletes rows that are due; whatever of theirs is kept by then has
\* a row that is not.
LEMMA CommitSweepKeepsInv ==
  ASSUME FilesAssumption, FileInv, NEW w \in Workers, CommitSweep(w)
  PROVE  FileInv'
<1>1. FileTypes /\ CallsAreSafe /\ KeptBytesHaveAnExpiry /\ NoPageIsPaidForAgain
  BY DEF FileInv
<1>2. PICK call \in calls[w] :
        /\ call.task = "sweep" /\ call.todo = {}
        /\ attachments' = [u \in DOMAIN attachments |-> IF u \in call.doomed THEN Gone ELSE attachments[u]]
        /\ texts' = texts \ call.words
  BY DEF CommitSweep
<1>3. Ends(w) /\ UNCHANGED <<blobs, date, readings, bought, unrecorded, erased>>
  BY DEF CommitSweep
<1>4. SweepIsSafe(call) /\ CallShape(call) /\ call.doomed \subseteq DOMAIN Uploads
  BY <1>1, <1>2 DEF FileTypes, CallsAreSafe, CallShape
<1>5. /\ DOMAIN calls' = Workers /\ \A v \in Workers : \A one \in calls'[v] : CallShape(one)
      /\ \A v \in Workers : \A one \in calls'[v] : one \in calls[v]
  BY <1>1, <1>3, CallsEnd
<1>6. /\ DOMAIN attachments' = DOMAIN Uploads
      /\ \A v \in DOMAIN Uploads : attachments'[v] = IF v \in call.doomed THEN Gone ELSE attachments[v]
  BY <1>1, <1>2 DEF FileTypes
<1>7. FileTypes'
  BY <1>1, <1>2, <1>3, <1>5, <1>6 DEF FileTypes, CallShape, Gone, NoExpiry
<1>8. \A v \in call.doomed : attachments[v] = Gone \/ Expired(v)
  BY <1>2, <1>4 DEF SweepIsSafe
<1>9. \A v \in DOMAIN Uploads : Expired(v)' => Expired(v) /\ attachments'[v] = attachments[v]
  BY <1>3, <1>6 DEF Expired, Gone
<1>10. \A v \in DOMAIN Uploads : (attachments[v] = Gone \/ Expired(v)) => (attachments'[v] = Gone \/ Expired(v)')
  BY <1>3, <1>6 DEF Expired
<1>11. \A d : (FreshBytes(d) => FreshBytes(d)') /\ (FreshWords(d) => FreshWords(d)')
  <2>1. ASSUME NEW v \in DOMAIN Uploads, ~Expired(v), Dated(v) \/ Undated(v)
        PROVE  /\ ~Expired(v)' /\ (Dated(v)' <=> Dated(v)) /\ (Undated(v)' <=> Undated(v))
    <3>1. attachments[v] # Gone
      BY <2>1 DEF Dated, Undated, Gone
    <3>2. attachments'[v] = attachments[v]
      BY <1>6, <1>8, <2>1, <3>1
    <3> QED BY <1>3, <2>1, <3>2 DEF Expired, Dated, Undated
  <2> QED BY <2>1 DEF FreshBytes, FreshWords, ContentOf
<1>12. Frame
  BY <1>1, <1>2, <1>3, <1>9, <1>10, <1>11 DEF Frame, FileTypes
<1>13. ASSUME NEW d \in DOMAIN blobs', BytesHaveRow(d)
       PROVE  BytesHaveRow(d)' \/ d \in erased'
  <2>1. PICK u \in DOMAIN Uploads : ContentOf(u) = d /\ (Dated(u) \/ Undated(u))
    BY <1>13 DEF BytesHaveRow
  <2>2. CASE u \notin call.doomed
    BY <1>3, <1>6, <2>1, <2>2 DEF BytesHaveRow, Dated, Undated, ContentOf
  <2>3. CASE u \in call.doomed
    <3>1. d \in erased \/ FreshBytes(d)
      BY <1>2, <1>3, <1>4, <1>13, <2>1, <2>3 DEF SweepIsSafe
    <3>2. FreshBytes(d)' => BytesHaveRow(d)'
      BY DEF FreshBytes, BytesHaveRow
    <3> QED BY <1>3, <1>11, <3>1, <3>2
  <2> QED BY <2>2, <2>3
<1>17. ASSUME NEW t \in texts', NEW d, d = t.content, WordsHaveRow(d)
       PROVE  WordsHaveRow(d)' \/ d \in erased'
  <2>1. PICK u \in DOMAIN Uploads : ContentOf(u) = d /\ Dated(u)
    BY <1>17 DEF WordsHaveRow
  <2>2. CASE u \notin call.doomed
    BY <1>3, <1>6, <2>1, <2>2 DEF WordsHaveRow, Dated, ContentOf
  <2>3. CASE u \in call.doomed
    <3>1. t \in TextsOf(d) \ call.words
      BY <1>2, <1>17 DEF TextsOf
    <3>2. d \in erased \/ FreshWords(d)
      BY <1>2, <1>4, <2>1, <2>3, <3>1 DEF SweepIsSafe
    <3>3. FreshWords(d)' => WordsHaveRow(d)'
      BY DEF FreshWords, WordsHaveRow
    <3> QED BY <1>3, <1>11, <3>2, <3>3
  <2> QED BY <2>2, <2>3
<1>14. CallsAreSafe'
  BY <1>1, <1>5, <1>7, <1>12, CallsStaySafe
<1>15. KeptBytesHaveAnExpiry'
  <2>1. \A t \in texts' : WordsHaveRow(t.content) => WordsHaveRow(t.content)' \/ t.content \in erased'
    <3>1. ASSUME NEW t \in texts', WordsHaveRow(t.content)
          PROVE  WordsHaveRow(t.content)' \/ t.content \in erased'
      <4>1. PICK d : d = t.content
        OBVIOUS
      <4>2. WordsHaveRow(d)
        BY <3>1, <4>1
      <4>3. WordsHaveRow(d)' \/ d \in erased'
        BY <1>17, <4>1, <4>2
      <4> QED BY <4>1, <4>3
    <3> QED BY <3>1
  <2> QED BY <1>1, <1>12, <1>13, <2>1, KeptBytesKeepARow
<1>16. NoPageIsPaidForAgain'
  BY <1>1, <1>3, <1>7, <1>12, PaidPagesStayPaidOnce
<1> QED BY <1>7, <1>14, <1>15, <1>16 DEF FileInv

-----------------------------------------------------------------------------
(* The operator, and the end of the day.                                    *)

LEMMA DeleteKeepsInv ==
  ASSUME FilesAssumption, FileInv, DeleteStudentData
  PROVE  FileInv'
<1>1. FileTypes /\ CallsAreSafe /\ KeptBytesHaveAnExpiry /\ NoPageIsPaidForAgain
  BY DEF FileInv
<1>2. /\ erased = {} /\ erased' = {ContentOf(u) : u \in {v \in DOMAIN Uploads : attachments[v] # Gone}}
      /\ DOMAIN attachments' = DOMAIN Uploads /\ \A u \in DOMAIN Uploads : attachments'[u] = Gone
      /\ UNCHANGED <<blobs, texts, calls, date, readings, bought, unrecorded>>
  BY <1>1 DEF DeleteStudentData, FileTypes
<1>3. \A u \in DOMAIN Uploads : ~Expired(u)'
  BY <1>2 DEF Expired, Gone
<1>4. \A d : BytesHaveRow(d) \/ WordsHaveRow(d) => d \in erased'
  BY <1>2 DEF BytesHaveRow, WordsHaveRow, Dated, Undated, Gone
<1>5. FileTypes'
  BY <1>1, <1>2 DEF FileTypes, CallShape, Gone, NoExpiry
<1>6. Frame
  BY <1>1, <1>2, <1>3, <1>4, FreshIsARow DEF Frame, FileTypes
<1>7. CallsAreSafe'
  BY <1>1, <1>2, <1>5, <1>6, CallsStaySafe
<1>8. KeptBytesHaveAnExpiry'
  BY <1>1, <1>4, <1>6, KeptBytesKeepARow
<1>9. NoPageIsPaidForAgain'
  BY <1>1, <1>2, <1>5, <1>6, PaidPagesStayPaidOnce
<1> QED BY <1>5, <1>7, <1>8, <1>9 DEF FileInv

LEMMA TomorrowKeepsInv ==
  ASSUME FileInv, Tomorrow
  PROVE  FileInv'
<1>1. FileTypes /\ KeptBytesHaveAnExpiry /\ NoPageIsPaidForAgain
  BY DEF FileInv
<1>2. /\ \A w \in Workers : calls[w] = {}
      /\ date' = date + 1
      /\ UNCHANGED <<attachments, blobs, texts, calls, readings, bought, unrecorded, erased>>
  BY DEF Tomorrow
<1>3. FileTypes'
  BY <1>1, <1>2 DEF FileTypes, CallShape
<1>4. CallsAreSafe'
  BY <1>2 DEF CallsAreSafe
<1>5. KeptBytesHaveAnExpiry' /\ NoPageIsPaidForAgain'
  BY <1>1, <1>2 DEF KeptBytesHaveAnExpiry, NoPageIsPaidForAgain, ContentOf, Dated, Undated
<1> QED BY <1>3, <1>4, <1>5 DEF FileInv

-----------------------------------------------------------------------------
\* Every step of a reader, a sweep, an operator, the bucket or the calendar
\* keeps what the two properties rest on.
LEMMA FileInvNext ==
  ASSUME FilesAssumption, FileInv, [Filing]_fileVars
  PROVE  FileInv'
<1>1. CASE UNCHANGED fileVars
  BY <1>1 DEF fileVars, FileInv, FileTypes, CallShape, CallsAreSafe, ReaderKnows, SweepIsSafe, FreshBytes, FreshWords,
              Expired, Dated, Undated, TextsOf,
              ContentOf, KeptBytesHaveAnExpiry, NoPageIsPaidForAgain
<1>2. CASE \E w \in Workers, u \in DOMAIN Uploads : FetchAndStore(w, u)
  BY <1>2, FetchKeepsInv
<1>3. CASE \E w \in Workers : LoadCachedExtraction(w) \/ SelectExpired(w) \/ SweepOne(w) \/ CommitSweep(w) \/ LoseCall(w)
  BY <1>3, LookUpKeepsInv, SelectKeepsInv, SweepOneKeepsInv, CommitSweepKeepsInv, LoseKeepsInv
<1>4. CASE \E w \in Workers, env \in Environments : ReadAndCommit(w, env)
  BY <1>4, ReadKeepsInv
<1>5. CASE \E c \in DOMAIN Contents : ExpireBlob(c)
  BY <1>5, ExpireKeepsInv
<1>6. CASE DeleteStudentData
  BY <1>6, DeleteKeepsInv
<1>7. CASE Tomorrow
  BY <1>7, TomorrowKeepsInv
<1> QED BY <1>1, <1>2, <1>3, <1>4, <1>5, <1>6, <1>7 DEF Filing

-----------------------------------------------------------------------------
(* The desks share no table.                                                *)

Carding ==
  \/ \E c \in Cards : AddCards({c})
  \/ \E s \in Sessions : LoadSchedule(s) \/ \E g \in Grades : ApplySchedule(s, g)

Marking ==
  \/ StartAttempt
  \/ \E s \in Sessions, responses \in Submissions : LoadAnswerKey(s, responses)
  \/ \E s \in Sessions, reply \in Replies : RecordGrades(s, reply)

Tasking == \E s \in Sessions : LoadTask(s) \/ SaveTaskReads(s) \/ SaveTaskWrites(s)

Remembering ==
  \/ \E suggested \in Suggested : StoreCandidates(suggested)
  \/ \E st \in DOMAIN memory : Supersede(st)

Counting == \E t \in Topics, correct \in BOOLEAN : RecordAttempt(t, correct)

Telling == AskProgress \/ HandIn

LEMMA NextByDesk ==
  ASSUME Next
  PROVE  \/ NextDay \/ Carding \/ Marking \/ Tasking \/ Remembering \/ Counting \/ Telling
         \/ desk = "library" /\ Reading /\ UNCHANGED <<studyVars, fileVars>>
         \/ desk = "files" /\ Filing /\ UNCHANGED <<studyVars, libraryVars>>
  BY DEF Next, Carding, Marking, Tasking, Remembering, Counting, Telling

\* What each desk leaves alone; the rows it may write are left open.
LEMMA CardingLeaves ==
  ASSUME Carding
  PROVE  /\ desk = "cards" /\ UNCHANGED <<desk, today, paperRows, tasks, memoryRows, shown, libraryVars, fileVars>>
         /\ steps' = steps \/ (steps < MaxSteps[desk] /\ steps' = steps + 1)
  BY DEF Carding, AddCards, LoadSchedule, ApplySchedule, Writes, clock

LEMMA MarkingLeaves ==
  ASSUME Marking
  PROVE  /\ desk = "papers" /\ UNCHANGED <<desk, today, cardRows, tasks, memoryRows, shown, libraryVars, fileVars>>
         /\ steps' = steps \/ (steps < MaxSteps[desk] /\ steps' = steps + 1)
  BY DEF Marking, StartAttempt, LoadAnswerKey, RecordGrades, Writes, clock

LEMMA TaskingLeaves ==
  ASSUME Tasking
  PROVE  /\ desk = "homework" /\ UNCHANGED <<desk, today, cardRows, paperRows, memoryRows, shown, libraryVars, fileVars>>
         /\ steps' = steps \/ (steps < MaxSteps[desk] /\ steps' = steps + 1)
<1>1. ASSUME NEW s \in Sessions, LoadTask(s) \/ SaveTaskReads(s)
      PROVE  desk = "homework" /\ UNCHANGED <<clock, cardRows, paperRows, memoryRows, shown, libraryVars, fileVars>>
  BY <1>1 DEF LoadTask, SaveTaskReads
<1>2. ASSUME NEW s \in Sessions, SaveTaskWrites(s)
      PROVE  /\ desk = "homework" /\ UNCHANGED <<desk, today, cardRows, paperRows, memoryRows, shown, libraryVars, fileVars>>
             /\ steps < MaxSteps[desk] /\ steps' = steps + 1
  BY <1>2 DEF SaveTaskWrites, Writes
<1> QED BY <1>1, <1>2 DEF Tasking, clock

LEMMA RememberingLeaves ==
  ASSUME Remembering
  PROVE  /\ UNCHANGED <<desk, today, held, cardRows, paperRows, tasks, stats, shown, libraryVars, fileVars>>
         /\ steps' = steps \/ (steps < MaxSteps[desk] /\ steps' = steps + 1)
  BY DEF Remembering, StoreCandidates, Supersede, Writes, clock

LEMMA CountingLeaves ==
  ASSUME Counting
  PROVE  /\ UNCHANGED <<desk, today, held, cardRows, paperRows, tasks, memory, shown, libraryVars, fileVars>>
         /\ steps' = steps \/ (steps < MaxSteps[desk] /\ steps' = steps + 1)
  BY DEF Counting, RecordAttempt, Writes

LEMMA TellingLeaves ==
  ASSUME Telling
  PROVE  UNCHANGED <<clock, held, cardRows, paperRows, tasks, memoryRows, libraryVars, fileVars>>
  BY DEF Telling, AskProgress, HandIn

\* A step of Study is a step of the files, or leaves them alone.
LEMMA FilesStep == ASSUME [Next]_vars PROVE [Filing]_fileVars
<1>1. CASE UNCHANGED vars
  BY <1>1 DEF vars
<1>2. CASE NextDay
  BY <1>2 DEF NextDay
<1>3. CASE Carding \/ Marking \/ Tasking \/ Remembering \/ Counting \/ Telling
  BY <1>3, CardingLeaves, MarkingLeaves, TaskingLeaves, RememberingLeaves, CountingLeaves, TellingLeaves
<1> QED BY <1>1, <1>2, <1>3, NextByDesk

LEMMA LibraryStep == ASSUME [Next]_vars PROVE [Reading]_libraryVars
<1>1. CASE UNCHANGED vars
  BY <1>1 DEF vars
<1>2. CASE NextDay
  BY <1>2 DEF NextDay
<1>3. CASE Carding \/ Marking \/ Tasking \/ Remembering \/ Counting \/ Telling
  BY <1>3, CardingLeaves, MarkingLeaves, TaskingLeaves, RememberingLeaves, CountingLeaves, TellingLeaves
<1> QED BY <1>1, <1>2, <1>3, NextByDesk

-----------------------------------------------------------------------------
(* The files.                                                               *)

LEMMA FilesStaySafe == Spec => []FileInv
<1>1. Init => FileInv
  BY FilesAssumption, FileInvInit DEF Init
<1>2. FileInv /\ [Next]_vars => FileInv'
  BY FilesAssumption, FilesStep, FileInvNext
<1> QED BY <1>1, <1>2, PTL DEF Spec

\* Words have a row whose expiry a later sweep will find, and so have the bytes
\* they were read from, or an operator deleted their rows: whatever fails or dies
\* between the steps of a sweep, and whoever else reads or sweeps the same bytes.
\* Bytes without such a row are those of a call that put them and has not
\* committed (services/retention.py, media/pipeline.py).
THEOREM KeptBytesAreAnsweredFor == Spec => []KeptBytesHaveAnExpiry
<1>1. FileInv => KeptBytesHaveAnExpiry
  BY DEF FileInv
<1> QED BY <1>1, FilesStaySafe, PTL

\* A page of the same bytes is paid for again only by a call that looked up the
\* cache before the words of the other were committed (load_cached_extraction,
\* MediaPipeline.process), whatever the readers of the deployment answer.
THEOREM PagesArePaidForOnce == Spec => []NoPageIsPaidForAgain
<1>1. FileInv => NoPageIsPaidForAgain
  BY DEF FileInv
<1> QED BY <1>1, FilesStaySafe, PTL
-----------------------------------------------------------------------------
(* Flashcards: the arithmetic stays inside the columns.                     *)

LEMMA NearestIsWhole == \A n \in Int : Nearest(n, 100) \in Int
  BY DEF Nearest

LEMMA EaseStays ==
  ASSUME NEW ease \in Int, NEW g \in Grades
  PROVE  EaseAfter(ease, g) \in MinEase .. MaxEase
<1>1. g \in DOMAIN Quality /\ Quality[g] \in 2 .. 5
  BY DEF Grades, Quality
<1>2. ASSUME NEW miss \in 0 .. 3 PROVE ease + 10 - miss * (8 + 2 * miss) \in Int
  OBVIOUS
<1>3. 5 - Quality[g] \in 0 .. 3
  BY <1>1
<1>4. PICK miss \in 0 .. 3 : miss = 5 - Quality[g]
  BY <1>3
<1>5. PICK n \in Int : n = ease + 10 - miss * (8 + 2 * miss)
  BY <1>2
<1>6. EaseAfter(ease, g) = Between(MinEase, n, MaxEase)
  BY <1>4, <1>5 DEF EaseAfter
<1> QED BY <1>6 DEF Between, MinEase, MaxEase

LEMMA ScheduleStaysOne ==
  ASSUME NEW card \in Schedule, NEW g \in Grades, NEW day \in Nat
  PROVE  ScheduleReview(card, g, day) \in Schedule
<1>1. /\ card.repetitions \in Nat /\ card.interval \in 0 .. MaxIntervalDays /\ card.ease \in MinEase .. MaxEase
      /\ card.lapses \in Nat
  BY DEF Schedule
<1>2. Lapsed(card, day) \in Schedule
  <2>1. Between(MinEase, card.ease - 20, MaxEase) \in MinEase .. MaxEase
    BY <1>1 DEF Between, MinEase, MaxEase
  <2> QED BY <1>1, <2>1 DEF Lapsed, Schedule, FirstIntervalDays, MaxIntervalDays
<1>3. Recalled(card, g, day) \in Schedule
  <2>1. PICK ease : ease = EaseAfter(card.ease, g)
    OBVIOUS
  <2>2. ease \in MinEase .. MaxEase
    BY <1>1, <2>1, EaseStays DEF MinEase, MaxEase
  <2>3. PICK days : days = IntervalAfter(card, ease)
    OBVIOUS
  <2>4. days \in 0 .. MaxIntervalDays
    <3>1. Nearest(card.interval * ease, 100) \in Int
      BY <1>1, <2>2, NearestIsWhole DEF MaxIntervalDays, MinEase, MaxEase
    <3>2. Between(0, Nearest(card.interval * ease, 100), MaxIntervalDays) \in 0 .. MaxIntervalDays
      BY <3>1 DEF Between, MaxIntervalDays
    <3> QED BY <2>3, <3>2 DEF IntervalAfter, FirstIntervalDays, SecondIntervalDays, MaxIntervalDays
  <2>5. Recalled(card, g, day) = [repetitions |-> card.repetitions + 1, interval |-> days, ease |-> ease,
                                  due |-> day + days, lapses |-> card.lapses]
    BY <2>1, <2>3 DEF Recalled
  <2>6. card.repetitions + 1 \in Nat /\ day + days \in Nat
    BY <1>1, <2>4 DEF MaxIntervalDays
  <2> QED BY <1>1, <2>2, <2>4, <2>5, <2>6 DEF Schedule
<1> QED BY <1>2, <1>3 DEF ScheduleReview

LEMMA NewCardIsOne == NewCard \in Schedule
  BY DEF NewCard, Schedule, DefaultEase, MinEase, MaxEase, MaxIntervalDays, Never

LogRow == [card : Cards, grade : Grades, interval : Nat, ease : Int, due : Int]

CardTypes ==
  /\ today \in Nat
  /\ DOMAIN cards \subseteq Cards /\ \A c \in DOMAIN cards : cards[c] \in Schedule
  /\ DOMAIN held = Sessions
  /\ desk = "cards" => \A s \in Sessions : \A h \in held[s] : h.card \in DOMAIN cards /\ h.schedule \in Schedule
  /\ reviews \in Seq(LogRow)
  /\ \A i \in 1 .. Len(reviews) : reviews[i].card \in DOMAIN cards

\* The last row of a card's log shows what the card does.
LogShows ==
  \A i \in 1 .. Len(reviews) :
    (\A j \in 1 .. Len(reviews) : reviews[j].card = reviews[i].card => j <= i)
      => reviews[i] = ReviewRow(reviews[i].card, reviews[i].grade, cards[reviews[i].card])

CardInv == CardTypes /\ LogShows
LEMMA HeldStays == ASSUME DOMAIN held = Sessions, [Next]_vars PROVE DOMAIN held' = Sessions
<1>1. CASE UNCHANGED vars
  BY <1>1 DEF vars, studyVars
<1>2. CASE NextDay
  BY <1>2 DEF NextDay
<1>3. CASE Carding
  BY <1>3 DEF Carding, AddCards, LoadSchedule, ApplySchedule, Holds, Drops
<1>4. CASE Marking
  BY <1>4 DEF Marking, StartAttempt, LoadAnswerKey, RecordGrades, Holds, Drops
<1>5. CASE Tasking
  <2>1. ASSUME NEW s \in Sessions, LoadTask(s) PROVE DOMAIN held' = DOMAIN held
    BY <2>1 DEF LoadTask, Holds
  <2>2. ASSUME NEW s \in Sessions, SaveTaskReads(s) PROVE DOMAIN held' = DOMAIN held
    BY <2>2 DEF SaveTaskReads, Holds, Drops
  <2>3. ASSUME NEW s \in Sessions, SaveTaskWrites(s) PROVE DOMAIN held' = DOMAIN held
    BY <2>3 DEF SaveTaskWrites, Drops
  <2> QED BY <1>5, <2>1, <2>2, <2>3 DEF Tasking
<1>6. CASE Remembering \/ Counting \/ Telling
  BY <1>6, RememberingLeaves, CountingLeaves, TellingLeaves
<1>7. CASE UNCHANGED studyVars
  BY <1>7 DEF studyVars
<1> QED BY <1>1, <1>2, <1>3, <1>4, <1>5, <1>6, <1>7, NextByDesk

LEMMA CardInvInit == Init => CardInv
<1> SUFFICES ASSUME Init PROVE CardInv
  OBVIOUS
<1>1. DOMAIN cards \subseteq Cards /\ \A c \in DOMAIN cards : cards[c] \in Schedule
  <2>1. CASE desk = "cards"
    <3>1. PICK c \in Cards : cards \in [{c} -> FirstCards]
      BY <2>1 DEF Init
    <3> QED BY <3>1, RowsAssumption
  <2>2. CASE desk # "cards"
    BY <2>2 DEF Init
  <2> QED BY <2>1, <2>2
<1>2. reviews = <<>> /\ reviews \in Seq(LogRow) /\ Len(reviews) = 0
  BY DEF Init
<1>3. DOMAIN held = Sessions /\ \A s \in Sessions : held[s] = {}
  BY DEF Init
<1>4. today \in Nat
  BY DEF Init
<1> QED BY <1>1, <1>2, <1>3, <1>4 DEF CardInv, CardTypes, LogShows

\* The log and the cards it is about.
LEMMA SameLog ==
  ASSUME CardInv, UNCHANGED reviews,
         \A c \in DOMAIN cards : c \in DOMAIN cards' /\ cards'[c] = cards[c]
  PROVE  /\ LogShows' /\ reviews' \in Seq(LogRow)
         /\ \A i \in 1 .. Len(reviews') : reviews'[i].card \in DOMAIN cards'
  BY DEF CardInv, CardTypes, LogShows, ReviewRow

LEMMA AddKeepsCards ==
  ASSUME CardInv, NEW c \in Cards, AddCards({c})
  PROVE  CardInv'
<1>1. /\ DOMAIN cards' = DOMAIN cards \cup {c}
      /\ \A d \in DOMAIN cards : cards'[d] = cards[d]
      /\ c \notin DOMAIN cards => cards'[c] = NewCard
  BY DEF AddCards, AddedCard
<1>2. UNCHANGED <<desk, today, held, reviews>>
  BY DEF AddCards, clock
<1>3. \A d \in DOMAIN cards' : cards'[d] \in Schedule
  BY <1>1, NewCardIsOne DEF CardInv, CardTypes
<1> QED BY <1>1, <1>2, <1>3, SameLog DEF CardInv, CardTypes

LEMMA LoadKeepsCards ==
  ASSUME CardInv, NEW s \in Sessions, LoadSchedule(s)
  PROVE  CardInv'
<1>1. PICK c \in DOMAIN cards : held' = [held EXCEPT ![s] = {[card |-> c, schedule |-> cards[c]]}]
  BY DEF LoadSchedule, Holds
<1>2. UNCHANGED <<desk, today, cards, reviews>>
  BY DEF LoadSchedule, clock, cardRows
<1>3. /\ DOMAIN held' = Sessions
      /\ \A r \in Sessions : held'[r] = IF r = s THEN {[card |-> c, schedule |-> cards[c]]} ELSE held[r]
  BY <1>1 DEF CardInv, CardTypes
<1>4. desk = "cards" => \A r \in Sessions : \A h \in held'[r] : h.card \in DOMAIN cards /\ h.schedule \in Schedule
  BY <1>3 DEF CardInv, CardTypes
<1> QED BY <1>2, <1>3, <1>4, SameLog DEF CardInv, CardTypes

LEMMA ApplyKeepsCards ==
  ASSUME CardInv, NEW s \in Sessions, NEW g \in Grades, ApplySchedule(s, g)
  PROVE  CardInv'
<1>1. desk = "cards" /\ UNCHANGED <<desk, today>>
  BY DEF ApplySchedule, Writes
<1>2. PICK h \in held[s] :
        LET schedule == ScheduleReview(h.schedule, g, today) IN
        /\ cards' = [cards EXCEPT ![h.card] = schedule]
        /\ reviews' = Append(reviews, ReviewRow(h.card, g, schedule))
  BY DEF ApplySchedule
<1>3. PICK c, schedule, row : /\ c = h.card /\ schedule = ScheduleReview(h.schedule, g, today)
                              /\ row = ReviewRow(c, g, schedule)
  OBVIOUS
<1>4. c \in DOMAIN cards /\ c \in Cards /\ h.schedule \in Schedule /\ today \in Nat
  BY <1>1, <1>3 DEF CardInv, CardTypes
<1>5. schedule \in Schedule
  BY <1>3, <1>4, ScheduleStaysOne
<1>6. cards' = [cards EXCEPT ![c] = schedule] /\ reviews' = Append(reviews, row)
  BY <1>2, <1>3
<1>7. /\ DOMAIN cards' = DOMAIN cards /\ cards'[c] = schedule
      /\ \A d \in DOMAIN cards \ {c} : cards'[d] = cards[d]
  BY <1>4, <1>6
<1>8. row \in LogRow /\ row.card = c /\ row = ReviewRow(row.card, row.grade, cards'[row.card])
  BY <1>3, <1>4, <1>5, <1>7 DEF LogRow, ReviewRow, Schedule, MaxIntervalDays, MinEase, MaxEase, Never
<1>9. reviews \in Seq(LogRow)
  BY DEF CardInv, CardTypes
<1>10. PICK n \in Nat : n = Len(reviews)
  BY <1>9
<1>11. /\ reviews' \in Seq(LogRow) /\ Len(reviews') = n + 1
       /\ reviews'[n + 1] = row /\ \A i \in 1 .. n : reviews'[i] = reviews[i]
  BY <1>6, <1>8, <1>9, <1>10
<1>12. \A i \in 1 .. n + 1 : reviews'[i].card \in DOMAIN cards'
  BY <1>4, <1>7, <1>8, <1>10, <1>11 DEF CardInv, CardTypes
<1>13. LogShows'
  <2> SUFFICES ASSUME NEW i \in 1 .. n + 1, \A j \in 1 .. n + 1 : reviews'[j].card = reviews'[i].card => j <= i
               PROVE  reviews'[i] = ReviewRow(reviews'[i].card, reviews'[i].grade, cards'[reviews'[i].card])
    BY <1>11 DEF LogShows, ReviewRow
  <2>1. CASE i = n + 1
    BY <1>8, <1>11, <2>1
  <2>2. CASE i \in 1 .. n
    <3>1. reviews[i].card # c
      BY <1>8, <1>10, <1>11, <2>2
    <3>2. \A j \in 1 .. n : reviews[j].card = reviews[i].card => j <= i
      BY <1>10, <1>11, <2>2
    <3>3. reviews[i] = ReviewRow(reviews[i].card, reviews[i].grade, cards[reviews[i].card])
      BY <1>10, <2>2, <3>2 DEF CardInv, LogShows
    <3>4. reviews[i].card \in DOMAIN cards
      BY <1>10, <2>2 DEF CardInv, CardTypes
    <3> QED BY <1>7, <1>11, <2>2, <3>1, <3>3, <3>4
  <2> QED BY <1>10, <2>1, <2>2
<1>14. DOMAIN held' = Sessions /\ \A r \in Sessions : held'[r] \subseteq held[r]
  BY DEF ApplySchedule, Drops, CardInv, CardTypes
<1>15. \A r \in Sessions : \A one \in held'[r] : one.card \in DOMAIN cards' /\ one.schedule \in Schedule
  BY <1>1, <1>7, <1>14 DEF CardInv, CardTypes
<1>16. \A d \in DOMAIN cards' : cards'[d] \in Schedule
  BY <1>5, <1>7 DEF CardInv, CardTypes
<1> QED BY <1>1, <1>4, <1>7, <1>11, <1>12, <1>13, <1>14, <1>15, <1>16 DEF CardInv, CardTypes

LEMMA CardInvNext == ASSUME CardInv, [Next]_vars PROVE CardInv'
<1>1. CASE UNCHANGED <<desk, today, held, cards, reviews>>
  BY <1>1 DEF CardInv, CardTypes, LogShows, ReviewRow
<1>2. DOMAIN held' = Sessions
  BY HeldStays DEF CardInv, CardTypes
<1>3. CASE UNCHANGED <<desk, today, cards, reviews>> /\ desk # "cards"
  BY <1>2, <1>3 DEF CardInv, CardTypes, LogShows, ReviewRow
<1>4. CASE NextDay
  <2>1. today \in Nat /\ today' = today + 1 /\ UNCHANGED <<desk, held, cards, reviews>>
    BY <1>4 DEF NextDay, CardInv, CardTypes, cardRows
  <2> QED BY <2>1 DEF CardInv, CardTypes, LogShows, ReviewRow
<1>5. CASE Carding
  BY <1>5, AddKeepsCards, LoadKeepsCards, ApplyKeepsCards DEF Carding
<1>6. CASE Marking \/ Tasking
  BY <1>3, <1>6, MarkingLeaves, TaskingLeaves DEF cardRows
<1>7. CASE Remembering \/ Counting \/ Telling \/ UNCHANGED vars \/ UNCHANGED studyVars
  BY <1>1, <1>7, RememberingLeaves, CountingLeaves, TellingLeaves DEF cardRows, vars, studyVars, clock
<1> QED BY <1>4, <1>5, <1>6, <1>7, NextByDesk

LEMMA CardsStaySafe == Spec => []CardInv
<1> QED BY CardInvInit, CardInvNext, PTL DEF Spec

\* A set of indices has a greatest one: the least of its mirror image.
LEMMA Greatest ==
  ASSUME NEW n \in Nat, NEW T \in SUBSET (1 .. n), T # {}
  PROVE  Max(T) \in T /\ \A i \in T : i <= Max(T)
<1> DEFINE Mirror == {k \in 0 .. n : n - k \in T}
<1>1. ASSUME NEW i \in T PROVE n - i \in Mirror
  OBVIOUS
<1>2. PICK x \in Mirror : \A y \in Mirror : x <= y
  <2>1. Mirror # {}
    BY <1>1
  <2>2. Mirror \in SUBSET Nat
    OBVIOUS
  <2> HIDE DEF Mirror
  <2> QED BY <2>1, <2>2, LeastNumber
<1>3. n - x \in T /\ \A i \in T : n - x >= i
  BY <1>1, <1>2
<1>4. \E m \in T : \A i \in T : m >= i
  BY <1>3
<1>5. Max(T) \in T /\ \A i \in T : Max(T) >= i
  BY <1>4 DEF Max
<1> QED BY <1>5

\* A card that was reviewed shows what the last row of its log says, with
\* sessions that overwrite each other and decks that are regenerated
\* (apply_schedule writes the card and its review together; add_cards leaves a
\* card it knows alone).
THEOREM CardsShowTheirLog == Spec => []CardsFollowTheirLog
<1>1. ASSUME CardInv PROVE CardsFollowTheirLog
  <2> SUFFICES ASSUME NEW c \in DOMAIN cards, NEW last,
                      last = SelectLastInSeq(reviews, LAMBDA r : r.card = c), last # 0
               PROVE  reviews[last] = ReviewRow(c, reviews[last].grade, cards[c])
    BY DEF CardsFollowTheirLog
  <2> DEFINE mine == {i \in 1 .. Len(reviews) : reviews[i].card = c}
  <2>1. Len(reviews) \in Nat
    BY <1>1 DEF CardInv, CardTypes
  <2>2. last = IF mine # {} THEN Max(mine) ELSE 0
    BY DEF SelectLastInSeq
  <2>3. mine # {} /\ last = Max(mine)
    BY <2>2
  <2>4. last \in mine /\ \A i \in mine : i <= last
    BY <2>1, <2>3, Greatest
  <2> QED BY <1>1, <2>4 DEF CardInv, LogShows
<1> QED BY <1>1, CardsStaySafe, PTL
-----------------------------------------------------------------------------
(* Papers: two sessions mark one attempt.                                   *)

\* One row to a question, by code or by the model.
MarkOf(q, responses, reply) ==
  IF NeedsModel(q, responses) THEN GradeByLine(q, reply) ELSE GradeFreely(q, responses)

LEMMA MarkIsANumber == Mark \in Nat
  BY HundredthAssumption DEF Mark

\* A row names its question, is worth what it is worth, and never exceeds it,
\* whatever the model replies.
LEMMA MarksStayWithinTheQuestion ==
  ASSUME NEW q \in Paper, NEW responses, NEW reply \in Replies
  PROVE  LET row == MarkOf(q, responses, reply)
         IN  row.number = q.number /\ row.possible = q.marks /\ row.awarded \in 0 .. Mark * q.marks
<1> DEFINE row == MarkOf(q, responses, reply)
           i     == SelectLastInSeq(reply, LAMBDA line : line.number = q.number)
           mine  == {k \in 1 .. Len(reply) : reply[k].number = q.number}
           given == reply[i].marks
           most  == Mark * q.marks
           kept  == IF given > most THEN most ELSE given
<1>1. q.marks \in Nat /\ most \in Nat /\ 0 \in 0 .. most
  <2>1. Mark \in Nat /\ q.marks \in Nat
    BY PaperAssumption, MarkIsANumber
  <2>2. \A m, n \in Nat : m * n \in Nat
    OBVIOUS
  <2>3. most \in Nat
    BY <2>1, <2>2
  <2> HIDE DEF most
  <2> QED BY <2>1, <2>3
<1>2. CASE NeedsModel(q, responses)
  <2>1. row = IF i = 0 THEN Graded(q, 0, FALSE, "model", TRUE)
              ELSE Graded(q, kept, kept >= most, "model", kept # given)
    BY <1>2 DEF MarkOf, GradeByLine
  <2>2. row.number = q.number /\ row.possible = q.marks /\ row.awarded = IF i = 0 THEN 0 ELSE kept
    <3> HIDE DEF i, given, most, kept, row
    <3> QED BY <2>1 DEF Graded
  <2>3. i # 0 => kept \in 0 .. Mark * q.marks
    <3>1. i = IF mine # {} THEN Max(mine) ELSE 0
      BY DEF SelectLastInSeq
    <3>2. reply \in Seq([number : Nat, marks : Nat]) /\ Len(reply) \in Nat
      BY PaperAssumption
    <3>3. mine # {} => Max(mine) \in mine
      BY <3>2, Greatest
    <3>4. i # 0 => i \in 1 .. Len(reply)
      BY <3>1, <3>3
    <3>5. i # 0 => given \in Nat
      <4>1. \A k \in 1 .. Len(reply) : reply[k] \in [number : Nat, marks : Nat]
        BY <3>2, ElementOfSeq
      <4> HIDE DEF i
      <4> QED BY <3>4, <4>1
    <3>6. i # 0 => kept \in 0 .. most
      <4> HIDE DEF given, most, i
      <4> QED BY <1>1, <3>5
    <3> QED BY <3>6
  <2>4. row.number = q.number /\ row.possible = q.marks /\ row.awarded \in 0 .. Mark * q.marks
    <3> HIDE DEF row, i, kept
    <3> QED BY <1>1, <2>2, <2>3
  <2> QED BY <2>4
<1>3. CASE ~NeedsModel(q, responses)
  <2>1. row = GradeFreely(q, responses)
    BY <1>3 DEF MarkOf
  <2>2. \/ \E correct : row = Marked(q, correct)
        \/ row = Graded(q, 0, FALSE, "deterministic", TRUE)
    BY <2>1 DEF GradeFreely, GradeObjective, GradeChoice, GradeNumeric
  <2>3. row.number = q.number /\ row.possible = q.marks /\ row.awarded \in 0 .. Mark * q.marks
    <3> HIDE DEF row
    <3> QED BY <1>1, <2>2 DEF Marked, Graded
  <2> QED BY <2>3
<1> QED BY <1>2, <1>3

\* What is graded before and after the model is asked is the paper.
LEMMA EveryQuestionIsMarkedOnce ==
  ASSUME NEW responses, NEW reply
  PROVE  \A report \in AssembleReport(PlanGrading(Paper, responses), reply) :
           report.graded = {MarkOf(q, responses, reply) : q \in Paper}
<1> DEFINE plan == PlanGrading(Paper, responses)
<1>1. plan.deterministic \cup ParseRubricResponse(reply, plan.pending) = {MarkOf(q, responses, reply) : q \in Paper}
  BY DEF PlanGrading, ParseRubricResponse, MarkOf
<1>2. \A report \in AssembleReport(plan, reply) :
        report.graded = plan.deterministic \cup ParseRubricResponse(reply, plan.pending)
  BY DEF AssembleReport
<1> HIDE DEF plan
<1> QED BY <1>1, <1>2 DEF plan

\* A nearest hundredth is half a hundredth away at most, and rounding does not
\* lift a number over a whole number of marks.
LEMMA RoundingStaysClose ==
  ASSUME NEW n \in Nat, NEW total \in ToHundredths(n)
  PROVE  /\ total \in Int /\ 2 * Absolute(total - n) <= Hundredth
         /\ \A most \in Nat : n <= Mark * most => total <= Mark * most
<1> DEFINE q == n \div Hundredth
<1>1. Hundredth \in Nat /\ Hundredth > 0 /\ q \in Nat
  BY HundredthAssumption
<1>2. total \in {Hundredth * q, Hundredth * q + Hundredth} /\ 2 * Absolute(total - n) <= Hundredth
  BY DEF ToHundredths
<1> HIDE DEF q
<1>3. PICK t \in Nat : total = Hundredth * t
  <2>1. Hundredth * q + Hundredth = Hundredth * (q + 1) /\ q + 1 \in Nat
    BY <1>1
  <2> QED BY <1>1, <1>2, <2>1
<1>4. total \in Int
  <2>1. \A m, k \in Nat : m * k \in Int
    OBVIOUS
  <2> QED BY <1>1, <1>3, <2>1
<1>5. ASSUME NEW most \in Nat, n <= Mark * most, total > Mark * most
      PROVE  FALSE
  <2>1. PICK w \in Nat : w = 100 * most
    OBVIOUS
  <2>2. Mark * most = Hundredth * w
    BY <1>1, <2>1 DEF Mark
  <2>3. t >= w + 1
    <3>1. ASSUME t <= w PROVE FALSE
      <4>1. Hundredth * t <= Hundredth * w
        BY <1>1, <3>1
      <4>2. total <= Mark * most /\ Mark * most \in Int
        <5>1. PICK a \in Nat : a = Hundredth * w
          <6>1. \A m, k \in Nat : m * k \in Nat
            OBVIOUS
          <6> QED BY <1>1, <6>1
        <5> QED BY <1>3, <2>2, <4>1, <5>1
      <4> QED BY <1>4, <1>5, <4>2
    <3> QED BY <1>3, <2>1, <3>1
  <2>4. Hundredth * (w + 1) <= Hundredth * t
    BY <1>1, <2>3
  <2>5. Hundredth * (w + 1) = Hundredth * w + Hundredth
    BY <1>1
  <2>6. PICK a \in Nat : a = Hundredth * w
    <3>1. \A m, k \in Nat : m * k \in Nat
      OBVIOUS
    <3> QED BY <1>1, <3>1
  <2>7. total >= a + Hundredth /\ n <= a
    BY <1>3, <1>5, <2>2, <2>4, <2>5, <2>6
  <2>8. total - n >= Hundredth
    BY <1>1, <1>4, <2>6, <2>7
  <2> QED BY <1>1, <1>2, <1>4, <2>8 DEF Absolute
<1> QED BY <1>2, <1>4, <1>5, MarkIsANumber

\* A report adds up, over any paper.
AddsUpTo(report) ==
  /\ {g.number : g \in report.graded} = {q.number : q \in Paper}
  /\ Cardinality(report.graded) = Cardinality(Paper)
  /\ 2 * Absolute(report.awarded - Total(report.graded, "awarded")) <= Hundredth
  /\ report.possible = Total(Paper, "marks")
  /\ report.awarded <= Mark * report.possible
  /\ report.calls <= 1

LEMMA ReportsAddUp ==
  ASSUME NEW responses, NEW reply \in Replies,
         NEW report \in AssembleReport(PlanGrading(Paper, responses), reply)
  PROVE  AddsUpTo(report)
<1> DEFINE plan   == PlanGrading(Paper, responses)
           row    == [q \in Paper |-> MarkOf(q, responses, reply)]
           rows   == {row[q] : q \in Paper}
           field(f) == [g \in rows |-> g[f]]
           marks    == [q \in Paper |-> q.marks]
           awarded  == [q \in Paper |-> row[q].awarded]
           worth    == [q \in Paper |-> Mark * q.marks]
<1>1. report.graded = rows
  BY EveryQuestionIsMarkedOnce
<1>2. /\ report.awarded \in ToHundredths(Total(rows, "awarded")) /\ report.possible = Total(rows, "possible")
      /\ report.calls = ModelCallsRequired(plan)
  <2>1. /\ report.awarded \in ToHundredths(Total(report.graded, "awarded"))
        /\ report.possible = Total(report.graded, "possible")
        /\ report.calls = ModelCallsRequired(plan)
    BY DEF AssembleReport
  <2> QED BY <1>1, <2>1
<1>3. \A q \in Paper : row[q].number = q.number /\ row[q].possible = q.marks /\ row[q].awarded \in 0 .. Mark * q.marks
  BY MarksStayWithinTheQuestion
<1>4. IsFiniteSet(Paper) /\ \A q \in Paper : q.marks \in Nat
  BY PaperAssumption
<1>5. \A p, q \in Paper : row[p] = row[q] => p = q
  BY <1>3, PaperAssumption
<1> HIDE DEF row
<1>6. Total(rows, "possible") = Total(Paper, "marks")
  <2>1. Total(rows, "possible") = SumFunctionOnSet(field("possible"), rows)
    BY DEF Total, SumFunction
  <2>2. Total(Paper, "marks") = SumFunctionOnSet(marks, Paper)
    BY DEF Total, SumFunction
  <2>3. \A q \in Paper : field("possible")[row[q]] = marks[q] /\ marks[q] \in Nat
    BY <1>3, <1>4
  <2> HIDE DEF field, marks
  <2> QED BY <1>4, <1>5, <2>1, <2>2, <2>3, SumOfImage
<1>7. Total(rows, "awarded") = SumFunctionOnSet(awarded, Paper)
  <2>1. Total(rows, "awarded") = SumFunctionOnSet(field("awarded"), rows)
    BY DEF Total, SumFunction
  <2>2. \A q \in Paper : field("awarded")[row[q]] = awarded[q] /\ awarded[q] \in Nat
    BY <1>3
  <2> HIDE DEF field, awarded
  <2> QED BY <1>4, <1>5, <2>1, <2>2, SumOfImage
<1>8. /\ SumFunctionOnSet(awarded, Paper) <= Mark * Total(Paper, "marks")
      /\ SumFunctionOnSet(awarded, Paper) \in Nat /\ Total(Paper, "marks") \in Nat
  <2>1. Total(Paper, "marks") = SumFunctionOnSet(marks, Paper)
    BY DEF Total, SumFunction
  <2>2. \A m, n \in Nat : m * n \in Nat
    OBVIOUS
  <2>3. \A q \in Paper : marks[q] \in Nat /\ worth[q] = Mark * marks[q] /\ worth[q] \in Nat
    BY <1>4, <2>2, MarkIsANumber
  <2>4. \A q \in Paper : awarded[q] \in 0 .. worth[q]
    BY <1>3
  <2> HIDE DEF awarded, marks, worth
  <2>5. \A q \in Paper : awarded[q] \in Nat /\ worth[q] \in Nat /\ awarded[q] <= worth[q]
    BY <2>3, <2>4
  <2>6. SumFunctionOnSet(awarded, Paper) <= SumFunctionOnSet(worth, Paper)
    BY <1>4, <2>5, SumIsMonotone
  <2>7. SumFunctionOnSet(worth, Paper) = Mark * SumFunctionOnSet(marks, Paper)
    BY <1>4, <2>3, MarkIsANumber, SumScales
  <2>8. SumFunctionOnSet(awarded, Paper) \in Nat /\ SumFunctionOnSet(marks, Paper) \in Nat
    BY <1>4, <2>3, <2>5, SumIsNat
  <2> QED BY <2>1, <2>6, <2>7, <2>8
<1>9. Cardinality(rows) = Cardinality(Paper)
  <2>1. [q \in Paper |-> row[q]] \in Bijection(Paper, rows)
    BY <1>5 DEF Bijection, Injection, Surjection, IsInjective
  <2> HIDE DEF rows
  <2> QED BY <1>4, <2>1, FS_Bijection DEF ExistsBijection
<1>10. {g.number : g \in rows} = {q.number : q \in Paper}
  BY <1>3
<1>11. ModelCallsRequired(plan) <= 1
  BY DEF ModelCallsRequired
<1>12. /\ 2 * Absolute(report.awarded - Total(rows, "awarded")) <= Hundredth
       /\ report.awarded <= Mark * Total(Paper, "marks")
  <2>1. PICK total : total = report.awarded
    OBVIOUS
  <2> HIDE DEF rows, plan, awarded
  <2>2. total \in ToHundredths(Total(rows, "awarded")) /\ Total(rows, "awarded") \in Nat
    BY <1>2, <1>7, <1>8, <2>1
  <2>3. Total(rows, "awarded") <= Mark * Total(Paper, "marks")
    BY <1>7, <1>8
  <2> QED BY <1>8, <2>1, <2>2, <2>3, RoundingStaysClose
<1> HIDE DEF rows, plan
<1> QED BY <1>1, <1>2, <1>6, <1>9, <1>10, <1>11, <1>12 DEF AddsUpTo

\* A session holds nothing but a plan of the paper, and an answer that is
\* recorded is to one of its questions: a second marking then meets one of them.
PaperInv ==
  /\ DOMAIN held = Sessions
  /\ desk = "papers" => \A s \in Sessions : \A plan \in held[s] : \E responses \in Submissions :
                          plan = PlanGrading(Paper, responses)
  /\ \A a \in answers : \E q \in Paper : q.number = a.number
  /\ MarksAddUp

LEMMA PaperInvInit == Init => PaperInv
  BY DEF Init, PaperInv, MarksAddUp, NoAttempt

LEMMA PaperRowsStay ==
  ASSUME PaperInv, UNCHANGED paperRows
  PROVE  MarksAddUp' /\ \A a \in answers' : \E q \in Paper : q.number = a.number
  BY DEF PaperInv, MarksAddUp, paperRows

LEMMA StartKeepsPaper == ASSUME PaperInv, StartAttempt PROVE PaperInv'
<1>1. attempt'.state = "ASSIGNED"
  BY DEF StartAttempt, NoAttempt
<1>2. UNCHANGED <<desk, held, answers>>
  BY DEF StartAttempt, clock
<1> QED BY <1>1, <1>2 DEF PaperInv, MarksAddUp

LEMMA LoadKeepsPaper ==
  ASSUME PaperInv, NEW s \in Sessions, NEW responses \in Submissions, LoadAnswerKey(s, responses)
  PROVE  PaperInv'
<1>1. held' = [held EXCEPT ![s] = {PlanGrading(Paper, responses)}] /\ UNCHANGED <<desk, paperRows>>
  BY DEF LoadAnswerKey, Holds, clock
<1>2. MarksAddUp' /\ \A a \in answers' : \E q \in Paper : q.number = a.number
  BY <1>1, PaperRowsStay
<1>3. DOMAIN held' = Sessions
  BY <1>1 DEF PaperInv
<1>4. ASSUME desk' = "papers", NEW u \in Sessions, NEW plan \in held'[u]
      PROVE  \E r \in Submissions : plan = PlanGrading(Paper, r)
  BY <1>1, <1>4 DEF PaperInv
<1> QED BY <1>2, <1>3, <1>4 DEF PaperInv

LEMMA RecordKeepsPaper ==
  ASSUME PaperInv, NEW s \in Sessions, NEW reply \in Replies, RecordGrades(s, reply)
  PROVE  PaperInv'
<1>1. held' = [held EXCEPT ![s] = {}] /\ UNCHANGED desk /\ desk = "papers"
  BY DEF RecordGrades, Drops, Writes
<1>2. /\ DOMAIN held' = Sessions
      /\ \A u \in Sessions : \A plan \in held'[u] : \E responses \in Submissions : plan = PlanGrading(Paper, responses)
  BY <1>1 DEF PaperInv
<1>3. MarksAddUp' /\ \A a \in answers' : \E q \in Paper : q.number = a.number
  <2>1. PICK plan \in held[s] : \E report \in AssembleReport(plan, reply) :
          IF Unmarked(report.graded)
          THEN /\ answers' = answers \cup report.graded
               /\ attempt' = [state |-> "GRADED", awarded |-> report.awarded, possible |-> report.possible,
                              review |-> report.review, calls |-> report.calls]
          ELSE UNCHANGED paperRows
    BY DEF RecordGrades
  <2>2. PICK responses \in Submissions : plan = PlanGrading(Paper, responses)
    BY <1>1 DEF PaperInv
  <2>6. PICK report \in AssembleReport(plan, reply) :
          IF Unmarked(report.graded)
          THEN /\ answers' = answers \cup report.graded
               /\ attempt' = [state |-> "GRADED", awarded |-> report.awarded, possible |-> report.possible,
                              review |-> report.review, calls |-> report.calls]
          ELSE UNCHANGED paperRows
    BY <2>1
  <2>3. AddsUpTo(report)
    BY <2>2, ReportsAddUp
  <2>4. CASE ~Unmarked(report.graded)
    BY <2>4, <2>6, PaperRowsStay
  <2>5. CASE Unmarked(report.graded)
    <3>1. answers = {}
      <4> SUFFICES ASSUME NEW a \in answers PROVE FALSE
        OBVIOUS
      <4>1. PICK q \in Paper : q.number = a.number
        BY DEF PaperInv
      <4>2. PICK g \in report.graded : g.number = q.number
        BY <2>3 DEF AddsUpTo
      <4> QED BY <2>5, <4>1, <4>2 DEF Unmarked
    <3>2. /\ answers' = report.graded
          /\ attempt' = [state |-> "GRADED", awarded |-> report.awarded, possible |-> report.possible,
                         review |-> report.review, calls |-> report.calls]
      BY <2>5, <2>6, <3>1
    <3>3. /\ attempt'.awarded = report.awarded /\ attempt'.possible = report.possible
          /\ attempt'.calls = report.calls
      BY <3>2
    <3>4. MarksAddUp'
      BY <2>3, <3>2, <3>3 DEF AddsUpTo, MarksAddUp
    <3> QED BY <2>3, <3>2, <3>4 DEF AddsUpTo
  <2> QED BY <2>4, <2>5
<1> QED BY <1>1, <1>2, <1>3 DEF PaperInv

LEMMA PaperInvNext == ASSUME PaperInv, [Next]_vars PROVE PaperInv'
<1>1. DOMAIN held' = Sessions
  BY HeldStays DEF PaperInv
<1>2. CASE UNCHANGED <<desk, paperRows>> /\ (desk # "papers" \/ held' = held)
  BY <1>1, <1>2, PaperRowsStay DEF PaperInv
<1>3. CASE Marking
  BY <1>3, StartKeepsPaper, LoadKeepsPaper, RecordKeepsPaper DEF Marking
<1>4. CASE NextDay
  BY <1>2, <1>4 DEF NextDay
<1>5. CASE Carding \/ Tasking
  BY <1>2, <1>5, CardingLeaves, TaskingLeaves
<1>6. CASE Remembering \/ Counting \/ Telling
  BY <1>2, <1>6, RememberingLeaves, CountingLeaves, TellingLeaves DEF clock
<1>7. CASE UNCHANGED vars \/ UNCHANGED studyVars
  BY <1>2, <1>7 DEF vars, studyVars, clock
<1> QED BY <1>3, <1>4, <1>5, <1>6, <1>7, NextByDesk

\* A marked attempt is the sum of its marked responses, one to a question of
\* any paper, to within half a hundredth, and no more than the paper is worth,
\* whatever was handed in, whatever decimals of any precision the model replies
\* and however many sessions mark it (record_grades on
\* uq_response_attempt_question; parse_rubric_response cuts a mark and
\* assemble_report rounds the total).
THEOREM MarksAlwaysAddUp == Spec => []MarksAddUp
<1>1. PaperInv => MarksAddUp
  BY DEF PaperInv
<1> QED BY <1>1, PaperInvInit, PaperInvNext, PTL DEF Spec
-----------------------------------------------------------------------------
(* The clock, homework, memories and counters.                              *)

ClockOK == today \in 0 .. Days /\ desk \in Desks /\ steps \in 0 .. MaxSteps[desk]

LEMMA ClockInit == Init => ClockOK
<1> SUFFICES ASSUME Init PROVE ClockOK
  OBVIOUS
<1>1. desk \in Desks /\ today = 0 /\ steps = 0
  BY DEF Init
<1>2. Days \in Nat /\ MaxSteps[desk] \in Nat
  BY <1>1, StudyAssumption
<1> QED BY <1>1, <1>2 DEF ClockOK

LEMMA ClockNext == ASSUME ClockOK, [Next]_vars PROVE ClockOK'
<1>1. MaxSteps[desk] \in Nat /\ Days \in Nat
  BY StudyAssumption DEF ClockOK
<1>2. CASE UNCHANGED <<desk, today>> /\ (steps' = steps \/ (steps < MaxSteps[desk] /\ steps' = steps + 1))
  BY <1>1, <1>2 DEF ClockOK
<1>3. CASE NextDay
  BY <1>1, <1>3 DEF NextDay, ClockOK
<1>4. CASE Carding \/ Marking \/ Tasking \/ Remembering \/ Counting
  BY <1>2, <1>4, CardingLeaves, MarkingLeaves, TaskingLeaves, RememberingLeaves, CountingLeaves
<1>5. CASE Telling
  BY <1>2, <1>5, TellingLeaves DEF clock
<1>6. CASE UNCHANGED vars \/ UNCHANGED studyVars
  BY <1>2, <1>6 DEF vars, studyVars, clock
<1> QED BY <1>3, <1>4, <1>5, <1>6, NextByDesk

TaskRow  == [id : Sessions, work : Work]
HeldTask == [pc : {"loaded", "read"}, read : SUBSET TaskRow, work : Work]

TaskInv ==
  /\ DOMAIN held = Sessions
  /\ tasks \subseteq TaskRow
  /\ desk = "homework" => \A s \in Sessions : held[s] \subseteq HeldTask

LEMMA TheStages ==
  /\ \A i \in DOMAIN Stages : Stages[i] \in ToSet(Stages)
  /\ {"POSED", "HINTED", "SOLVED", "CHECKED"} \subseteq ToSet(Stages)
<1>1. \A i \in DOMAIN Stages : Stages[i] \in ToSet(Stages)
  BY DEF ToSet
<1>2. /\ 1 \in DOMAIN Stages /\ 2 \in DOMAIN Stages /\ 3 \in DOMAIN Stages /\ 4 \in DOMAIN Stages
      /\ Stages[1] = "POSED" /\ Stages[2] = "HINTED" /\ Stages[3] = "SOLVED" /\ Stages[4] = "CHECKED"
  BY DEF Stages
<1>3. {"POSED", "HINTED", "SOLVED", "CHECKED"} \subseteq ToSet(Stages)
  BY <1>1, <1>2
<1> QED BY <1>1, <1>3

LEMMA ActionsKeepWork ==
  ASSUME NEW work \in Work, NEW action \in HomeworkActions
  PROVE  ApplyAction(work, action) \in Work
<1>1. Advanced(work.stage, action) \in ToSet(Stages)
  <2>1. action \in DOMAIN StageOf => StageOf[action] \in ToSet(Stages)
    BY TheStages DEF StageOf
  <2> QED BY <2>1 DEF Advanced, Work
<1>2. work.hints + (IF action = "HINT" THEN 1 ELSE 0) \in Nat
  BY DEF Work
<1>3. ApplyAction(work, action).solved \in BOOLEAN
  BY DEF ApplyAction
<1> QED BY <1>1, <1>2, <1>3 DEF ApplyAction, Work

LEMMA FreshTaskIsWork == FreshTask \in Work
  BY TheStages DEF FreshTask, Work

LEMMA MergedIsWork ==
  ASSUME NEW work \in Work, NEW read, NEW now \in Work
  PROVE  Merged(work, read, now) \in Work
<1> DEFINE field(f) == IF work[f] = read[f] THEN now[f] ELSE work[f]
<1>1. DOMAIN work = {"stage", "hints", "solved"}
  BY DEF Work
<1>2. field("stage") \in ToSet(Stages) /\ field("hints") \in Nat /\ field("solved") \in BOOLEAN
  BY DEF Work
<1>3. Merged(work, read, now) = [f \in {"stage", "hints", "solved"} |-> field(f)]
  BY <1>1 DEF Merged
<1> HIDE DEF field
<1>4. Merged(work, read, now) = [stage |-> field("stage"), hints |-> field("hints"), solved |-> field("solved")]
  BY <1>3
<1> QED BY <1>2, <1>4 DEF Work
LEMMA TaskInvInit == Init => TaskInv
  BY DEF Init, TaskInv

LEMMA LoadTaskKeeps ==
  ASSUME TaskInv, NEW s \in Sessions, LoadTask(s)
  PROVE  TaskInv'
<1>1. PICK action \in HomeworkActions :
        Holds(s, [pc |-> "loaded", read |-> {},
                  work |-> ApplyAction(IF tasks = {} THEN FreshTask ELSE (CHOOSE t \in tasks : TRUE).work, action)])
  BY DEF LoadTask
<1>2. PICK before, work : /\ before = IF tasks = {} THEN FreshTask ELSE (CHOOSE t \in tasks : TRUE).work
                          /\ work = ApplyAction(before, action)
  OBVIOUS
<1>3. before \in Work
  <2>1. tasks # {} => (CHOOSE t \in tasks : TRUE) \in tasks
    OBVIOUS
  <2> QED BY <1>2, <2>1, FreshTaskIsWork DEF TaskInv, TaskRow
<1>4. [pc |-> "loaded", read |-> {}, work |-> work] \in HeldTask
  BY <1>2, <1>3, ActionsKeepWork DEF HeldTask
<1>5. held' = [held EXCEPT ![s] = {[pc |-> "loaded", read |-> {}, work |-> work]}]
  BY <1>1, <1>2 DEF Holds
<1>6. UNCHANGED <<desk, tasks>> /\ desk = "homework"
  BY DEF LoadTask, clock
<1> QED BY <1>4, <1>5, <1>6 DEF TaskInv

LEMMA SaveTaskReadsKeeps ==
  ASSUME TaskInv, NEW s \in Sessions, SaveTaskReads(s)
  PROVE  TaskInv'
<1>1. PICK h \in held[s] : IF Reads(tasks) THEN Holds(s, [h EXCEPT !.pc = "read", !.read = tasks]) ELSE Drops(s)
  BY DEF SaveTaskReads
<1>2. UNCHANGED <<desk, tasks>> /\ desk = "homework"
  BY DEF SaveTaskReads, clock
<1>3. h \in HeldTask
  BY <1>2 DEF TaskInv
<1>4. [h EXCEPT !.pc = "read", !.read = tasks] \in HeldTask
  BY <1>3 DEF HeldTask, TaskInv
<1>5. PICK next \in HeldTask : next = [h EXCEPT !.pc = "read", !.read = tasks]
  BY <1>4
<1>6. held' = [held EXCEPT ![s] = {next}] \/ held' = [held EXCEPT ![s] = {}]
  BY <1>1, <1>5 DEF Holds, Drops
<1> QED BY <1>2, <1>6 DEF TaskInv

LEMMA SaveTaskWritesKeeps ==
  ASSUME TaskInv, NEW s \in Sessions, SaveTaskWrites(s)
  PROVE  TaskInv'
<1> DEFINE saved(h, t, r) == IF t.id = r.id THEN [t EXCEPT !.work = Merged(h.work, r.work, t.work)] ELSE t
<1>1. PICK h \in held[s] : tasks' = TasksAfter(s, h)
  BY DEF SaveTaskWrites
<1>2. UNCHANGED desk /\ desk = "homework" /\ Drops(s)
  BY DEF SaveTaskWrites, Writes
<1>3. h \in HeldTask
  BY <1>2 DEF TaskInv
<1>4. tasks' \subseteq TaskRow
  <2>1. CASE h.read = {}
    BY <1>1, <1>3, <2>1 DEF HeldTask, TaskRow, TaskInv, TasksAfter
  <2>2. CASE h.read # {}
    <3>1. ASSUME NEW t \in tasks, NEW r \in h.read
          PROVE  saved(h, t, r) \in TaskRow
      <4>1. t \in TaskRow /\ h.work \in Work /\ t.work \in Work
        BY <1>3 DEF TaskInv, HeldTask, TaskRow
      <4>2. PICK work \in Work : work = Merged(h.work, r.work, t.work)
        BY <4>1, MergedIsWork
      <4>3. [t EXCEPT !.work = work] \in TaskRow
        BY <4>1 DEF TaskRow
      <4> QED BY <4>1, <4>2, <4>3
    <3>2. tasks' = {saved(h, t, r) : t \in tasks, r \in h.read}
      BY <1>1, <2>2 DEF TasksAfter
    <3> HIDE DEF saved
    <3> QED BY <3>1, <3>2
  <2> QED BY <2>1, <2>2
<1> QED BY <1>2, <1>4 DEF TaskInv, Drops

LEMMA TaskInvNext == ASSUME TaskInv, [Next]_vars PROVE TaskInv'
<1>1. CASE UNCHANGED <<desk, held, tasks>>
  BY <1>1 DEF TaskInv
<1>2. DOMAIN held' = Sessions
  BY HeldStays DEF TaskInv
<1>3. CASE Carding \/ Marking
  <2>1. UNCHANGED <<desk, tasks>> /\ desk # "homework"
    BY <1>3, CardingLeaves, MarkingLeaves
  <2> QED BY <1>2, <2>1 DEF TaskInv
<1>4. CASE Tasking
  BY <1>4, LoadTaskKeeps, SaveTaskReadsKeeps, SaveTaskWritesKeeps DEF Tasking
<1>5. CASE Remembering \/ Counting \/ Telling \/ NextDay \/ UNCHANGED vars \/ UNCHANGED studyVars
  BY <1>1, <1>5, RememberingLeaves, CountingLeaves, TellingLeaves DEF NextDay, vars, studyVars, clock
<1> QED BY <1>3, <1>4, <1>5, NextByDesk

MemoryInv ==
  /\ \A st \in DOMAIN memory :
       /\ DOMAIN memory[st] = {"count", "expires", "confidence", "superseded"}
       /\ memory[st].count \in Nat \ {0} /\ memory[st].confidence \in Confidences
  /\ stats \in [Topics -> {row \in [attempts : Nat, correct : Nat] : row.correct <= row.attempts}]

LEMMA MemoryInvInit == Init => MemoryInv
  BY DEF Init, MemoryInv
\* What may be suggested: a candidate of the turn, or an earned misconception.
LEMMA SuggestionsAreTyped ==
  ASSUME NEW suggested \in Suggested, NEW c \in suggested
  PROVE  c.confidence \in Confidences
<1>1. CASE suggested \in {{d} : d \in Candidates}
  BY <1>1, RowsAssumption
<1>2. CASE suggested \in {MisconceptionCandidate("misconception", n) : n \in 1 .. 3}
  <2>1. PICK n \in 1 .. 3 : suggested = MisconceptionCandidate("misconception", n)
    BY <1>2
  <2> QED BY <2>1 DEF MisconceptionCandidate, Confidences
<1> QED BY <1>1, <1>2 DEF Suggested

LEMMA StoreKeepsMemory ==
  ASSUME MemoryInv, NEW suggested \in Suggested, StoreCandidates(suggested)
  PROVE  MemoryInv'
<1>1. PICK c \in suggested :
        memory' = IF c.personal THEN memory
                  ELSE [st \in DOMAIN memory \cup {c.statement} |-> IF st = c.statement THEN Remembered(c) ELSE memory[st]]
  BY Zenon DEF StoreCandidates
<1>2. c.confidence \in Confidences
  BY SuggestionsAreTyped
<1>3. PICK row : row = Remembered(c)
  OBVIOUS
<1>4. /\ DOMAIN row = {"count", "expires", "confidence", "superseded"}
      /\ row.count \in Nat \ {0} /\ row.confidence \in Confidences
  <2>1. "HIGH" \in Confidences
    BY DEF Confidences
  <2>2. CASE c.statement \in DOMAIN memory
    <3>1. PICK old, expires : /\ old = memory[c.statement]
                              /\ row = [old EXCEPT !.count = @ + 1, !.expires = expires,
                                          !.confidence = IF c.confidence = "HIGH" THEN "HIGH" ELSE @]
      BY <1>3, <2>2 DEF Remembered
    <3>2. /\ DOMAIN old = {"count", "expires", "confidence", "superseded"}
          /\ old.count \in Nat \ {0} /\ old.confidence \in Confidences
      BY <2>2, <3>1 DEF MemoryInv
    <3>3. DOMAIN row = DOMAIN old /\ row.count = old.count + 1 /\ row.confidence \in {"HIGH", old.confidence}
      BY <3>1, <3>2
    <3> QED BY <2>1, <3>2, <3>3
  <2>3. CASE c.statement \notin DOMAIN memory
    BY <1>2, <1>3, <2>3 DEF Remembered
  <2> QED BY <2>2, <2>3
<1>5. UNCHANGED stats
  BY DEF StoreCandidates
<1> QED BY <1>1, <1>3, <1>4, <1>5 DEF MemoryInv

LEMMA SupersedeKeepsMemory ==
  ASSUME MemoryInv, NEW st \in DOMAIN memory, Supersede(st)
  PROVE  MemoryInv'
<1>1. memory' = [memory EXCEPT ![st] = [memory[st] EXCEPT !.superseded = TRUE]] /\ UNCHANGED stats
  BY DEF Supersede
<1>2. PICK row : row = [memory[st] EXCEPT !.superseded = TRUE]
  OBVIOUS
<1>3. DOMAIN row = DOMAIN memory[st] /\ row.count = memory[st].count /\ row.confidence = memory[st].confidence
  BY <1>2
<1> QED BY <1>1, <1>2, <1>3 DEF MemoryInv

LEMMA RecordKeepsCounters ==
  ASSUME MemoryInv, NEW t \in Topics, NEW correct \in BOOLEAN, RecordAttempt(t, correct)
  PROVE  MemoryInv'
<1> DEFINE Row == {row \in [attempts : Nat, correct : Nat] : row.correct <= row.attempts}
<1>1. stats \in [Topics -> Row] /\ stats[t] \in Row
  BY DEF MemoryInv
<1>2. PICK more : more = IF correct THEN 1 ELSE 0
  OBVIOUS
<1>3. PICK row : row = [attempts |-> stats[t].attempts + 1, correct |-> stats[t].correct + more]
  OBVIOUS
<1>4. row \in Row
  BY <1>1, <1>2, <1>3
<1>5. stats' = [stats EXCEPT ![t] = row] /\ UNCHANGED memory
  BY <1>2, <1>3 DEF RecordAttempt
<1> HIDE DEF Row
<1>6. stats' \in [Topics -> Row]
  BY <1>1, <1>4, <1>5
<1> QED BY <1>5, <1>6 DEF MemoryInv, Row

LEMMA MemoryInvNext == ASSUME MemoryInv, [Next]_vars PROVE MemoryInv'
<1>1. CASE UNCHANGED memoryRows
  BY <1>1 DEF MemoryInv, memoryRows
<1>2. CASE Remembering \/ Counting
  BY <1>2, StoreKeepsMemory, SupersedeKeepsMemory, RecordKeepsCounters DEF Remembering, Counting
<1>3. CASE Carding \/ Marking \/ Tasking \/ Telling \/ NextDay \/ UNCHANGED vars \/ UNCHANGED studyVars
  BY <1>1, <1>3, CardingLeaves, MarkingLeaves, TaskingLeaves, TellingLeaves DEF NextDay, vars, studyVars
<1> QED BY <1>2, <1>3, NextByDesk

\* Every row stays inside what its columns and their CHECKs allow, above all
\* the ease of a card, which makes every later read of the card raise when it
\* leaves 1.3 .. 3.0 (CardSchedule, schedule_review); a stage of homework is one
\* of the five, and a topic has no more right answers than attempts.
THEOREM StudyTypes == Spec => []TypeOK
<1> DEFINE Inv == ClockOK /\ CardInv /\ TaskInv /\ MemoryInv
<1>1. Init => Inv
  BY ClockInit, CardInvInit, TaskInvInit, MemoryInvInit
<1>2. Inv /\ [Next]_vars => Inv'
  BY ClockNext, CardInvNext, TaskInvNext, MemoryInvNext
<1>3. Inv => TypeOK
  BY DEF ClockOK, CardInv, CardTypes, TaskInv, TaskRow, MemoryInv, TypeOK
<1> QED BY <1>1, <1>2, <1>3, PTL DEF Spec
-----------------------------------------------------------------------------
(* The knowledge base.                                                      *)

SourceShape == {"document", "visibility", "subject", "tutor", "model", "deleted", "status", "chunks"}

\* Every passage of its document is a chunk of the source, under its owners.
IsWhole(source) ==
  /\ DOMAIN source = SourceShape /\ source.deleted \in Nat
  /\ \A c \in ToSet(Passages[source.document]) :
       \E chunk \in source.chunks :
         /\ chunk.passage = c.passage /\ chunk.model = source.model /\ chunk.visibility = source.visibility
         /\ chunk.subject = source.subject /\ chunk.tutor = source.tutor

\* What a session is about to commit is what its request asked for.
JobShape == {"pc", "request", "fresh", "chunks"}

IsIngestion(job) == job.pc \in {"embed", "commit"}

JobIsWhole(job) ==
  IsIngestion(job) =>
    /\ DOMAIN job = JobShape
    /\ job.request \in Requests /\ RequireOwner(job.request)
    /\ job.chunks = Passages[job.request.document]

\* What was promised is of a source that is not reused, and is the source's.
PromiseKept ==
  told.kind = "ingested" =>
    LET promise == told.about IN
    /\ promise.request \in Requests /\ RequireOwner(promise.request)
    /\ promise.source \in 1 .. commits /\ promise.at \in Nat /\ promise.at <= commits
    /\ promise.source \in DOMAIN library =>
         LET source == library[promise.source] IN
         /\ source.document = promise.request.document /\ source.visibility = promise.request.visibility
         /\ source.subject = promise.request.subject /\ source.tutor = promise.request.tutor
         /\ source.model = promise.model
         /\ source.deleted = Live \/ source.deleted > promise.at

LibraryInv ==
  /\ commits \in Nat /\ DOMAIN library \subseteq 1 .. commits
  /\ \A i \in DOMAIN library : IsWhole(library[i])
  /\ DOMAIN reading = Readers
  /\ \A s \in Readers : \A job \in reading[s] : JobIsWhole(job)
  /\ PromiseKept

LEMMA LibraryInvInit == Init => LibraryInv
  BY DEF Init, InitLibrary, LibraryInv, PromiseKept, Silent, Replied

\* A promise is kept while nothing is committed.
LEMMA QuietSteps ==
  ASSUME LibraryInv, UNCHANGED <<library, commits>>,
         DOMAIN reading' = Readers, \A s \in Readers : \A job \in reading'[s] : JobIsWhole(job),
         told' = told \/ told'.kind # "ingested"
  PROVE  LibraryInv'
  BY DEF LibraryInv, IsWhole, PromiseKept, Passages, JobIsWhole, IsIngestion, RequireOwner

LEMMA ReadingKeepsLibrary ==
  ASSUME LibraryInv, NEW s \in Readers, NEW r \in Requests, IngestReads(s, r)
  PROVE  LibraryInv'
<1>1. UNCHANGED <<library, embedder, commits>>
  BY DEF IngestReads
<1>2. CASE told' = Replied("error", {}) /\ UNCHANGED reading
  BY <1>1, <1>2, QuietSteps DEF Replied, LibraryInv
<1>3. CASE /\ RequireOwner(r) /\ Cardinality(Existing(r)) = 1
           /\ told' = Ingested(r, CHOOSE i \in Existing(r) : TRUE, 0, TRUE) /\ UNCHANGED reading
  <2>1. PICK i : i = CHOOSE j \in Existing(r) : TRUE
    OBVIOUS
  <2>2. told' = Ingested(r, i, 0, TRUE) /\ UNCHANGED reading
    BY <1>3, <2>1
  <2>3. i \in Existing(r)
    <3>1. Existing(r) # {}
      BY <1>3, FS_EmptySet
    <3> QED BY <2>1, <3>1
  <2>4. i \in DOMAIN library /\ SameContent(library[i], r)
    BY <2>3 DEF Existing
  <2>5. /\ told'.kind = "ingested" /\ told'.about.request = r /\ told'.about.source = i
        /\ told'.about.at = commits /\ told'.about.model = embedder
    BY <2>2 DEF Ingested, Replied
  <2>6. PromiseKept'
    <3>1. i \in 1 .. commits /\ commits \in Nat
      BY <2>4 DEF LibraryInv
    <3>2. r.visibility \in DOMAIN Owner => r[Owner[r.visibility]] # NoOne
      BY <1>3 DEF RequireOwner
    <3> QED BY <1>1, <2>4, <2>5, <3>1, <3>2 DEF PromiseKept, SameContent, RequireOwner
  <2>7. /\ commits' \in Nat /\ DOMAIN library' \subseteq 1 .. commits'
        /\ \A j \in DOMAIN library' : IsWhole(library[j])
        /\ DOMAIN reading' = Readers /\ \A w \in Readers : \A job \in reading'[w] : JobIsWhole(job)
    BY <1>1, <2>2 DEF LibraryInv
  <2> QED BY <1>1, <2>6, <2>7 DEF LibraryInv, IsWhole, JobIsWhole, IsIngestion, RequireOwner, Passages
<1>4. CASE /\ RequireOwner(r) /\ Existing(r) = {} /\ told' = Silent
           /\ reading' = [reading EXCEPT ![s] = {[pc |-> "embed", request |-> r, fresh |-> {},
                                                 chunks |-> Passages[r.document]]}]
  <2>1. PICK job : job = [pc |-> "embed", request |-> r, fresh |-> {}, chunks |-> Passages[r.document]]
    OBVIOUS
  <2>2. reading' = [reading EXCEPT ![s] = {job}] /\ told' = Silent
    BY <1>4, <2>1
  <2>3. JobIsWhole(job)
    BY <1>4, <2>1 DEF JobIsWhole, JobShape
  <2>4. DOMAIN reading' = Readers /\ \A w \in Readers : \A one \in reading'[w] : JobIsWhole(one)
    BY <2>2, <2>3 DEF LibraryInv
  <2> QED BY <1>1, <2>2, <2>4, QuietSteps DEF Silent, Replied
<1> QED BY <1>2, <1>3, <1>4 DEF IngestReads
LEMMA EmbeddingKeepsLibrary ==
  ASSUME LibraryInv, NEW s \in Readers, EmbedWithCache(s)
  PROVE  LibraryInv'
<1>1. UNCHANGED <<library, commits>>
  BY DEF EmbedWithCache
<1>2. PICK job \in reading[s] :
        /\ job.pc = "embed"
        /\ \/ reading' = [reading EXCEPT ![s] = {[job EXCEPT !.pc = "commit", !.fresh = Uncached(job.chunks)]}]
              /\ told' = Silent
           \/ Uncached(job.chunks) # {} /\ reading' = [reading EXCEPT ![s] = {}] /\ told' = Replied("error", {})
  BY DEF EmbedWithCache
<1>3. PICK next : next = [job EXCEPT !.pc = "commit", !.fresh = Uncached(job.chunks)]
  OBVIOUS
<1>4. JobIsWhole(job) /\ JobIsWhole(next)
  BY <1>2, <1>3 DEF LibraryInv, JobIsWhole, JobShape, IsIngestion
<1>5. told'.kind # "ingested" /\ (reading' = [reading EXCEPT ![s] = {next}] \/ reading' = [reading EXCEPT ![s] = {}])
  BY <1>2, <1>3 DEF Silent, Replied
<1>6. DOMAIN reading' = Readers /\ \A w \in Readers : \A one \in reading'[w] : JobIsWhole(one)
  BY <1>4, <1>5 DEF LibraryInv
<1> QED BY <1>1, <1>5, <1>6, QuietSteps

\* The row that is committed is of the document the request named.
NewSource(r, id, chunks) ==
  [document |-> r.document, visibility |-> r.visibility, subject |-> r.subject,
   tutor |-> r.tutor, model |-> embedder, deleted |-> Live,
   status |-> IF chunks = <<>> THEN "EMPTY" ELSE "READY",
   chunks |-> Chunked(id, r, chunks)]

LEMMA NewSourceIsWhole ==
  ASSUME NEW r, NEW id, NEW chunks, chunks = Passages[r.document]
  PROVE  IsWhole(NewSource(r, id, chunks))
<1> DEFINE source == NewSource(r, id, chunks)
<1>1. DOMAIN source = SourceShape /\ source.deleted \in Nat
  BY DEF NewSource, SourceShape, Live
<1>2. /\ source.document = r.document /\ source.visibility = r.visibility /\ source.subject = r.subject
      /\ source.tutor = r.tutor /\ source.model = embedder /\ source.chunks = Chunked(id, r, chunks)
  BY DEF NewSource
<1> HIDE DEF source
<1>3. ASSUME NEW c \in ToSet(chunks)
      PROVE  \E chunk \in Chunked(id, r, chunks) :
               /\ chunk.passage = c.passage /\ chunk.model = embedder /\ chunk.visibility = r.visibility
               /\ chunk.subject = r.subject /\ chunk.tutor = r.tutor
  <2>1. PICK i \in DOMAIN chunks : chunks[i] = c
    BY DEF ToSet
  <2>2. PICK chunk : chunk = [source |-> id, ordinal |-> i, passage |-> chunks[i].passage, page |-> chunks[i].page,
                              chars |-> chunks[i].chars, section |-> chunks[i].section, model |-> embedder,
                              visibility |-> r.visibility, subject |-> r.subject, tutor |-> r.tutor,
                              course |-> r.course, conversation |-> r.conversation]
    OBVIOUS
  <2>3. chunk \in Chunked(id, r, chunks)
    BY <2>2 DEF Chunked
  <2> QED BY <2>1, <2>2, <2>3
<1>4. IsWhole(source)
  BY <1>1, <1>2, <1>3 DEF IsWhole
<1> QED BY <1>4 DEF source

CommitOf(s, job, id, r) ==
  /\ id = commits + 1 /\ r = job.request /\ job.pc = "commit"
  /\ IF Clashes(r)
     THEN told' = Replied("error", {}) /\ UNCHANGED <<library, vectors, commits>>
     ELSE /\ Commit
          /\ library' = [i \in DOMAIN library \cup {id} |->
                           IF i # id THEN library[i] ELSE NewSource(r, id, job.chunks)]
          /\ told' = Ingested(r, id, Len(job.chunks), FALSE)
  /\ reading' = [reading EXCEPT ![s] = {}]

LEMMA CommittingKeepsLibrary ==
  ASSUME LibraryInv, NEW s \in Readers, IngestCommits(s)
  PROVE  LibraryInv'
<1>0. PICK job \in reading[s] : \E id, r : CommitOf(s, job, id, r)
  BY DEF IngestCommits, NewSource, CommitOf
<1>1. PICK id, r : CommitOf(s, job, id, r)
  BY <1>0
<1>2. JobIsWhole(job) /\ r \in Requests /\ RequireOwner(r) /\ job.chunks = Passages[r.document]
  BY <1>1 DEF LibraryInv, JobIsWhole, IsIngestion, CommitOf
<1>3. DOMAIN reading' = Readers /\ \A w \in Readers : \A one \in reading'[w] : JobIsWhole(one)
  BY <1>1 DEF LibraryInv, CommitOf
<1>4. CASE Clashes(r)
  BY <1>1, <1>3, <1>4, QuietSteps DEF Replied, CommitOf
<1>5. CASE ~Clashes(r)
  <2>1. PICK new : new = NewSource(r, id, job.chunks)
    OBVIOUS
  <2>2. IsWhole(new)
    BY <1>2, <2>1, NewSourceIsWhole
  <2>3. commits \in Nat /\ id = commits + 1 /\ commits' = id /\ id \notin DOMAIN library
    BY <1>1, <1>5 DEF LibraryInv, Commit, CommitOf
  <2>4. /\ DOMAIN library' = DOMAIN library \cup {id} /\ library'[id] = new
        /\ \A i \in DOMAIN library : library'[i] = library[i]
    BY <1>1, <1>5, <2>1, <2>3 DEF CommitOf
  <2>5. DOMAIN library' \subseteq 1 .. commits' /\ \A i \in DOMAIN library' : IsWhole(library'[i])
    BY <2>2, <2>3, <2>4 DEF LibraryInv
  <2>6. /\ told'.kind = "ingested" /\ told'.about.request = r /\ told'.about.source = id
        /\ told'.about.at = commits /\ told'.about.model = embedder
    BY <1>1, <1>5 DEF Ingested, Replied, CommitOf
  <2>7. /\ new.document = r.document /\ new.visibility = r.visibility /\ new.subject = r.subject
        /\ new.tutor = r.tutor /\ new.model = embedder /\ new.deleted = Live
    BY <2>1 DEF NewSource
  <2>8. r.visibility \in DOMAIN Owner => r[Owner[r.visibility]] # NoOne
    BY <1>2 DEF RequireOwner
  <2>9. PromiseKept'
    BY <1>2, <2>3, <2>4, <2>6, <2>7, <2>8 DEF PromiseKept, RequireOwner
  <2> QED BY <1>3, <2>3, <2>5, <2>9 DEF LibraryInv, IsWhole, JobIsWhole, IsIngestion, RequireOwner, Passages
<1> QED BY <1>4, <1>5

LEMMA DeletingKeepsLibrary ==
  ASSUME LibraryInv, NEW id, SoftDeleteSource(id)
  PROVE  LibraryInv'
<1>1. id \in DOMAIN library /\ commits \in Nat /\ commits' = commits + 1 /\ UNCHANGED <<reading, told>>
  BY DEF LibraryInv, SoftDeleteSource, Commit
<1>2. PICK gone : gone = [library[id] EXCEPT !.deleted = commits + 1, !.status = "DELETED"]
  OBVIOUS
<1>3. library' = [library EXCEPT ![id] = gone]
  BY <1>1, <1>2 DEF SoftDeleteSource
<1>4. /\ DOMAIN library' = DOMAIN library /\ library'[id] = gone
      /\ \A i \in DOMAIN library \ {id} : library'[i] = library[i]
  BY <1>1, <1>3
<1>5. IsWhole(library[id]) /\ DOMAIN library[id] = SourceShape
  BY <1>1 DEF LibraryInv, IsWhole
<1>6. /\ DOMAIN gone = SourceShape /\ gone.deleted = commits + 1
      /\ gone.document = library[id].document /\ gone.visibility = library[id].visibility
      /\ gone.subject = library[id].subject /\ gone.tutor = library[id].tutor
      /\ gone.model = library[id].model /\ gone.chunks = library[id].chunks
  BY <1>2, <1>5 DEF SourceShape
<1>7. IsWhole(gone)
  BY <1>1, <1>5, <1>6 DEF IsWhole
<1>8. DOMAIN library' \subseteq 1 .. commits' /\ \A i \in DOMAIN library' : IsWhole(library'[i])
  BY <1>1, <1>4, <1>7 DEF LibraryInv
<1>9. PromiseKept'
  <2> SUFFICES ASSUME told.kind = "ingested" PROVE PromiseKept'
    BY <1>1 DEF PromiseKept
  <2>1. PICK promise : promise = told.about
    OBVIOUS
  <2>2. /\ promise.request \in Requests /\ RequireOwner(promise.request)
        /\ promise.source \in 1 .. commits /\ promise.at \in Nat /\ promise.at <= commits
        /\ promise.source \in DOMAIN library =>
             LET source == library[promise.source] IN
             /\ source.document = promise.request.document /\ source.visibility = promise.request.visibility
             /\ source.subject = promise.request.subject /\ source.tutor = promise.request.tutor
             /\ source.model = promise.model
             /\ source.deleted = Live \/ source.deleted > promise.at
    BY <2>1 DEF LibraryInv, PromiseKept
  <2>3. promise.source \in 1 .. commits' /\ promise.at <= commits' /\ commits + 1 > promise.at
    BY <1>1, <2>2
  <2>4. CASE promise.source = id
    BY <1>1, <1>4, <1>6, <2>1, <2>2, <2>3, <2>4 DEF PromiseKept, RequireOwner
  <2>5. CASE promise.source # id
    BY <1>1, <1>4, <2>1, <2>2, <2>3, <2>5 DEF PromiseKept, RequireOwner
  <2> QED BY <2>4, <2>5
<1> QED BY <1>1, <1>8, <1>9 DEF LibraryInv, IsWhole, JobIsWhole, IsIngestion, RequireOwner, Passages
LEMMA PurgingKeepsLibrary ==
  ASSUME LibraryInv, NEW id, PurgeSource(id)
  PROVE  LibraryInv'
<1>1. /\ commits \in Nat /\ commits' = commits + 1 /\ UNCHANGED <<reading, told>>
      /\ DOMAIN library' = DOMAIN library \ {id} /\ \A i \in DOMAIN library' : library'[i] = library[i]
  BY DEF LibraryInv, PurgeSource, Commit
<1>2. DOMAIN library' \subseteq 1 .. commits' /\ \A i \in DOMAIN library' : IsWhole(library'[i])
  BY <1>1 DEF LibraryInv
<1>3. PromiseKept'
  BY <1>1 DEF LibraryInv, PromiseKept, RequireOwner
<1> QED BY <1>1, <1>2, <1>3 DEF LibraryInv, IsWhole, JobIsWhole, IsIngestion, RequireOwner, Passages

LEMMA RedeployKeepsLibrary ==
  ASSUME LibraryInv, Redeploy
  PROVE  LibraryInv'
<1>1. /\ commits \in Nat /\ commits' = commits + 1 /\ UNCHANGED library
      /\ reading' = [s \in Readers |-> {}] /\ told' = Silent
  BY DEF LibraryInv, Redeploy, Commit
<1>2. DOMAIN library' \subseteq 1 .. commits' /\ \A i \in DOMAIN library' : IsWhole(library[i])
  BY <1>1 DEF LibraryInv
<1>3. PromiseKept'
  BY <1>1 DEF PromiseKept, Silent, Replied
<1> QED BY <1>1, <1>2, <1>3 DEF LibraryInv, IsWhole, Passages

LEMMA SearchingKeepsLibrary ==
  ASSUME LibraryInv, NEW s \in Readers, Search(s)
  PROVE  LibraryInv'
<1>1. UNCHANGED <<library, commits>> /\ reading' = [reading EXCEPT ![s] = {}] /\ told'.kind # "ingested"
  BY DEF Search, Evidence, Replied
<1>2. DOMAIN reading' = Readers /\ \A w \in Readers : \A one \in reading'[w] : JobIsWhole(one)
  BY <1>1 DEF LibraryInv
<1> QED BY <1>1, <1>2, QuietSteps

LEMMA RetrievingKeepsLibrary ==
  ASSUME LibraryInv, NEW s \in Readers, NEW q \in Questions, DecideAndRetrieve(s, q)
  PROVE  LibraryInv'
<1>1. UNCHANGED <<library, commits>>
  BY DEF DecideAndRetrieve
<1>2. told'.kind # "ingested"
  BY DEF DecideAndRetrieve, Evidence, Silent, Replied
<1>3. \/ UNCHANGED reading
      \/ \E k, lexical : reading' = [reading EXCEPT ![s] = {[pc |-> "search", question |-> q, topK |-> k,
                                                             lexical |-> lexical, began |-> commits]}]
  BY DEF DecideAndRetrieve
<1>4. DOMAIN reading' = Readers /\ \A w \in Readers : \A one \in reading'[w] : JobIsWhole(one)
  <2>1. CASE UNCHANGED reading
    BY <2>1 DEF LibraryInv
  <2>2. ASSUME NEW k, NEW lexical, NEW job,
               job = [pc |-> "search", question |-> q, topK |-> k, lexical |-> lexical, began |-> commits],
               reading' = [reading EXCEPT ![s] = {job}]
        PROVE  DOMAIN reading' = Readers /\ \A w \in Readers : \A one \in reading'[w] : JobIsWhole(one)
    <3>1. JobIsWhole(job)
      BY <2>2 DEF JobIsWhole, IsIngestion
    <3> QED BY <2>2, <3>1 DEF LibraryInv
  <2> QED BY <1>3, <2>1, <2>2
<1> QED BY <1>1, <1>2, <1>4, QuietSteps

LEMMA LibraryInvNext == ASSUME LibraryInv, [Next]_vars PROVE LibraryInv'
<1>1. CASE UNCHANGED libraryVars
  BY <1>1 DEF libraryVars, LibraryInv, IsWhole, JobIsWhole, IsIngestion, PromiseKept, RequireOwner, Passages
<1>2. CASE Reading
  BY <1>2, ReadingKeepsLibrary, EmbeddingKeepsLibrary, CommittingKeepsLibrary, SearchingKeepsLibrary,
     DeletingKeepsLibrary, PurgingKeepsLibrary, RedeployKeepsLibrary, RetrievingKeepsLibrary DEF Reading
<1> QED BY <1>1, <1>2, LibraryStep

\* Who is told that a document is ingested finds all of it - whatever was
\* deleted, purged and ingested again before, by whom at the same time, and
\* under whatever embedding models - unless the document was deleted later
\* (DocumentIngestor.ingest, visibility_clause).
THEOREM IngestedDocumentsAreFound == Spec => []IngestedIsFound
<1>1. ASSUME LibraryInv PROVE IngestedIsFound
  <2> SUFFICES ASSUME NEW promise, promise = told.about, told.kind = "ingested",
                      promise.request.visibility \notin {"COURSE", "CONVERSATION"},
                      promise.source \in DOMAIN library
               PROVE  LET rows == {r \in Rows(ScopeOf(promise.request)) : r.model = promise.model} IN
                      IF library[promise.source].deleted = Live
                      THEN {c.passage : c \in ToSet(Passages[promise.request.document])} \subseteq {r.passage : r \in rows}
                      ELSE library[promise.source].deleted > promise.at
    BY DEF IngestedIsFound
  <2>1. PICK source : source = library[promise.source]
    OBVIOUS
  <2>2. /\ promise.request \in Requests /\ RequireOwner(promise.request)
        /\ source.document = promise.request.document /\ source.visibility = promise.request.visibility
        /\ source.subject = promise.request.subject /\ source.tutor = promise.request.tutor
        /\ source.model = promise.model
        /\ source.deleted = Live \/ source.deleted > promise.at
    BY <1>1, <2>1 DEF LibraryInv, PromiseKept
  <2>3. IsWhole(source)
    BY <1>1, <2>1 DEF LibraryInv
  <2>4. ASSUME source.deleted = Live, NEW c \in ToSet(Passages[promise.request.document])
        PROVE  \E r \in Rows(ScopeOf(promise.request)) : r.model = promise.model /\ r.passage = c.passage
    <3>1. PICK chunk \in source.chunks :
            /\ chunk.passage = c.passage /\ chunk.model = source.model /\ chunk.visibility = source.visibility
            /\ chunk.subject = source.subject /\ chunk.tutor = source.tutor
      BY <2>2, <2>3, <2>4 DEF IsWhole
    <3>2. promise.request.visibility \in {"STUDENT_PRIVATE", "TUTOR", "GLOBAL_CURATED"}
      BY <2>2, RequestsAssumption DEF Owner
    <3>3. promise.request.visibility = "TUTOR" => promise.request.tutor # NoOne
      BY <2>2 DEF RequireOwner, Owner
    <3>4. VisibleTo(ScopeOf(promise.request), chunk)
      BY <2>2, <3>1, <3>2, <3>3 DEF VisibleTo, ScopeOf
    <3>5. chunk \in Rows(ScopeOf(promise.request))
      BY <2>1, <2>4, <3>1, <3>4 DEF Rows
    <3> QED BY <2>2, <3>1, <3>5
  <2> QED BY <2>1, <2>2, <2>4
<1> QED BY <1>1, LibraryInvInit, LibraryInvNext, PTL DEF Spec

-----------------------------------------------------------------------------
(* What a question is shown.                                               *)

\* A row of document_chunks is a passage of a document, in its place.
OfPassage(row) ==
  /\ row.source \in Nat
  /\ \E d \in DOMAIN Documents :
       /\ row.ordinal \in DOMAIN Passages[d]
       /\ row.passage = Passages[d][row.ordinal].passage /\ row.chars = Passages[d][row.ordinal].chars

\* A place in a source is one row.
OnePlaceEach(rows) ==
  \A a, b \in rows : a.source = b.source /\ a.ordinal = b.ordinal => a = b

\* The rows of a source are finitely many and its own.
ChunksAreOwn(i) ==
  /\ IsFiniteSet(library[i].chunks) /\ OnePlaceEach(library[i].chunks)
  /\ \A chunk \in library[i].chunks : chunk.source = i /\ OfPassage(chunk)

\* What is shown of a row holds of it until its source is purged.
IsShown(row, q, began) ==
  /\ MayRead(q.scope, row) /\ OfPassage(row) /\ row.source \in 1 .. commits
  /\ row.source \in DOMAIN library =>
       LET source == library[row.source] IN
       row \in source.chunks /\ (source.deleted = Live \/ source.deleted > began)

\* A list of what a question found, each row once.
Shown(found, q, began) ==
  /\ \E n \in Nat : found = [i \in 1 .. n |-> found[i]]
  /\ \A i \in DOMAIN found : IsShown(found[i], q, began)
  /\ \A i, j \in DOMAIN found :
       found[i].source = found[j].source /\ found[i].ordinal = found[j].ordinal => i = j

\* A search that waits for the embedding of its question.
SearchIsSound(job) ==
  job.pc = "search" =>
    /\ job.question \in Questions /\ job.topK \in Nat /\ job.topK > 0
    /\ job.began \in Nat /\ job.began <= commits
    /\ Shown(job.lexical, job.question, job.began)
    /\ ~WordsSuffice(job.lexical)

AnswerIsSound ==
  told.kind = "evidence" =>
    LET given == told.about IN
    /\ given.question \in Questions /\ given.began \in Nat /\ given.began <= commits
    /\ Shown(given.found, given.question, given.began)
    /\ Len(given.found) <= given.topK
    /\ 100 * given.prompt.used <= 35 * Window
    /\ given.topK = 0 => given.found = <<>> /\ given.calls = 0
    /\ given.words >= KeywordSufficientHits => given.calls = 0

EvidenceInv ==
  /\ LibraryInv
  /\ \A i \in DOMAIN library : ChunksAreOwn(i)
  /\ \A s \in Readers : \A job \in reading[s] : SearchIsSound(job)
  /\ AnswerIsSound

\* Where each element is ahead of those it is not behind, the number of those
\* ahead of it is its place, and no place is empty.
LEMMA PlacesAreTaken ==
  ASSUME NEW S, IsFiniteSet(S), NEW ahead \in [S -> SUBSET S],
         \A r \in S : r \notin ahead[r],
         \A q, r \in S : q # r => q \in ahead[r] \/ r \in ahead[q],
         \A q, r \in S : q \in ahead[r] => ahead[q] \subseteq ahead[r]
  PROVE  \A i \in 1 .. Cardinality(S) : \E r \in S : Cardinality(ahead[r]) = i - 1
<1> DEFINE n == Cardinality(S)
           place == [r \in S |-> Cardinality(ahead[r])]
<1>1. n \in Nat
  BY FS_CardinalityType
<1>2. ASSUME NEW r \in S PROVE IsFiniteSet(ahead[r]) /\ Cardinality(ahead[r]) \in 0 .. n - 1
  <2>1. IsFiniteSet(S \ {r}) /\ Cardinality(S \ {r}) = n - 1
    BY FS_RemoveElement
  <2>2. ahead[r] \in SUBSET (S \ {r})
    OBVIOUS
  <2>3. IsFiniteSet(ahead[r]) /\ Cardinality(ahead[r]) <= n - 1
    BY <2>1, <2>2, FS_Subset
  <2>4. Cardinality(ahead[r]) \in Nat
    BY <2>3, FS_CardinalityType
  <2> QED BY <1>1, <2>3, <2>4
<1>3. ASSUME NEW q \in S, NEW r \in S, q \in ahead[r] PROVE Cardinality(ahead[q]) # Cardinality(ahead[r])
  <2>1. ahead[q] \in SUBSET ahead[r] /\ q \notin ahead[q]
    BY <1>3
  <2> QED BY <1>2, <1>3, <2>1, FS_Subset
<1>4. place \in Injection(S, 0 .. n - 1)
  <2>1. place \in [S -> 0 .. n - 1]
    BY <1>2
  <2>2. \A q, r \in S : place[q] = place[r] => q = r
    BY <1>3
  <2> QED BY <2>1, <2>2 DEF Injection, IsInjective
<1>5. IsFiniteSet(0 .. n - 1) /\ Cardinality(0 .. n - 1) = n
  <2> HIDE DEF n
  <2>1. 0 \in Int /\ n - 1 \in Int
    BY <1>1
  <2>2. IsFiniteSet(0 .. n - 1) /\ Cardinality(0 .. n - 1) = IF 0 > n - 1 THEN 0 ELSE (n - 1) - 0 + 1
    BY <2>1, FS_Interval
  <2> QED BY <1>1, <2>2
<1>6. place \in Surjection(S, 0 .. n - 1)
  <2> HIDE DEF place
  <2> QED BY <1>4, <1>5, FS_Injection
<1>7. \A i \in 1 .. n : i - 1 \in 0 .. n - 1
  BY <1>1
<1> QED BY <1>6, <1>7 DEF Surjection

\* A list of different rows, at most k of them.
ListOf(found, rows, k) ==
  /\ \E n \in Nat : found = [i \in 1 .. n |-> found[i]]
  /\ Len(found) <= k
  /\ \A i \in DOMAIN found : found[i] \in rows
  /\ \A i, j \in DOMAIN found : found[i] = found[j] => i = j

\* A list in which element i is the one with i - 1 ahead of it, as far as it
\* goes, is a list of different elements of its set, no longer than asked for.
LEMMA PlacesAreAList ==
  ASSUME NEW rows, IsFiniteSet(rows), NEW ahead \in [rows -> SUBSET rows],
         \A r \in rows : r \notin ahead[r],
         \A q, r \in rows : q # r => q \in ahead[r] \/ r \in ahead[q],
         \A q, r \in rows : q \in ahead[r] => ahead[q] \subseteq ahead[r],
         NEW k \in Nat, NEW found,
         found = [i \in 1 .. Min({k, Cardinality(rows)}) |-> found[i]],
         \A i \in DOMAIN found : (\E r \in rows : Cardinality(ahead[r]) = i - 1)
                                   => found[i] \in rows /\ Cardinality(ahead[found[i]]) = i - 1
  PROVE  ListOf(found, rows, k)
<1>1. Cardinality(rows) \in Nat
  BY FS_CardinalityType
<1>2. PICK n \in Nat : n = Min({k, Cardinality(rows)}) /\ n <= k /\ n <= Cardinality(rows)
  <2>1. k <= Cardinality(rows) => Min({k, Cardinality(rows)}) = k
    BY <1>1 DEF Min
  <2>2. ~(k <= Cardinality(rows)) => Min({k, Cardinality(rows)}) = Cardinality(rows)
    BY <1>1 DEF Min
  <2> QED BY <1>1, <2>1, <2>2
<1>3. DOMAIN found = 1 .. n
  BY <1>2
<1>4. ASSUME NEW i \in DOMAIN found PROVE found[i] \in rows /\ Cardinality(ahead[found[i]]) = i - 1
  <2>1. i \in 1 .. Cardinality(rows)
    BY <1>1, <1>2, <1>3
  <2>2. \A p \in 1 .. Cardinality(rows) : \E r \in rows : Cardinality(ahead[r]) = p - 1
    BY PlacesAreTaken
  <2> QED BY <2>1, <2>2
<1>5. Len(found) = n
  <2>1. found \in [1 .. n -> rows]
    BY <1>2, <1>4
  <2>2. found \in Seq(rows)
    <3>1. [1 .. n -> rows] \in {[1 .. m -> rows] : m \in Nat}
      BY <1>2
    <3>2. Seq(rows) = UNION {[1 .. m -> rows] : m \in Nat}
      BY SeqDef, Zenon
    <3> QED BY <2>1, <3>1, <3>2, Zenon
  <2>3. DOMAIN found = 1 .. Len(found) /\ Len(found) \in Nat
    BY <2>2, LenProperties, Zenon
  <2> QED BY <1>2, <1>3, <2>3
<1>6. \A i, j \in DOMAIN found : found[i] = found[j] => i = j
  <2> SUFFICES ASSUME NEW i \in 1 .. n, NEW j \in 1 .. n, found[i] = found[j] PROVE i = j
    BY <1>3
  <2>1. i - 1 = j - 1
    BY <1>3, <1>4
  <2> QED BY <2>1
<1> QED BY <1>2, <1>3, <1>4, <1>5, <1>6 DEF ListOf

\* Older breaks the ties of any ranking by a score.
LEMMA TiesAreByAge ==
  ASSUME NEW rows, OnePlaceEach(rows), \A r \in rows : r.source \in Nat /\ r.ordinal \in Nat,
         NEW better \in [rows -> SUBSET rows],
         \A q, r \in rows : q \in better[r] => r \notin better[q],
         \A q, r, t \in rows : q \in better[t] => q \in better[r] \/ r \in better[t],
         NEW ahead, ahead = [r \in rows |-> {q \in rows : q \in better[r] \/ (r \notin better[q] /\ Older(q, r))}]
  PROVE  /\ ahead \in [rows -> SUBSET rows]
         /\ \A r \in rows : r \notin ahead[r]
         /\ \A q, r \in rows : q # r => q \in ahead[r] \/ r \in ahead[q]
         /\ \A q, r \in rows : q \in ahead[r] => ahead[q] \subseteq ahead[r]
<1>1. ahead \in [rows -> SUBSET rows]
  OBVIOUS
<1>2. \A q, r \in rows : q \in ahead[r] <=> q \in better[r] \/ (r \notin better[q] /\ Older(q, r))
  OBVIOUS
<1>3. \A r \in rows : r \notin better[r] /\ ~Older(r, r)
  BY DEF Older
<1>4. \A q, r \in rows : q # r => Older(q, r) \/ Older(r, q)
  BY DEF Older, OnePlaceEach
<1>5. \A q, r, t \in rows : Older(q, r) /\ Older(r, t) => Older(q, t)
  BY DEF Older
<1>6. ASSUME NEW q \in rows, NEW r \in rows, NEW t \in rows, t \in ahead[q], q \in ahead[r]
      PROVE  t \in ahead[r]
  BY <1>2, <1>5, <1>6
<1>7. \A q, r \in rows : q # r => q \in ahead[r] \/ r \in ahead[q]
  BY <1>2, <1>4
<1>8. \A r \in rows : r \notin ahead[r]
  BY <1>2, <1>3
<1> QED BY <1>1, <1>6, <1>7, <1>8

\* The rows of a search by words or by closeness have numbers to compare.
LEMMA RowsAreScored ==
  ASSUME NEW row, OfPassage(row)
  PROVE  /\ row.source \in Nat /\ row.ordinal \in Nat /\ row.chars \in Nat
         /\ \A q \in Questions : /\ q.query.lexical[row.passage[1]] \in Nat
                                 /\ q.query.close[row.passage[1]] \in Nat
  BY PassagesAssumption DEF OfPassage

\* The best of some rows by a score, with Older between those that tie.
LEMMA BestIsAList ==
  ASSUME NEW rows, IsFiniteSet(rows), OnePlaceEach(rows),
         \A r \in rows : r.source \in Nat /\ r.ordinal \in Nat,
         NEW better \in [rows -> SUBSET rows],
         \A q, r \in rows : q \in better[r] => r \notin better[q],
         \A q, r, t \in rows : q \in better[t] => q \in better[r] \/ r \in better[t],
         NEW k \in Nat, NEW found,
         found = [i \in 1 .. Min({k, Cardinality(rows)}) |-> found[i]],
         \A i \in DOMAIN found :
           found[i] = CHOOSE r \in rows :
             Cardinality({q \in rows : q \in better[r] \/ (r \notin better[q] /\ Older(q, r))}) = i - 1
  PROVE  ListOf(found, rows, k)
<1> DEFINE ahead == [r \in rows |-> {q \in rows : q \in better[r] \/ (r \notin better[q] /\ Older(q, r))}]
<1>1. /\ ahead \in [rows -> SUBSET rows]
      /\ \A r \in rows : r \notin ahead[r]
      /\ \A q, r \in rows : q # r => q \in ahead[r] \/ r \in ahead[q]
      /\ \A q, r \in rows : q \in ahead[r] => ahead[q] \subseteq ahead[r]
  <2> HIDE DEF ahead
  <2>1. ahead = [r \in rows |-> {q \in rows : q \in better[r] \/ (r \notin better[q] /\ Older(q, r))}]
    BY DEF ahead
  <2> QED BY <2>1, TiesAreByAge
<1>2. \A r \in rows :
        ahead[r] = {q \in rows : q \in better[r] \/ (r \notin better[q] /\ Older(q, r))}
  OBVIOUS
<1> HIDE DEF ahead
<1>3. ASSUME NEW i \in DOMAIN found, NEW r \in rows, Cardinality(ahead[r]) = i - 1
      PROVE  found[i] \in rows /\ Cardinality(ahead[found[i]]) = i - 1
  <2>1. Cardinality({q \in rows : q \in better[r] \/ (r \notin better[q] /\ Older(q, r))}) = i - 1
    BY <1>2, <1>3
  <2>2. PICK one : one = CHOOSE p \in rows :
             Cardinality({q \in rows : q \in better[p] \/ (p \notin better[q] /\ Older(q, p))}) = i - 1
    OBVIOUS
  <2>3. /\ one \in rows
        /\ Cardinality({q \in rows : q \in better[one] \/ (one \notin better[q] /\ Older(q, one))}) = i - 1
    BY <2>1, <2>2
  <2>4. found[i] = one
    BY <2>2
  <2> QED BY <1>2, <2>3, <2>4
<1>4. \A i \in DOMAIN found : (\E r \in rows : Cardinality(ahead[r]) = i - 1)
                                => found[i] \in rows /\ Cardinality(ahead[found[i]]) = i - 1
  BY <1>3
<1> QED BY <1>1, <1>4, PlacesAreAList

\* What a search by words finds.
LEMMA KeywordsFind ==
  ASSUME NEW rows, IsFiniteSet(rows), OnePlaceEach(rows), \A r \in rows : OfPassage(r),
         NEW q \in Questions, NEW k \in Nat
  PROVE  ListOf(KeywordSearch(rows, q.query, k), rows, k)
<1> DEFINE score(r) == q.query.lexical[r.passage[1]]
           some     == {r \in rows : score(r) > 0}
           better   == [r \in some |-> {p \in some : score(p) > score(r)}]
<1>1. IsFiniteSet(some) /\ OnePlaceEach(some) /\ \A r \in some : r.source \in Nat /\ r.ordinal \in Nat
  <2>1. some \in SUBSET rows
    OBVIOUS
  <2> QED BY <2>1, FS_Subset, RowsAreScored DEF OnePlaceEach
<1>2. \A r \in some : score(r) \in Nat
  BY RowsAreScored
<1>3. /\ better \in [some -> SUBSET some]
      /\ \A p, r \in some : p \in better[r] <=> score(p) > score(r)
  OBVIOUS
<1>4. PICK found : found = KeywordSearch(rows, q.query, k)
  OBVIOUS
<1>5. found = [i \in 1 .. Min({k, Cardinality(some)}) |->
                 CHOOSE r \in some : Cardinality({p \in some : score(p) > score(r)
                                                    \/ (~(score(r) > score(p)) /\ Older(p, r))}) = i - 1]
  BY <1>4, Zenon DEF KeywordSearch, Ranked, Best
<1> HIDE DEF better
<1>6. ASSUME NEW i \in DOMAIN found
      PROVE  found[i] = CHOOSE r \in some :
               Cardinality({p \in some : p \in better[r] \/ (r \notin better[p] /\ Older(p, r))}) = i - 1
  <2>1. ASSUME NEW r \in some
        PROVE {p \in some : p \in better[r] \/ (r \notin better[p] /\ Older(p, r))} =
              {p \in some : score(p) > score(r) \/ (~(score(r) > score(p)) /\ Older(p, r))}
    BY <1>3
  <2>2. found[i] = CHOOSE r \in some : Cardinality({p \in some : score(p) > score(r)
                                                    \/ (~(score(r) > score(p)) /\ Older(p, r))}) = i - 1
    BY <1>5, Zenon
  <2> HIDE DEF some
  <2> QED BY <2>1, <2>2
<1>7. \A p, r, t \in some : p \in better[t] => p \in better[r] \/ r \in better[t]
  BY <1>2, <1>3
<1>8. \A p, r \in some : p \in better[r] => r \notin better[p]
  BY <1>2, <1>3
<1>9. found = [i \in 1 .. Min({k, Cardinality(some)}) |-> found[i]]
  <2> DEFINE pick(i) == CHOOSE r \in some : Cardinality({p \in some : score(p) > score(r)
                                                    \/ (~(score(r) > score(p)) /\ Older(p, r))}) = i - 1
  <2>1. found = [i \in 1 .. Min({k, Cardinality(some)}) |-> pick(i)]
    BY <1>5, Zenon
  <2> HIDE DEF pick, some
  <2> QED BY <2>1
<1>10. ListOf(found, some, k)
  <2> HIDE DEF some
  <2> QED BY <1>1, <1>3, <1>6, <1>7, <1>8, <1>9, BestIsAList
<1> QED BY <1>4, <1>10 DEF ListOf

\* What a search by closeness finds, of the vectors of one model.
LEMMA ClosenessFinds ==
  ASSUME NEW rows, IsFiniteSet(rows), OnePlaceEach(rows), \A r \in rows : OfPassage(r),
         NEW q \in Questions, NEW model, NEW k \in Nat
  PROVE  ListOf(SimilaritySearch(rows, q.query, model, k), rows, k)
<1> DEFINE score(r) == q.query.close[r.passage[1]]
           some     == {r \in rows : r.model = model}
           better   == [r \in some |-> {p \in some : score(p) > score(r)}]
<1>1. IsFiniteSet(some) /\ OnePlaceEach(some) /\ \A r \in some : r.source \in Nat /\ r.ordinal \in Nat
  <2>1. some \in SUBSET rows
    OBVIOUS
  <2> QED BY <2>1, FS_Subset, RowsAreScored DEF OnePlaceEach
<1>2. \A r \in some : score(r) \in Nat
  BY RowsAreScored
<1>3. /\ better \in [some -> SUBSET some]
      /\ \A p, r \in some : p \in better[r] <=> score(p) > score(r)
  OBVIOUS
<1>4. PICK found : found = SimilaritySearch(rows, q.query, model, k)
  OBVIOUS
<1>5. found = [i \in 1 .. Min({k, Cardinality(some)}) |->
                 CHOOSE r \in some : Cardinality({p \in some : score(p) > score(r)
                                                    \/ (~(score(r) > score(p)) /\ Older(p, r))}) = i - 1]
  BY <1>4, Zenon DEF SimilaritySearch, Ranked, Best
<1> HIDE DEF better
<1>6. ASSUME NEW i \in DOMAIN found
      PROVE  found[i] = CHOOSE r \in some :
               Cardinality({p \in some : p \in better[r] \/ (r \notin better[p] /\ Older(p, r))}) = i - 1
  <2>1. ASSUME NEW r \in some
        PROVE {p \in some : p \in better[r] \/ (r \notin better[p] /\ Older(p, r))} =
              {p \in some : score(p) > score(r) \/ (~(score(r) > score(p)) /\ Older(p, r))}
    BY <1>3
  <2>2. found[i] = CHOOSE r \in some : Cardinality({p \in some : score(p) > score(r)
                                                    \/ (~(score(r) > score(p)) /\ Older(p, r))}) = i - 1
    BY <1>5, Zenon
  <2> HIDE DEF some
  <2> QED BY <2>1, <2>2
<1>7. \A p, r, t \in some : p \in better[t] => p \in better[r] \/ r \in better[t]
  BY <1>2, <1>3
<1>8. \A p, r \in some : p \in better[r] => r \notin better[p]
  BY <1>2, <1>3
<1>9. found = [i \in 1 .. Min({k, Cardinality(some)}) |-> found[i]]
  <2> DEFINE pick(i) == CHOOSE r \in some : Cardinality({p \in some : score(p) > score(r)
                                                    \/ (~(score(r) > score(p)) /\ Older(p, r))}) = i - 1
  <2>1. found = [i \in 1 .. Min({k, Cardinality(some)}) |-> pick(i)]
    BY <1>5, Zenon
  <2> HIDE DEF pick, some
  <2> QED BY <2>1
<1>10. ListOf(found, some, k)
  <2> HIDE DEF some
  <2> QED BY <1>1, <1>3, <1>6, <1>7, <1>8, <1>9, BestIsAList
<1> QED BY <1>4, <1>10 DEF ListOf

\* Fractions with positive denominators are ordered.
LEMMA FractionsAreOrdered ==
  ASSUME NEW a \in Nat, NEW b \in Nat, NEW c \in Nat, NEW u \in Nat \ {0}, NEW v \in Nat \ {0}, NEW w \in Nat \ {0},
         a * w > c * u
  PROVE  a * v > b * u \/ b * w > c * v
<1> SUFFICES ASSUME a * v <= b * u, b * w <= c * v PROVE FALSE
  OBVIOUS
<1>1. (a * v) * w <= (b * u) * w
  OBVIOUS
<1>2. (b * w) * u <= (c * v) * u
  OBVIOUS
<1>3. (a * w) * v <= (c * u) * v
  BY <1>1, <1>2
<1>4. (a * w - c * u) * v > 0
  OBVIOUS
<1> QED BY <1>3, <1>4

\* A row's score is a fraction, whatever rankings it is in.
LEMMA FusedScores ==
  ASSUME NEW row, NEW left, NEW right, Len(left) \in Nat, Len(right) \in Nat
  PROVE  /\ FusedScore(row, left, right)[1] \in Nat
         /\ FusedScore(row, left, right)[2] \in Nat \ {0}
<1>1. ASSUME NEW list, Len(list) \in Nat PROVE PositionIn(list, row) \in Nat
  <2> DEFINE places == {i \in 1 .. Len(list) : list[i] = row}
  <2>1. CASE places = {}
    BY <2>1 DEF PositionIn, SelectInSeq
  <2>2. CASE places # {}
    <3>0. places \in SUBSET Nat
      BY <1>1
    <3>1. PICK i \in places : \A j \in places : i <= j
      <4> HIDE DEF places
      <4> QED BY <2>2, <3>0, LeastNumber
    <3>2. Min(places) \in places
      BY <3>1 DEF Min
    <3> QED BY <1>1, <2>2, <3>2 DEF PositionIn, SelectInSeq
  <2> QED BY <2>1, <2>2
<1>2. PICK i \in Nat, j \in Nat : i = RrfK + PositionIn(left, row) /\ j = RrfK + PositionIn(right, row)
  BY <1>1 DEF RrfK
<1>3. i >= 60 /\ j >= 60
  BY <1>1, <1>2 DEF RrfK
<1>4. i * j \in Nat \ {0} /\ i + j \in Nat
  BY <1>3
<1>5. FusedScore(row, left, right) = CASE i = RrfK -> <<1, j>> [] j = RrfK -> <<1, i>> [] OTHER -> <<i + j, i * j>>
  BY <1>2 DEF FusedScore
<1>6. FusedScore(row, left, right) \in {<<1, j>>, <<1, i>>, <<i + j, i * j>>}
  BY <1>5
<1> QED BY <1>3, <1>4, <1>6

\* What the fusion of two lists shows is of either.
LEMMA FusionFinds ==
  ASSUME NEW left, NEW right, Len(left) \in Nat, Len(right) \in Nat, IsFiniteSet(ToSet(left) \cup ToSet(right)),
         OnePlaceEach(ToSet(left) \cup ToSet(right)),
         \A r \in ToSet(left) \cup ToSet(right) : r.source \in Nat /\ r.ordinal \in Nat, NEW k \in Nat
  PROVE  ListOf(ReciprocalRankFusion(left, right, k), ToSet(left) \cup ToSet(right), k)
<1>0. PICK rows : rows = ToSet(left) \cup ToSet(right)
  OBVIOUS
<1> DEFINE score  == [r \in rows |-> FusedScore(r, left, right)]
           more(a, b) == score[a][1] * score[b][2] > score[b][1] * score[a][2]
           better == [r \in rows |-> {p \in rows : more(p, r)}]
<1>1. \A r \in rows : score[r][1] \in Nat /\ score[r][2] \in Nat \ {0}
  BY FusedScores
<1>2. PICK found : found = ReciprocalRankFusion(left, right, k)
  OBVIOUS
<1>3. found = [i \in 1 .. Min({k, Cardinality(rows)}) |->
                 CHOOSE r \in rows : Cardinality({p \in rows : more(p, r) \/ (~more(r, p) /\ Older(p, r))}) = i - 1]
  <2>1. found = [i \in 1 .. Min({k, Cardinality(DOMAIN score)}) |->
                   CHOOSE r \in DOMAIN score :
                     Cardinality({p \in DOMAIN score : more(p, r) \/ (~more(r, p) /\ Older(p, r))}) = i - 1]
    BY <1>0, <1>2 DEF ReciprocalRankFusion, Best
  <2>2. DOMAIN score = rows
    OBVIOUS
  <2> HIDE DEF score
  <2> QED BY <2>1, <2>2
<1> HIDE DEF score
<1>4. \A p, r, t \in rows : more(p, t) => more(p, r) \/ more(r, t)
  BY <1>1, FractionsAreOrdered
<1>5. \A p, r \in rows : more(p, r) => ~more(r, p)
  BY <1>1
<1>6. /\ better \in [rows -> SUBSET rows]
      /\ \A p, r \in rows : p \in better[r] <=> more(p, r)
  OBVIOUS
<1> HIDE DEF better, more
<1>7. ASSUME NEW i \in DOMAIN found
      PROVE  found[i] = CHOOSE r \in rows :
               Cardinality({p \in rows : p \in better[r] \/ (r \notin better[p] /\ Older(p, r))}) = i - 1
  <2>1. ASSUME NEW r \in rows
        PROVE {p \in rows : p \in better[r] \/ (r \notin better[p] /\ Older(p, r))} =
              {p \in rows : more(p, r) \/ (~more(r, p) /\ Older(p, r))}
    BY <1>6
  <2>2. found[i] = CHOOSE r \in rows : Cardinality({p \in rows : more(p, r) \/ (~more(r, p) /\ Older(p, r))}) = i - 1
    BY <1>3, Zenon
  <2> QED BY <2>1, <2>2
<1>8. found = [i \in 1 .. Min({k, Cardinality(rows)}) |-> found[i]]
  <2> DEFINE pick(i) == CHOOSE r \in rows : Cardinality({p \in rows : more(p, r) \/ (~more(r, p) /\ Older(p, r))}) = i - 1
  <2>1. found = [i \in 1 .. Min({k, Cardinality(rows)}) |-> pick(i)]
    BY <1>3, Zenon
  <2> HIDE DEF pick
  <2> QED BY <2>1
<1>9. \A p, r \in rows : p \in better[r] => r \notin better[p]
  BY <1>5, <1>6
<1>10. \A p, r, t \in rows : p \in better[t] => p \in better[r] \/ r \in better[t]
  BY <1>4, <1>6
<1>11. IsFiniteSet(rows) /\ OnePlaceEach(rows) /\ \A r \in rows : r.source \in Nat /\ r.ordinal \in Nat
  BY <1>0
<1>12. ListOf(found, rows, k)
  BY <1>6, <1>7, <1>8, <1>9, <1>10, <1>11, BestIsAList
<1> QED BY <1>0, <1>2, <1>12

-----------------------------------------------------------------------------
(* What goes to the prompt.                                                 *)

\* What was kept before unit n, and n if it fits.
Adding(before, costs, cap, n) ==
  IF before.used + costs[n] <= cap
  THEN [units |-> Append(before.units, n), used |-> before.used + costs[n]] ELSE before

None == [units |-> <<>>, used |-> 0]

\* What was kept before each unit, and after the last.
KeptBy(f, costs, cap, m) == f = [n \in 0 .. m |-> IF n = 0 THEN None ELSE Adding(f[n - 1], costs, cap, n)]

\* Keeping goes through the units one by one.
LEMMA KeptOneByOne ==
  ASSUME NEW costs, Len(costs) \in Nat, NEW cap
  PROVE  \E kept : KeptBy(kept, costs, cap, Len(costs)) /\ KeptWhole(costs, cap) = kept[Len(costs)]
<1> DEFINE Kept(f, m) == f = [n \in 0 .. m |-> IF n = 0 THEN None ELSE Adding(f[n - 1], costs, cap, n)]
<1>1. PICK N \in Nat : N = Len(costs)
  OBVIOUS
<1>2. ASSUME NEW m \in 0 .. N PROVE \E f : Kept(f, m)
  <2> DEFINE bad == {l \in 0 .. N : ~ \E f : Kept(f, l)}
  <2> SUFFICES ASSUME bad # {} PROVE FALSE
    OBVIOUS
  <2>1. PICK l \in bad : \A j \in bad : l <= j
    <3>1. bad \in SUBSET Nat
      OBVIOUS
    <3> HIDE DEF bad
    <3> QED BY <3>1, LeastNumber
  <2>2. CASE l = 0
    <3>1. PICK f : f = [n \in 0 .. 0 |-> None]
      OBVIOUS
    <3>2. Kept(f, 0)
      BY <3>1
    <3> QED BY <2>1, <2>2, <3>2
  <2>3. CASE l # 0
    <3>0. l \in 0 .. N
      BY <2>1
    <3>1. l - 1 \in 0 .. N /\ l - 1 \notin bad
      <4> HIDE DEF bad
      <4> QED BY <2>1, <2>3, <3>0
    <3>2. PICK f : Kept(f, l - 1)
      BY <3>1
    <3>3. PICK g : g = [n \in 0 .. l |-> IF n = l THEN Adding(f[l - 1], costs, cap, l) ELSE f[n]]
      OBVIOUS
    <3>4. \A n \in 0 .. l - 1 : g[n] = f[n]
      BY <3>3, <2>1
    <3>5. ASSUME NEW n \in 0 .. l
          PROVE  g[n] = IF n = 0 THEN None ELSE Adding(g[n - 1], costs, cap, n)
      <4>1. CASE n = l
        BY <2>1, <2>3, <3>3, <3>4, <4>1
      <4>2. CASE n # l
        <5>1. n \in 0 .. l - 1 /\ g[n] = f[n] /\ (n # 0 => n - 1 \in 0 .. l - 1 /\ g[n - 1] = f[n - 1])
          BY <2>1, <3>4, <4>2
        <5>2. f[n] = IF n = 0 THEN None ELSE Adding(f[n - 1], costs, cap, n)
          BY <3>2, <5>1
        <5> QED BY <5>1, <5>2
      <4> QED BY <4>1, <4>2
    <3>6. Kept(g, l)
      BY <3>3, <3>5
    <3> QED BY <2>1, <3>6
  <2> QED BY <2>1, <2>2, <2>3
<1>3. PICK kept : kept = CHOOSE f : Kept(f, N)
  OBVIOUS
<1>4. Kept(kept, N)
  <2> HIDE DEF Kept
  <2>1. \E f : Kept(f, N)
    <3>1. N \in 0 .. N
      BY <1>1
    <3> QED BY <1>2, <3>1, Zenon
  <2> QED BY <1>3, <2>1
<1>5. KeptWhole(costs, cap) = kept[N]
  BY <1>1, <1>3 DEF KeptWhole, Adding, None
<1> QED BY <1>1, <1>4, <1>5 DEF KeptBy

\* The units kept fit, whatever they cost.
LEMMA KeptFits ==
  ASSUME NEW costs, Len(costs) \in Nat, \A i \in 1 .. Len(costs) : costs[i] \in Nat, NEW cap \in Nat
  PROVE  KeptWhole(costs, cap).used \in 0 .. cap
<1>1. PICK N \in Nat : N = Len(costs)
  OBVIOUS
<1>4. PICK kept : KeptBy(kept, costs, cap, N) /\ KeptWhole(costs, cap) = kept[N]
  BY <1>1, KeptOneByOne
<1>6. ASSUME NEW m \in 0 .. N PROVE kept[m].used \in 0 .. cap
  <2> DEFINE bad == {l \in 0 .. N : kept[l].used \notin 0 .. cap}
  <2> SUFFICES ASSUME bad # {} PROVE FALSE
    OBVIOUS
  <2>1. PICK l \in bad : \A j \in bad : l <= j
    <3>1. bad \in SUBSET Nat
      OBVIOUS
    <3> HIDE DEF bad
    <3> QED BY <3>1, LeastNumber
  <2>2. kept[l] = IF l = 0 THEN None ELSE Adding(kept[l - 1], costs, cap, l)
    BY <1>4, <2>1 DEF KeptBy
  <2>3. CASE l = 0
    BY <2>1, <2>2, <2>3 DEF None
  <2>4. CASE l # 0
    <3>1. l - 1 \in 0 .. N /\ l - 1 \notin bad /\ l \in 1 .. N
      BY <1>1, <2>1, <2>4
    <3>2. kept[l - 1].used \in 0 .. cap /\ costs[l] \in Nat
      BY <1>1, <3>1
    <3>3. kept[l].used \in 0 .. cap
      BY <2>2, <2>4, <3>2 DEF Adding
    <3> QED BY <2>1, <3>3
  <2> QED BY <2>3, <2>4
<1> QED BY <1>1, <1>4, <1>6

\* The prompt that evidence goes to holds nothing else, and no more of it than
\* its share.
LEMMA EvidenceFits ==
  ASSUME NEW costs, Len(costs) \in Nat, \A i \in 1 .. Len(costs) : costs[i] \in Nat, NEW total \in Nat
  PROVE  100 * Allocate(total, 0, [persona |-> 0, turns |-> <<>>, summary |-> 0, memories |-> <<>>,
                                   evidence |-> costs]).used <= 35 * total
<1> DEFINE want == [persona |-> 0, turns |-> <<>>, summary |-> 0, memories |-> <<>>, evidence |-> costs]
           room == Room(total, "evidence", total)
<1>1. room \in Nat /\ 100 * room <= 35 * total
  <2>1. PICK share \in Nat : share = (total * 35) \div 100 /\ 100 * share <= 35 * total
    OBVIOUS
  <2>2. CapTokens(total, "evidence") = share
    BY <2>1 DEF CapTokens, Caps
  <2>3. share <= total => Min({share, total}) = share
    BY <2>1 DEF Min
  <2>4. ~(share <= total) => Min({share, total}) = total
    BY <2>1 DEF Min
  <2>5. room = Min({share, total})
    BY <2>2 DEF Room
  <2> HIDE DEF room
  <2> QED BY <2>1, <2>3, <2>4, <2>5
<1>2. PICK kept : kept = KeptWhole(costs, room)
  OBVIOUS
<1>3. kept.used \in 0 .. room
  BY <1>1, <1>2, KeptFits
<1>4. ASSUME NEW cap PROVE KeptWhole(<<>>, cap).used = 0
  <2>1. PICK list : KeptBy(list, <<>>, cap, 0) /\ KeptWhole(<<>>, cap) = list[0]
    BY KeptOneByOne
  <2> QED BY <2>1 DEF KeptBy, None
<1>5. Reverse(<<>>) = <<>>
  BY DEF Reverse
<1>6. Allocate(total, 0, want).used = kept.used
  BY <1>1, <1>2, <1>3, <1>4, <1>5 DEF Allocate, KeptOrNot
<1> QED BY <1>1, <1>3, <1>6

\* The tokens of what is found.
LEMMA SnippetsCost ==
  ASSUME NEW chars \in Nat PROVE SnippetCost(chars) \in Nat
<1>1. chars <= 400 => Min({chars, 400}) = chars
  BY DEF Min
<1>2. ~(chars <= 400) => Min({chars, 400}) = 400
  BY DEF Min
<1>3. PICK n \in Nat : n = Min({chars, SnippetChars})
  BY <1>1, <1>2 DEF SnippetChars
<1>4. EstimateTokens(n) \in Nat
  BY DEF EstimateTokens, CharsPerToken
<1> QED BY <1>3, <1>4 DEF SnippetCost, CitationOverhead

-----------------------------------------------------------------------------
(* How many passages are asked for.                                         *)

\* The first rule that applies is one of them.
LEMMA FirstRule ==
  ASSUME NEW rules, Len(rules) = 12, rules[12][1] = TRUE
  PROVE  SelectInSeq(rules, LAMBDA rule : rule[1]) \in 1 .. 12
<1> DEFINE true == {i \in 1 .. Len(rules) : rules[i][1]}
<1>1. true \in SUBSET Nat /\ 12 \in true
  OBVIOUS
<1>2. PICK m \in true : \A i \in true : m <= i
  <2> HIDE DEF true
  <2> QED BY <1>1, LeastNumber
<1>3. Min(true) \in true
  BY <1>2 DEF Min
<1>4. Min(true) \in 1 .. 12
  BY <1>3
<1>5. SelectInSeq(rules, LAMBDA rule : rule[1]) = IF true # {} THEN Min(true) ELSE 0
  BY DEF SelectInSeq
<1> HIDE DEF true
<1> QED BY <1>1, <1>4, <1>5

LEMMA AskedFor ==
  ASSUME NEW ctx PROVE RagDecide(ctx).topK \in Nat
<1> DEFINE asks(sign) == sign \in ctx.query.signs
           rules == <<
             <<~ctx.hasCorpus,                  Skipped("NO_CORPUS_AVAILABLE")>>,
             <<~ctx.permits,                    Skipped("BUDGET_FORBIDS")>>,
             <<ctx.query.chars < MinQueryChars, Skipped("TOO_SHORT_TO_TARGET")>>,
             <<asks("source"),                  Retrieved("ASKS_FOR_SOURCE", 5)>>,
             <<asks("document"),                Retrieved("REFERS_TO_UPLOAD", 6)>>,
             <<asks("tutor"),                   Retrieved("TUTOR_SPECIFIC", 4)>>,
             <<asks("course"),                  Retrieved("COURSE_OR_SYLLABUS", 5)>>,
             <<ctx.highStakes,                  Retrieved("TEST_GENERATION", 8)>>,
             <<ctx.followUp,                    Skipped("FOLLOW_UP_USES_EXISTING_CONTEXT")>>,
             <<ctx.activeDocument,              Retrieved("ACTIVE_DOCUMENT_CONTEXT", 4)>>,
             <<asks("computation"),             Skipped("SELF_CONTAINED_COMPUTATION")>>,
             <<TRUE,                            Skipped("GENERAL_KNOWLEDGE")>> >>
<1>1. RagDecide(ctx) = rules[SelectInSeq(rules, LAMBDA rule : rule[1])][2]
  BY DEF RagDecide
<1>2. Len(rules) = 12 /\ rules[12][1] = TRUE
  OBVIOUS
<1>3. \A i \in 1 .. 12 : rules[i][2].topK \in Nat
  BY DEF Retrieved, Skipped, Verdict
<1> HIDE DEF rules
<1>4. PICK i \in 1 .. 12 : i = SelectInSeq(rules, LAMBDA rule : rule[1])
  BY <1>2, FirstRule
<1> QED BY <1>1, <1>3, <1>4

LEMMA AskedForWithRoom ==
  ASSUME NEW k \in Nat, NEW available \in Int PROVE DynamicTopK(k, available) \in Nat
<1>1. CASE available <= 0
  BY <1>1 DEF DynamicTopK
<1>2. CASE ~(available <= 0)
  <2>1. PICK n \in Nat : n = available \div AvgChunkTokens
    BY <1>2 DEF AvgChunkTokens
  <2>2. k <= n => Min({k, n}) = k
    BY DEF Min
  <2>3. ~(k <= n) => Min({k, n}) = n
    BY DEF Min
  <2> QED BY <1>2, <2>1, <2>2, <2>3 DEF DynamicTopK
<1> QED BY <1>1, <1>2

-----------------------------------------------------------------------------
(* What a scope sees now.                                                   *)

LEMMA GrantsAreRights ==
  ASSUME NEW scope, NEW row, VisibleTo(scope, row) PROVE MayRead(scope, row)
  BY DEF VisibleTo, MayRead

LEMMA RowsAreKnown ==
  ASSUME EvidenceInv, NEW scope
  PROVE  /\ IsFiniteSet(Rows(scope)) /\ OnePlaceEach(Rows(scope))
         /\ \A r \in Rows(scope) :
              /\ OfPassage(r) /\ MayRead(scope, r)
              /\ r.source \in DOMAIN library /\ r.source \in 1 .. commits
              /\ r \in library[r.source].chunks /\ library[r.source].deleted = Live
<1> DEFINE live  == {i \in DOMAIN library : library[i].deleted = Live}
           pages == {library[i].chunks : i \in live}
<1>1. ASSUME NEW r \in Rows(scope)
      PROVE  /\ OfPassage(r) /\ MayRead(scope, r)
             /\ r.source \in DOMAIN library /\ r.source \in 1 .. commits
             /\ r \in library[r.source].chunks /\ library[r.source].deleted = Live
  <2>1. PICK i \in DOMAIN library : library[i].deleted = Live /\ r \in library[i].chunks /\ VisibleTo(scope, r)
    BY DEF Rows
  <2>2. ChunksAreOwn(i) /\ i \in 1 .. commits
    BY DEF EvidenceInv, LibraryInv
  <2>3. r.source = i /\ OfPassage(r)
    BY <2>1, <2>2 DEF ChunksAreOwn
  <2> QED BY <2>1, <2>2, <2>3, GrantsAreRights
<1>2. OnePlaceEach(Rows(scope))
  <2> SUFFICES ASSUME NEW a \in Rows(scope), NEW b \in Rows(scope), a.source = b.source, a.ordinal = b.ordinal
               PROVE  a = b
    BY DEF OnePlaceEach
  <2>1. a.source \in DOMAIN library /\ a \in library[a.source].chunks /\ b \in library[a.source].chunks
    BY <1>1
  <2>2. OnePlaceEach(library[a.source].chunks)
    BY <2>1 DEF EvidenceInv, ChunksAreOwn
  <2> QED BY <2>1, <2>2 DEF OnePlaceEach
<1>3. IsFiniteSet(Rows(scope))
  <2>1. IsFiniteSet(live)
    <3>1. live \in SUBSET (1 .. commits) /\ commits \in Nat
      BY DEF EvidenceInv, LibraryInv
    <3>2. IsFiniteSet(1 .. commits)
      BY <3>1, FS_Interval
    <3> QED BY <3>1, <3>2, FS_Subset
  <2>2. IsFiniteSet(pages)
    <3>1. [i \in live |-> library[i].chunks] \in Surjection(live, pages)
      BY DEF Surjection
    <3> HIDE DEF live, pages
    <3> QED BY <2>1, <3>1, FS_Surjection
  <2>3. \A T \in pages : IsFiniteSet(T)
    BY DEF EvidenceInv, ChunksAreOwn
  <2>4. IsFiniteSet(UNION pages)
    <3> HIDE DEF pages
    <3> QED BY <2>2, <2>3, FS_UNION
  <2>5. Rows(scope) \in SUBSET UNION pages
    BY DEF Rows
  <2> HIDE DEF pages
  <2> QED BY <2>4, <2>5, FS_Subset
<1> QED BY <1>1, <1>2, <1>3

\* What is found now may be shown to who asks now, or asked before.
LEMMA FoundIsShown ==
  ASSUME NEW rows, OnePlaceEach(rows), NEW q, NEW began, \A r \in rows : IsShown(r, q, began),
         NEW found, NEW k, ListOf(found, rows, k)
  PROVE  Shown(found, q, began)
<1>1. \A i \in DOMAIN found : found[i] \in rows
  BY DEF ListOf
<1>2. ASSUME NEW i \in DOMAIN found, NEW j \in DOMAIN found,
             found[i].source = found[j].source, found[i].ordinal = found[j].ordinal
      PROVE  i = j
  BY <1>1, <1>2 DEF OnePlaceEach, ListOf
<1> QED BY <1>1, <1>2 DEF Shown, ListOf

LEMMA RowsAreShown ==
  ASSUME EvidenceInv, NEW q, NEW began
  PROVE  \A r \in Rows(q.scope) : IsShown(r, q, began)
<1>1. PICK scope : scope = q.scope
  OBVIOUS
<1> QED BY <1>1, RowsAreKnown DEF IsShown

\* What waits for an answer waits for the rows of those it will find too.
LEMMA FusedAreShown ==
  ASSUME EvidenceInv, NEW q \in Questions, NEW model, NEW k \in Nat, NEW began,
         NEW lexical, Shown(lexical, q, began)
  PROVE  LET near == SimilaritySearch(Rows(q.scope), q.query, model, k)
             fused == ReciprocalRankFusion(near, lexical, k)
         IN  Shown(fused, q, began) /\ Len(fused) <= k
<1>1. PICK rows : rows = Rows(q.scope)
  OBVIOUS
<1>2. /\ IsFiniteSet(rows) /\ OnePlaceEach(rows)
      /\ \A r \in rows : /\ OfPassage(r) /\ r.source \in DOMAIN library /\ r \in library[r.source].chunks
  BY <1>1, RowsAreKnown
<1>3. \A r \in rows : IsShown(r, q, began)
  BY <1>1, RowsAreShown
<1>4. PICK near : near = SimilaritySearch(rows, q.query, model, k)
  OBVIOUS
<1>5. ListOf(near, rows, k)
  BY <1>2, <1>4, ClosenessFinds
<1>6. ASSUME NEW list, NEW n \in Nat, list = [i \in 1 .. n |-> list[i]]
      PROVE  Len(list) \in Nat /\ IsFiniteSet(ToSet(list))
  <2>1. list \in [1 .. n -> ToSet(list)]
    BY <1>6 DEF ToSet
  <2>2. [1 .. n -> ToSet(list)] \in {[1 .. m -> ToSet(list)] : m \in Nat}
    BY <1>6
  <2>3. list \in Seq(ToSet(list))
    <3>1. Seq(ToSet(list)) = UNION {[1 .. m -> ToSet(list)] : m \in Nat}
      BY SeqDef, Zenon
    <3> QED BY <2>1, <2>2, <3>1, Zenon
  <2>4. list \in Surjection(1 .. n, ToSet(list))
    BY <1>6, <2>1 DEF Surjection, ToSet
  <2>5. IsFiniteSet(1 .. n)
    BY FS_Interval
  <2> QED BY <2>3, <2>4, <2>5, LenProperties, FS_Surjection
<1>7. Len(near) \in Nat /\ IsFiniteSet(ToSet(near)) /\ Len(lexical) \in Nat /\ IsFiniteSet(ToSet(lexical))
  BY <1>5, <1>6 DEF ListOf, Shown
<1>8. PICK all : all = ToSet(near) \cup ToSet(lexical)
  OBVIOUS
<1>9. IsFiniteSet(all)
  BY <1>7, <1>8, FS_Union
<1>10. /\ \A r \in ToSet(near) : r \in rows
       /\ \A r \in ToSet(lexical) : IsShown(r, q, began)
       /\ \A a, b \in ToSet(lexical) : a.source = b.source /\ a.ordinal = b.ordinal => a = b
  BY <1>5 DEF ListOf, Shown, ToSet
<1>11. \A r \in all : IsShown(r, q, began)
  BY <1>3, <1>8, <1>10
<1>12. ASSUME NEW a \in rows, NEW b \in ToSet(lexical), a.source = b.source, a.ordinal = b.ordinal
       PROVE  a = b
  <2>1. a.source \in DOMAIN library /\ a \in library[a.source].chunks
    BY <1>2
  <2>2. b \in library[a.source].chunks
    BY <1>10, <1>12, <2>1 DEF IsShown
  <2>3. OnePlaceEach(library[a.source].chunks)
    BY <2>1 DEF EvidenceInv, ChunksAreOwn
  <2> QED BY <1>12, <2>1, <2>2, <2>3 DEF OnePlaceEach
<1>13. OnePlaceEach(all)
  <2> SUFFICES ASSUME NEW a \in all, NEW b \in all, a.source = b.source, a.ordinal = b.ordinal PROVE a = b
    BY DEF OnePlaceEach
  <2> QED BY <1>2, <1>8, <1>10, <1>12 DEF OnePlaceEach
<1>14. \A r \in all : r.source \in Nat /\ r.ordinal \in Nat
  BY <1>11, RowsAreScored DEF IsShown
<1>15. PICK fused : fused = ReciprocalRankFusion(near, lexical, k)
  OBVIOUS
<1>16. ListOf(fused, all, k)
  BY <1>7, <1>8, <1>9, <1>13, <1>14, <1>15, FusionFinds
<1>17. Shown(fused, q, began) /\ Len(fused) <= k
  BY <1>11, <1>13, <1>16, FoundIsShown DEF ListOf
<1> QED BY <1>1, <1>4, <1>15, <1>17

-----------------------------------------------------------------------------
(* The steps of the library.                                                *)

\* A step that leaves the sources there were as they are, or deletes or purges
\* them now, keeps what was shown.
SourcesStay ==
  /\ commits' \in Nat /\ commits <= commits'
  /\ \A i \in DOMAIN library' : i \in 1 .. commits =>
       /\ i \in DOMAIN library /\ library'[i].chunks = library[i].chunks
       /\ library'[i].deleted = library[i].deleted \/ library'[i].deleted > commits

LEMMA ShownStays ==
  ASSUME commits \in Nat, SourcesStay, NEW found, NEW q, NEW began \in Nat, began <= commits, Shown(found, q, began),
         \A i \in DOMAIN library' : library'[i].deleted \in Nat
  PROVE  Shown(found, q, began)'
<1>1. ASSUME NEW row, IsShown(row, q, began) PROVE IsShown(row, q, began)'
  <2>1. row.source \in 1 .. commits /\ row.source \in 1 .. commits'
    BY <1>1 DEF IsShown, SourcesStay
  <2>2. ASSUME row.source \in DOMAIN library'
        PROVE  /\ row \in library'[row.source].chunks
               /\ library'[row.source].deleted = Live \/ library'[row.source].deleted > began
    <3>1. /\ row.source \in DOMAIN library
          /\ library'[row.source].chunks = library[row.source].chunks
          /\ library'[row.source].deleted = library[row.source].deleted \/ library'[row.source].deleted > commits
      BY <2>1, <2>2 DEF SourcesStay
    <3>2. row \in library[row.source].chunks
          /\ (library[row.source].deleted = Live \/ library[row.source].deleted > began)
      BY <1>1, <3>1 DEF IsShown
    <3>3. library'[row.source].deleted \in Nat
      BY <2>2
    <3> QED BY <3>1, <3>2, <3>3
  <2> QED BY <1>1, <2>1, <2>2 DEF IsShown, MayRead, OfPassage, Passages
<1> QED BY <1>1 DEF Shown

\* A search that waits is as sound when a commit of someone else has passed.
LEMMA SearchStays ==
  ASSUME commits \in Nat, SourcesStay, NEW job, SearchIsSound(job),
         \A i \in DOMAIN library' : library'[i].deleted \in Nat
  PROVE  SearchIsSound(job)'
<1> SUFFICES ASSUME job.pc = "search" PROVE SearchIsSound(job)'
  BY DEF SearchIsSound
<1>1. /\ job.question \in Questions /\ job.topK \in Nat /\ job.topK > 0
      /\ job.began \in Nat /\ job.began <= commits
      /\ Shown(job.lexical, job.question, job.began) /\ ~WordsSuffice(job.lexical)
  BY DEF SearchIsSound
<1>2. PICK found, q, began : found = job.lexical /\ q = job.question /\ began = job.began
  OBVIOUS
<1>3. Shown(found, q, began)'
  BY <1>1, <1>2, ShownStays
<1>4. Shown(job.lexical, job.question, job.began)'
  BY <1>2, <1>3
<1>5. job.began <= commits'
  BY <1>1 DEF SourcesStay
<1> QED BY <1>1, <1>4, <1>5 DEF SearchIsSound

LEMMA EvidenceStays ==
  ASSUME EvidenceInv, LibraryInv', SourcesStay, \A i \in DOMAIN library' : ChunksAreOwn(i)',
         \A s \in Readers : \A job \in reading'[s] : SearchIsSound(job),
         told' = told \/ told'.kind # "evidence"
  PROVE  EvidenceInv'
<1>1. commits \in Nat /\ \A i \in DOMAIN library' : library'[i].deleted \in Nat
  BY DEF EvidenceInv, LibraryInv, IsWhole
<1>2. ASSUME NEW s \in Readers, NEW job \in reading'[s] PROVE SearchIsSound(job)'
  BY <1>1, SearchStays
<1>3. AnswerIsSound'
  <2> SUFFICES ASSUME told' = told, told.kind = "evidence" PROVE AnswerIsSound'
    BY DEF AnswerIsSound
  <2>1. PICK given : given = told.about
    OBVIOUS
  <2>2. /\ given.question \in Questions /\ given.began \in Nat /\ given.began <= commits
        /\ Shown(given.found, given.question, given.began)
        /\ Len(given.found) <= given.topK
        /\ 100 * given.prompt.used <= 35 * Window
        /\ given.topK = 0 => given.found = <<>> /\ given.calls = 0
        /\ given.words >= KeywordSufficientHits => given.calls = 0
    BY <2>1 DEF EvidenceInv, AnswerIsSound
  <2>3. PICK found, q, began : found = given.found /\ q = given.question /\ began = given.began
    OBVIOUS
  <2>4. Shown(found, q, began)'
    BY <1>1, <2>2, <2>3, ShownStays
  <2>5. Shown(given.found, given.question, given.began)'
    BY <2>3, <2>4
  <2>6. given.began <= commits'
    BY <1>1, <2>2 DEF SourcesStay
  <2> QED BY <2>1, <2>2, <2>5, <2>6 DEF AnswerIsSound
<1> QED BY <1>2, <1>3 DEF EvidenceInv

\* The library stays as it is.
LEMMA QuietIsSafe ==
  ASSUME EvidenceInv, UNCHANGED <<library, commits>>
  PROVE  SourcesStay /\ \A i \in DOMAIN library' : ChunksAreOwn(i)'
  BY DEF EvidenceInv, LibraryInv, SourcesStay, ChunksAreOwn, OnePlaceEach, OfPassage, Passages

LEMMA SearchesWait ==
  ASSUME EvidenceInv, UNCHANGED <<library, commits>>, NEW job, SearchIsSound(job)
  PROVE  SearchIsSound(job)'
<1>1. commits \in Nat /\ \A i \in DOMAIN library' : library'[i].deleted \in Nat
  BY DEF EvidenceInv, LibraryInv, IsWhole
<1> QED BY <1>1, QuietIsSafe, SearchStays

\* A new source has rows of its own.
LEMMA ChunkedAreOwn ==
  ASSUME NEW id \in Nat, NEW r \in Requests, NEW chunks, chunks = Passages[r.document]
  PROVE  /\ IsFiniteSet(Chunked(id, r, chunks)) /\ OnePlaceEach(Chunked(id, r, chunks))
         /\ \A chunk \in Chunked(id, r, chunks) : chunk.source = id /\ OfPassage(chunk)
<1> DEFINE row(i) == [source |-> id, ordinal |-> i, passage |-> chunks[i].passage, page |-> chunks[i].page,
                      chars |-> chunks[i].chars, section |-> chunks[i].section, model |-> embedder,
                      visibility |-> r.visibility, subject |-> r.subject, tutor |-> r.tutor,
                      course |-> r.course, conversation |-> r.conversation]
<1>1. Chunked(id, r, chunks) = {row(i) : i \in DOMAIN chunks}
  BY DEF Chunked
<1>2. \A i : /\ row(i).source = id /\ row(i).ordinal = i
             /\ row(i).passage = chunks[i].passage /\ row(i).chars = chunks[i].chars
  OBVIOUS
<1> HIDE DEF row
<1>3. r.document \in DOMAIN Documents
  BY RequestsAssumption
<1>4. IsFiniteSet(DOMAIN chunks)
  BY <1>3, PassagesAssumption
<1>5. IsFiniteSet(Chunked(id, r, chunks))
  <2>1. PICK all : all = {row(i) : i \in DOMAIN chunks}
    OBVIOUS
  <2>2. [i \in DOMAIN chunks |-> row(i)] \in Surjection(DOMAIN chunks, all)
    BY <2>1 DEF Surjection
  <2> QED BY <1>1, <1>4, <2>1, <2>2, FS_Surjection
<1>6. OnePlaceEach(Chunked(id, r, chunks))
  BY <1>1, <1>2 DEF OnePlaceEach
<1>7. ASSUME NEW i \in DOMAIN chunks PROVE OfPassage(row(i))
  BY <1>2, <1>3 DEF OfPassage
<1> QED BY <1>1, <1>2, <1>5, <1>6, <1>7

LEMMA IngestionKeepsEvidence ==
  ASSUME EvidenceInv, LibraryInv', NEW s \in Readers, NEW r \in Requests, IngestReads(s, r)
  PROVE  EvidenceInv'
<1>1. UNCHANGED <<library, commits>> /\ told'.kind # "evidence"
  BY DEF IngestReads, Ingested, Replied, Silent
<1>2. \/ UNCHANGED reading
      \/ \E chunks : reading' = [reading EXCEPT ![s] = {[pc |-> "embed", request |-> r, fresh |-> {}, chunks |-> chunks]}]
  BY DEF IngestReads
<1>3. ASSUME NEW t \in Readers, NEW job \in reading'[t] PROVE SearchIsSound(job)
  <2>1. CASE UNCHANGED reading
    BY <1>3, <2>1 DEF EvidenceInv
  <2>2. ASSUME NEW chunks, NEW new, new = [pc |-> "embed", request |-> r, fresh |-> {}, chunks |-> chunks],
               reading' = [reading EXCEPT ![s] = {new}]
        PROVE  SearchIsSound(job)
    <3>1. SearchIsSound(new)
      BY <2>2 DEF SearchIsSound
    <3> QED BY <1>3, <2>2, <3>1 DEF EvidenceInv, LibraryInv
  <2> QED BY <1>2, <2>1, <2>2
<1> QED BY <1>1, <1>3, QuietIsSafe, EvidenceStays

LEMMA EmbeddingKeepsEvidence ==
  ASSUME EvidenceInv, LibraryInv', NEW s \in Readers, EmbedWithCache(s)
  PROVE  EvidenceInv'
<1>1. UNCHANGED <<library, commits>> /\ told'.kind # "evidence"
  BY DEF EmbedWithCache, Replied, Silent
<1>2. PICK job \in reading[s] :
        /\ job.pc = "embed"
        /\ \/ reading' = [reading EXCEPT ![s] = {[job EXCEPT !.pc = "commit", !.fresh = Uncached(job.chunks)]}]
           \/ reading' = [reading EXCEPT ![s] = {}]
  BY DEF EmbedWithCache
<1>3. PICK next : next = [job EXCEPT !.pc = "commit", !.fresh = Uncached(job.chunks)]
  OBVIOUS
<1>4. next.pc = "commit"
  <2>1. "pc" \in DOMAIN job
    BY <1>2 DEF EvidenceInv, LibraryInv, JobIsWhole, IsIngestion, JobShape
  <2> QED BY <1>3, <2>1
<1>5. reading' = [reading EXCEPT ![s] = {next}] \/ reading' = [reading EXCEPT ![s] = {}]
  BY <1>2, <1>3
<1>6. \A t \in Readers : \A one \in reading'[t] : SearchIsSound(one)
  BY <1>4, <1>5 DEF EvidenceInv, LibraryInv, SearchIsSound
<1> QED BY <1>1, <1>6, QuietIsSafe, EvidenceStays

LEMMA CommittingKeepsEvidence ==
  ASSUME EvidenceInv, LibraryInv', NEW s \in Readers, IngestCommits(s)
  PROVE  EvidenceInv'
<1>0. PICK job \in reading[s] : \E id, r : CommitOf(s, job, id, r)
  BY DEF IngestCommits, NewSource, CommitOf
<1>1. PICK id, r : CommitOf(s, job, id, r)
  BY <1>0
<1>2. r \in Requests /\ job.chunks = Passages[r.document]
  BY <1>1 DEF EvidenceInv, LibraryInv, JobIsWhole, IsIngestion, CommitOf
<1>3. (\A t \in Readers : \A one \in reading'[t] : SearchIsSound(one)) /\ told'.kind # "evidence"
  BY <1>1 DEF CommitOf, EvidenceInv, LibraryInv, Ingested, Replied
<1>4. CASE Clashes(r)
  BY <1>1, <1>3, <1>4, QuietIsSafe, EvidenceStays DEF CommitOf
<1>5. CASE ~Clashes(r)
  <2>1. PICK new : new = NewSource(r, id, job.chunks)
    OBVIOUS
  <2>2. commits \in Nat /\ id = commits + 1 /\ commits' = id /\ id \notin DOMAIN library
    BY <1>1, <1>5 DEF EvidenceInv, LibraryInv, Commit, CommitOf
  <2>3. /\ DOMAIN library' = DOMAIN library \cup {id} /\ library'[id] = new
        /\ \A i \in DOMAIN library : library'[i] = library[i]
    BY <1>1, <1>5, <2>1, <2>2 DEF CommitOf
  <2>4. SourcesStay
    BY <2>2, <2>3 DEF SourcesStay
  <2>5. new.chunks = Chunked(id, r, job.chunks)
    BY <2>1 DEF NewSource
  <2>6. /\ IsFiniteSet(new.chunks) /\ OnePlaceEach(new.chunks)
        /\ \A chunk \in new.chunks : chunk.source = id /\ OfPassage(chunk)
    BY <1>2, <2>2, <2>5, ChunkedAreOwn
  <2>7. ASSUME NEW i \in DOMAIN library' PROVE ChunksAreOwn(i)'
    <3>1. CASE i = id
      BY <2>3, <2>6, <3>1 DEF ChunksAreOwn, OnePlaceEach, OfPassage, Passages
    <3>2. CASE i # id
      BY <2>3, <3>2 DEF EvidenceInv, ChunksAreOwn, OnePlaceEach, OfPassage, Passages
    <3> QED BY <3>1, <3>2
  <2> QED BY <1>3, <2>4, <2>7, EvidenceStays
<1> QED BY <1>4, <1>5

LEMMA DeletingKeepsEvidence ==
  ASSUME EvidenceInv, LibraryInv', NEW id, SoftDeleteSource(id)
  PROVE  EvidenceInv'
<1>1. id \in DOMAIN library /\ commits \in Nat /\ commits' = commits + 1 /\ UNCHANGED <<reading, told>>
  BY DEF EvidenceInv, LibraryInv, SoftDeleteSource, Commit
<1>2. PICK gone : gone = [library[id] EXCEPT !.deleted = commits + 1, !.status = "DELETED"]
  OBVIOUS
<1>3. library' = [library EXCEPT ![id] = gone]
  BY <1>1, <1>2 DEF SoftDeleteSource
<1>4. /\ DOMAIN library' = DOMAIN library /\ library'[id] = gone
      /\ \A i \in DOMAIN library \ {id} : library'[i] = library[i]
  BY <1>1, <1>3
<1>5. DOMAIN library[id] = SourceShape
  BY <1>1 DEF EvidenceInv, LibraryInv, IsWhole
<1>6. gone.deleted = commits + 1 /\ gone.chunks = library[id].chunks
  BY <1>2, <1>5 DEF SourceShape
<1>7. SourcesStay
  BY <1>1, <1>4, <1>6 DEF SourcesStay
<1>8. \A i \in DOMAIN library' : library'[i].chunks = library[i].chunks
  BY <1>4, <1>6
<1>9. \A i \in DOMAIN library' : ChunksAreOwn(i)'
  BY <1>4, <1>8 DEF EvidenceInv, ChunksAreOwn, OnePlaceEach, OfPassage, Passages
<1> QED BY <1>1, <1>7, <1>9, EvidenceStays DEF EvidenceInv

LEMMA PurgingKeepsEvidence ==
  ASSUME EvidenceInv, LibraryInv', NEW id, PurgeSource(id)
  PROVE  EvidenceInv'
<1>1. /\ commits \in Nat /\ commits' = commits + 1 /\ UNCHANGED <<reading, told>>
      /\ DOMAIN library' = DOMAIN library \ {id} /\ \A i \in DOMAIN library' : library'[i] = library[i]
  BY DEF EvidenceInv, LibraryInv, PurgeSource, Commit
<1>2. SourcesStay
  BY <1>1 DEF SourcesStay
<1>3. \A i \in DOMAIN library' : ChunksAreOwn(i)'
  BY <1>1 DEF EvidenceInv, ChunksAreOwn, OnePlaceEach, OfPassage, Passages
<1> QED BY <1>1, <1>2, <1>3, EvidenceStays DEF EvidenceInv

LEMMA RedeployKeepsEvidence ==
  ASSUME EvidenceInv, LibraryInv', Redeploy
  PROVE  EvidenceInv'
<1>1. /\ commits \in Nat /\ commits' = commits + 1 /\ UNCHANGED library
      /\ reading' = [s \in Readers |-> {}] /\ told' = Silent
  BY DEF EvidenceInv, LibraryInv, Redeploy, Commit
<1>2. SourcesStay
  BY <1>1 DEF SourcesStay
<1>3. \A i \in DOMAIN library' : ChunksAreOwn(i)'
  BY <1>1 DEF EvidenceInv, ChunksAreOwn, OnePlaceEach, OfPassage, Passages
<1> QED BY <1>1, <1>2, <1>3, EvidenceStays DEF Silent, Replied

\* What is told of what was found.
LEMMA EvidenceIsSound ==
  ASSUME EvidenceInv, NEW q \in Questions, NEW k \in Nat, NEW began \in Nat, began <= commits, NEW paid, NEW words,
         NEW found, Shown(found, q, began), Len(found) <= k, k = 0 => found = <<>> /\ paid = 0,
         words >= KeywordSufficientHits => paid = 0, told' = Evidence(q, k, began, words, paid, found), UNCHANGED <<library, commits>>
  PROVE  AnswerIsSound'
<1> DEFINE costs == [i \in DOMAIN found |-> SnippetCost(found[i].chars)]
<1>1. PICK n \in Nat : found = [i \in 1 .. n |-> found[i]]
  BY DEF Shown
<1>2. Len(costs) \in Nat /\ \A i \in 1 .. Len(costs) : costs[i] \in Nat
  <2>1. \A i \in 1 .. n : costs[i] \in Nat
    BY <1>1, RowsAreScored, SnippetsCost DEF Shown, IsShown
  <2>2. costs \in [1 .. n -> Nat]
    BY <1>1, <2>1
  <2> HIDE DEF costs
  <2>3. costs \in Seq(Nat)
    BY <2>2
  <2> QED BY <2>3
<1>3. PICK prompt : prompt = Allocate(Window, 0, [persona |-> 0, turns |-> <<>>, summary |-> 0, memories |-> <<>>,
                                                  evidence |-> costs])
  OBVIOUS
<1>4. 100 * prompt.used <= 35 * Window
  BY <1>2, <1>3, EvidenceFits, KnowledgeAssumption
<1>5. PICK given : given = [question |-> q, topK |-> k, began |-> began, words |-> words, calls |-> paid,
                            found |-> found, prompt |-> prompt]
  OBVIOUS
<1>6. told' = [kind |-> "evidence", about |-> given]
  BY <1>3, <1>5 DEF Evidence, Replied
<1>7. told'.about = given
  BY <1>6
<1>8. /\ given.question = q /\ given.topK = k /\ given.began = began /\ given.calls = paid
      /\ given.words = words /\ given.found = found /\ given.prompt = prompt
  BY <1>5
<1>9. commits' = commits /\ commits \in Nat /\ \A i \in DOMAIN library' : library'[i].deleted \in Nat
  BY DEF EvidenceInv, LibraryInv, IsWhole
<1>10. Shown(found, q, began)'
  BY <1>9, QuietIsSafe, ShownStays
<1> QED BY <1>4, <1>7, <1>8, <1>9, <1>10 DEF AnswerIsSound

LEMMA SearchingKeepsEvidence ==
  ASSUME EvidenceInv, LibraryInv', NEW s \in Readers, Search(s)
  PROVE  EvidenceInv'
<1>1. PICK job \in reading[s] :
        /\ job.pc = "search"
        /\ \E paid : told' = Evidence(job.question, job.topK, job.began, Len(job.lexical), paid,
                                ReciprocalRankFusion(
                                  SimilaritySearch(Rows(job.question.scope), job.question.query, embedder, job.topK),
                                  job.lexical, job.topK))
  BY DEF Search
<1>2. UNCHANGED <<library, commits>> /\ reading' = [reading EXCEPT ![s] = {}]
  BY DEF Search
<1>3. PICK q, k, began, lexical :
        q = job.question /\ k = job.topK /\ began = job.began /\ lexical = job.lexical
  OBVIOUS
<1>4. /\ q \in Questions /\ k \in Nat /\ k > 0 /\ began \in Nat /\ began <= commits
      /\ Shown(lexical, q, began) /\ ~(Len(lexical) >= KeywordSufficientHits)
  BY <1>1, <1>3 DEF EvidenceInv, SearchIsSound, WordsSuffice
<1>5. PICK fused : fused = ReciprocalRankFusion(SimilaritySearch(Rows(q.scope), q.query, embedder, k), lexical, k)
  OBVIOUS
<1>6. Shown(fused, q, began) /\ Len(fused) <= k
  BY <1>4, <1>5, FusedAreShown
<1>7. PICK paid : told' = Evidence(q, k, began, Len(lexical), paid, fused)
  BY <1>1, <1>3, <1>5
<1>8. AnswerIsSound'
  BY <1>2, <1>4, <1>6, <1>7, EvidenceIsSound
<1>9. \A t \in Readers : \A one \in reading'[t] : SearchIsSound(one)'
  <2>1. ASSUME NEW t \in Readers, NEW one \in reading'[t] PROVE SearchIsSound(one)
    BY <1>2 DEF EvidenceInv, LibraryInv
  <2> QED BY <1>2, <2>1, SearchesWait
<1> QED BY <1>2, <1>8, <1>9, QuietIsSafe DEF EvidenceInv

LEMMA RetrievingKeepsEvidence ==
  ASSUME EvidenceInv, LibraryInv', NEW s \in Readers, NEW q \in Questions, DecideAndRetrieve(s, q)
  PROVE  EvidenceInv'
<1>1. UNCHANGED <<library, commits>>
  BY DEF DecideAndRetrieve
<1>2. PICK rows : rows = Rows(q.scope)
  OBVIOUS
<1>3. PICK verdict, k, lexical :
        /\ verdict.topK \in Nat
        /\ k = DynamicTopK(verdict.topK, q.available)
        /\ lexical = KeywordSearch(rows, q.query, k)
        /\ \/ /\ told' = Evidence(q, k, commits, Len(lexical), 0, IF verdict.retrieve /\ k > 0 THEN lexical ELSE <<>>)
              /\ UNCHANGED reading
           \/ /\ ~(~verdict.retrieve \/ k <= 0 \/ WordsSuffice(lexical))
              /\ reading' = [reading EXCEPT ![s] = {[pc |-> "search", question |-> q, topK |-> k, lexical |-> lexical,
                                                     began |-> commits]}]
              /\ told' = Silent
  BY <1>2, AskedFor DEF DecideAndRetrieve
<1>4. k \in Nat
  BY <1>3, AskedForWithRoom, QuestionsAssumption
<1>5. ListOf(lexical, rows, k)
  BY <1>2, <1>3, <1>4, RowsAreKnown, KeywordsFind
<1>6. OnePlaceEach(rows) /\ \A r \in rows : IsShown(r, q, commits)
  BY <1>2, RowsAreKnown, RowsAreShown
<1>7. Shown(lexical, q, commits) /\ Len(lexical) <= k
  BY <1>5, <1>6, FoundIsShown DEF ListOf
<1>8. commits \in Nat
  BY DEF EvidenceInv, LibraryInv
<1>9. CASE /\ told' = Evidence(q, k, commits, Len(lexical), 0, IF verdict.retrieve /\ k > 0 THEN lexical ELSE <<>>)
           /\ UNCHANGED reading
  <2>1. PICK found : found = IF verdict.retrieve /\ k > 0 THEN lexical ELSE <<>>
    OBVIOUS
  <2>2. Shown(<<>>, q, commits) /\ Len(<<>>) <= k
    BY <1>4 DEF Shown
  <2>3. Shown(found, q, commits) /\ Len(found) <= k /\ (k = 0 => found = <<>>)
    BY <1>4, <1>7, <2>1, <2>2
  <2>4. AnswerIsSound'
    BY <1>1, <1>4, <1>8, <1>9, <2>1, <2>3, EvidenceIsSound
  <2>5. \A t \in Readers : \A one \in reading'[t] : SearchIsSound(one)'
    <3>1. ASSUME NEW t \in Readers, NEW one \in reading'[t] PROVE SearchIsSound(one)
      BY <1>9 DEF EvidenceInv
    <3> QED BY <1>1, <3>1, SearchesWait
  <2> QED BY <1>1, <2>4, <2>5, QuietIsSafe DEF EvidenceInv
<1>10. CASE /\ ~(~verdict.retrieve \/ k <= 0 \/ WordsSuffice(lexical))
            /\ reading' = [reading EXCEPT ![s] = {[pc |-> "search", question |-> q, topK |-> k, lexical |-> lexical,
                                                   began |-> commits]}]
            /\ told' = Silent
  <2>1. PICK job : job = [pc |-> "search", question |-> q, topK |-> k, lexical |-> lexical, began |-> commits]
    OBVIOUS
  <2>2. reading' = [reading EXCEPT ![s] = {job}] /\ k > 0
    BY <1>4, <1>10, <2>1
  <2>3. SearchIsSound(job)
    <3>1. ~WordsSuffice(lexical)
      BY <1>10
    <3>2. /\ job.question = q /\ job.topK = k /\ job.lexical = lexical /\ job.began = commits
      BY <2>1
    <3> QED BY <1>4, <1>7, <1>8, <2>2, <3>1, <3>2 DEF SearchIsSound
  <2>4. \A t \in Readers : \A one \in reading'[t] : SearchIsSound(one)
    BY <2>2, <2>3 DEF EvidenceInv, LibraryInv
  <2>5. told'.kind # "evidence"
    BY <1>10 DEF Silent, Replied
  <2> QED BY <1>1, <2>4, <2>5, QuietIsSafe, EvidenceStays
<1> QED BY <1>3, <1>9, <1>10

LEMMA EvidenceInvInit == Init => EvidenceInv
<1>1. ASSUME Init PROVE EvidenceInv
  BY <1>1, LibraryInvInit DEF Init, InitLibrary, EvidenceInv, AnswerIsSound, Silent, Replied
<1> QED BY <1>1

LEMMA EvidenceInvNext == ASSUME EvidenceInv, [Next]_vars PROVE EvidenceInv'
<1>1. LibraryInv'
  BY LibraryInvNext DEF EvidenceInv
<1>2. CASE UNCHANGED libraryVars
  <2>1. UNCHANGED <<library, commits, reading, told>>
    BY <1>2 DEF libraryVars
  <2>2. \A s \in Readers : \A job \in reading'[s] : SearchIsSound(job)
    BY <2>1 DEF EvidenceInv
  <2> QED BY <1>1, <2>1, <2>2, QuietIsSafe, EvidenceStays
<1>3. CASE Reading
  BY <1>1, <1>3, IngestionKeepsEvidence, EmbeddingKeepsEvidence, CommittingKeepsEvidence, SearchingKeepsEvidence,
     DeletingKeepsEvidence, PurgingKeepsEvidence, RedeployKeepsEvidence, RetrievingKeepsEvidence DEF Reading
<1> QED BY <1>2, <1>3, LibraryStep

\* A student is shown what is theirs to read, whoever else ingests, deletes or
\* purges while the question waits for its embedding: no passage that was
\* deleted before they asked, none twice, no more than was asked for or than
\* the prompt has room for, and nothing is paid for a retrieval that was
\* skipped or that words alone had answered (KnowledgeService.retrieve, visibility_clause, allocate).
THEOREM EvidenceIsForItsAsker == Spec => []EvidenceIsTheAskers
<1>1. ASSUME EvidenceInv PROVE EvidenceIsTheAskers
  <2> SUFFICES ASSUME told.kind = "evidence" PROVE EvidenceIsTheAskers
    BY DEF EvidenceIsTheAskers
  <2>1. PICK given, found : given = told.about /\ found = given.found
    OBVIOUS
  <2>2. /\ Shown(found, given.question, given.began)
        /\ Len(found) <= given.topK
        /\ 100 * given.prompt.used <= 35 * Window
        /\ given.topK = 0 => found = <<>> /\ given.calls = 0
        /\ given.words >= KeywordSufficientHits => given.calls = 0
    BY <1>1, <2>1 DEF EvidenceInv, AnswerIsSound
  <2>3. ASSUME NEW i \in DOMAIN found
        PROVE  /\ MayRead(given.question.scope, found[i])
               /\ found[i].source \in DOMAIN library =>
                    LET deleted == library[found[i].source].deleted IN deleted = Live \/ deleted > given.began
               /\ \A j \in DOMAIN found : found[i] = found[j] => i = j
    BY <2>2 DEF Shown, IsShown
  <2> QED BY <2>1, <2>2, <2>3 DEF EvidenceIsTheAskers
<1> QED BY <1>1, EvidenceInvInit, EvidenceInvNext, PTL DEF Spec

(* Folds over a sequence, which take its last index away at a time.         *)

\* The greatest of the first k indices.
LEMMA LastIndex ==
  ASSUME NEW k \in Nat, k # 0
  PROVE  Max(1 .. k) = k /\ (1 .. k) \ {k} = 1 .. k - 1
<1>1. 1 .. k # {} /\ k \in 1 .. k
  OBVIOUS
<1>2. Max(1 .. k) \in 1 .. k /\ \A i \in 1 .. k : i <= Max(1 .. k)
  <2>1. 1 .. k \in SUBSET (1 .. k)
    OBVIOUS
  <2> QED BY <1>1, <2>1, Greatest
<1> QED BY <1>1, <1>2

\* f takes the steps over every set of the first n indices.
FoldOf(f, n, base, step) ==
  f = [s \in SUBSET (1 .. n) |-> IF s = {} THEN base ELSE step[Max(s)][f[s \ {Max(s)}]]]

\* There is a fold of every sequence of steps that stay inside a set: it is
\* extended from the sets of the first m - 1 indices to those of the first m.
LEMMA FoldExists ==
  ASSUME NEW n \in Nat, NEW D, NEW base \in D, NEW step \in [1 .. n -> [D -> D]]
  PROVE  \E f : f \in [SUBSET (1 .. n) -> D] /\ FoldOf(f, n, base, step)
<1> DEFINE Fold(f, m) == /\ f \in [SUBSET (1 .. m) -> D]
                         /\ \A s \in SUBSET (1 .. m) :
                              f[s] = IF s = {} THEN base ELSE step[Max(s)][f[s \ {Max(s)}]]
           without == {m \in 0 .. n : ~ \E f : Fold(f, m)}
<1>1. without = {}
  <2> SUFFICES ASSUME without # {} PROVE FALSE
    OBVIOUS
  <2>1. PICK m \in without : \A k \in without : m <= k
    <3>1. without \in SUBSET Nat
      OBVIOUS
    <3> HIDE DEF without
    <3> QED BY <3>1, LeastNumber
  <2>2. m \in 0 .. n /\ ~ \E f : Fold(f, m)
    BY <2>1
  <2>3. CASE m = 0
    <3>1. SUBSET (1 .. 0) = {{}}
      OBVIOUS
    <3> DEFINE none == [s \in SUBSET (1 .. 0) |-> base]
    <3>2. Fold(none, 0)
      BY <3>1
    <3>3. \E f : Fold(f, 0)
      <4> HIDE DEF Fold, none
      <4> QED BY <3>2
    <3> HIDE DEF Fold
    <3> QED BY <2>2, <2>3, <3>3
  <2>4. CASE m # 0
    <3>1. m - 1 \in 0 .. n /\ m - 1 \notin without
      <4> HIDE DEF without
      <4> QED BY <2>1, <2>2, <2>4
    <3>2. PICK f : Fold(f, m - 1)
      BY <3>1
    <3> DEFINE g == [s \in SUBSET (1 .. m) |-> IF m \in s THEN step[m][f[s \ {m}]] ELSE f[s]]
    <3>3. m \in Nat /\ m \in 1 .. n
      BY <2>2, <2>4
    <3>4. ASSUME NEW s \in SUBSET (1 .. m)
          PROVE  s \ {m} \in SUBSET (1 .. m - 1) /\ (m \in s => Max(s) = m)
      <4>1. s \ {m} \in SUBSET (1 .. m - 1)
        BY <3>3
      <4>2. ASSUME m \in s PROVE Max(s) = m
        <5>1. Max(s) \in s /\ \A i \in s : i <= Max(s)
          <6>1. s # {}
            BY <4>2
          <6> QED BY <3>3, <6>1, Greatest
        <5>2. Max(s) \in 1 .. m
          BY <5>1
        <5>3. m <= Max(s)
          BY <4>2, <5>1
        <5> QED BY <3>3, <5>2, <5>3
      <4> QED BY <4>1, <4>2
    <3>5. ASSUME NEW s \in SUBSET (1 .. m), m \notin s
          PROVE  s \in SUBSET (1 .. m - 1) /\ g[s] = f[s]
      BY <3>4, <3>5
    <3>6. ASSUME NEW s \in SUBSET (1 .. m), m \in s
          PROVE  /\ s \ {m} \in SUBSET (1 .. m - 1) /\ g[s] = step[m][f[s \ {m}]]
                 /\ g[s \ {m}] = f[s \ {m}] /\ Max(s) = m
      BY <3>4, <3>6
    <3>7. ASSUME NEW s \in SUBSET (1 .. m)
          PROVE  g[s] \in D /\ g[s] = IF s = {} THEN base ELSE step[Max(s)][g[s \ {Max(s)}]]
      <4>1. CASE m \in s
        <5>1. g[s] = step[Max(s)][g[s \ {Max(s)}]]
          BY <3>6, <4>1
        <5>2. f[s \ {m}] \in D
          BY <3>2, <3>6, <4>1
        <5>3. step[m][f[s \ {m}]] \in D
          BY <3>3, <5>2
        <5> HIDE DEF g
        <5> QED BY <3>6, <4>1, <5>1, <5>3
      <4>2. CASE m \notin s
        <5>1. s \in SUBSET (1 .. m - 1) /\ g[s] = f[s]
          BY <3>5, <4>2
        <5>2. g[s \ {Max(s)}] = f[s \ {Max(s)}]
          <6>1. s \ {Max(s)} \in SUBSET (1 .. m) /\ m \notin s \ {Max(s)}
            BY <4>2
          <6> QED BY <3>5, <6>1
        <5> HIDE DEF g
        <5> QED BY <3>2, <5>1, <5>2
      <4> QED BY <4>1, <4>2
    <3>8. g \in [SUBSET (1 .. m) -> D]
      <4>1. g = [s \in SUBSET (1 .. m) |-> g[s]]
        OBVIOUS
      <4> HIDE DEF g
      <4> QED BY <3>7, <4>1
    <3>9. Fold(g, m)
      <4> HIDE DEF g
      <4> QED BY <3>7, <3>8
    <3>10. \E h : Fold(h, m)
      <4> HIDE DEF Fold, g
      <4> QED BY <3>9
    <3> HIDE DEF Fold, g
    <3> QED BY <2>2, <3>10
  <2> QED BY <2>2, <2>3, <2>4
<1>2. n \in 0 .. n
  OBVIOUS
<1>3. \E f : Fold(f, n)
  <2>1. n \notin without
    <3> HIDE DEF without
    <3> QED BY <1>1
  <2> HIDE DEF Fold
  <2> QED BY <1>2, <2>1
<1>4. PICK f : Fold(f, n)
  <2> HIDE DEF Fold
  <2> QED BY <1>3
<1>5. f = [s \in SUBSET (1 .. n) |-> f[s]]
  BY <1>4
<1>6. FoldOf(f, n, base, step)
  BY <1>4, <1>5 DEF FoldOf
<1> HIDE DEF without
<1>7. f \in [SUBSET (1 .. n) -> D] /\ FoldOf(f, n, base, step)
  BY <1>4, <1>6
<1> HIDE DEF Fold
<1> QED BY <1>7

\* One fold: what it is of a set, from what it is without the greatest index.
Stepwise(f, n, D, base, step) ==
  \A s \in SUBSET (1 .. n) :
    /\ f[s] \in D /\ (s = {} => f[s] = base)
    /\ s # {} => /\ Max(s) \in 1 .. n /\ f[s \ {Max(s)}] \in D
                 /\ f[s] = step[Max(s)][f[s \ {Max(s)}]]

LEMMA FoldByIndex ==
  ASSUME NEW n \in Nat, NEW D, NEW base, NEW step,
         NEW f, f \in [SUBSET (1 .. n) -> D], FoldOf(f, n, base, step)
  PROVE  Stepwise(f, n, D, base, step)
<1> SUFFICES ASSUME NEW s \in SUBSET (1 .. n)
             PROVE  /\ f[s] \in D /\ (s = {} => f[s] = base)
                    /\ s # {} => /\ Max(s) \in 1 .. n /\ f[s \ {Max(s)}] \in D
                                 /\ f[s] = step[Max(s)][f[s \ {Max(s)}]]
  BY DEF Stepwise
<1>1. f[s] = IF s = {} THEN base ELSE step[Max(s)][f[s \ {Max(s)}]]
  BY DEF FoldOf
<1>2. ASSUME s # {} PROVE Max(s) \in 1 .. n
  BY <1>2, Greatest
<1> QED BY <1>1, <1>2

LEMMA FoldExistsStepwise ==
  ASSUME NEW n \in Nat, NEW D, NEW base \in D, NEW step \in [1 .. n -> [D -> D]]
  PROVE  \E f : f \in [SUBSET (1 .. n) -> D] /\ Stepwise(f, n, D, base, step)
  BY FoldExists, FoldByIndex, Zenon

-----------------------------------------------------------------------------
(* The twins of a problem: all eight candidates are usable and no two have  *)
(* one answer, so that the fold keeps them all.                             *)

Kept(t, found, k) ==
  LET twin == Candidate(t, k - 1) IN
  IF Usable(t, twin) /\ \A i \in DOMAIN found : ~SameAnswer(found[i], twin)
  THEN Append(found, twin) ELSE found

LEMMA TwinsFold ==
  ASSUME NEW t
  PROVE  \E iter : /\ iter[{}] = <<>> /\ Twins(t) = iter[1 .. 8]
                   /\ \A k \in 1 .. 8 : iter[1 .. k] = Kept(t, iter[1 .. k - 1], k)
<1> DEFINE T == {Candidate(t, k - 1) : k \in 1 .. 8}
           D == Seq(T)
           step == [k \in 1 .. 8 |-> [found \in D |-> Kept(t, found, k)]]
           Folds(f) == f = [s \in SUBSET (1 .. 8) |-> IF s = {} THEN <<>> ELSE Kept(t, f[s \ {Max(s)}], Max(s))]
           attempts == [i \in 1 .. 8 |-> i - 1]
           Is(f) == f = [s \in SUBSET DOMAIN attempts |->
                          IF s = {} THEN <<>>
                          ELSE IF Usable(t, Candidate(t, attempts[Max(s)]))
                                  /\ \A i \in DOMAIN f[s \ {Max(s)}] : ~SameAnswer(f[s \ {Max(s)}][i], Candidate(t, attempts[Max(s)]))
                               THEN Append(f[s \ {Max(s)}], Candidate(t, attempts[Max(s)])) ELSE f[s \ {Max(s)}]]
<1>1. Twins(t) = (CHOOSE f : Is(f))[DOMAIN attempts]
  BY DEF Twins, FoldLeft, MapThenFoldSet, MaxRegenerationAttempts
<1>2. \E f : Is(f)
  <2>1. 8 \in Nat /\ <<>> \in D
    OBVIOUS
  <2>2. step \in [1 .. 8 -> [D -> D]]
    <3> SUFFICES ASSUME NEW k \in 1 .. 8, NEW found \in D PROVE Kept(t, found, k) \in D
      OBVIOUS
    <3>1. Candidate(t, k - 1) \in T
      OBVIOUS
    <3>2. Append(found, Candidate(t, k - 1)) \in D
      <4> HIDE DEF T
      <4> QED BY <3>1
    <3> HIDE DEF D
    <3> QED BY <3>2 DEF Kept
  <2>3. PICK f : f \in [SUBSET (1 .. 8) -> D] /\ Stepwise(f, 8, D, <<>>, step)
    <3> HIDE DEF D, step
    <3> QED BY <2>1, <2>2, FoldExistsStepwise, Zenon
  <2>4. \A s \in SUBSET (1 .. 8) :
          /\ f[s] \in D /\ (s = {} => f[s] = <<>>)
          /\ s # {} => /\ Max(s) \in 1 .. 8 /\ f[s \ {Max(s)}] \in D
                       /\ f[s] = step[Max(s)][f[s \ {Max(s)}]]
    <3> HIDE DEF D, step
    <3> QED BY <2>3 DEF Stepwise
  <2>5. f = [s \in SUBSET (1 .. 8) |-> f[s]]
    <3> HIDE DEF D
    <3> QED BY <2>3
  <2>6. DOMAIN attempts = 1 .. 8 /\ \A i \in 1 .. 8 : attempts[i] = i - 1
    OBVIOUS
  <2>7. ASSUME NEW s \in SUBSET (1 .. 8)
        PROVE  f[s] = IF s = {} THEN <<>>
                      ELSE IF Usable(t, Candidate(t, attempts[Max(s)]))
                              /\ \A i \in DOMAIN f[s \ {Max(s)}] : ~SameAnswer(f[s \ {Max(s)}][i], Candidate(t, attempts[Max(s)]))
                           THEN Append(f[s \ {Max(s)}], Candidate(t, attempts[Max(s)])) ELSE f[s \ {Max(s)}]
    <3>1. CASE s = {}
      <4> HIDE DEF D, step, attempts
      <4> QED BY <2>4, <3>1
    <3>2. CASE s # {}
      <4>1. f[s] = Kept(t, f[s \ {Max(s)}], Max(s)) /\ Max(s) \in 1 .. 8
        <5> HIDE DEF D
        <5> QED BY <2>4, <3>2
      <4> HIDE DEF D, step, attempts
      <4> QED BY <2>6, <3>2, <4>1 DEF Kept
    <3> QED BY <3>1, <3>2
  <2>8. Is(f)
    <3> HIDE DEF D, attempts
    <3> QED BY <2>5, <2>6, <2>7
  <2> QED BY <2>8
<1> DEFINE iter == CHOOSE f : Is(f)
<1>3. Is(iter)
  <2> HIDE DEF Is
  <2> QED BY <1>2
<1>4. DOMAIN attempts = 1 .. 8 /\ \A i \in 1 .. 8 : attempts[i] = i - 1
  OBVIOUS
<1>5. iter[{}] = <<>> /\ Twins(t) = iter[1 .. 8]
  <2> HIDE DEF iter, attempts
  <2> QED BY <1>1, <1>3, <1>4 DEF iter
<1>6. ASSUME NEW k \in 1 .. 8 PROVE iter[1 .. k] = Kept(t, iter[1 .. k - 1], k)
  <2>1. Max(1 .. k) = k /\ (1 .. k) \ {k} = 1 .. k - 1
    BY LastIndex
  <2>2. 1 .. k \in SUBSET (1 .. 8) /\ k \in 1 .. k
    OBVIOUS
  <2>3. attempts[k] = k - 1
    OBVIOUS
  <2>4. iter[1 .. k] = IF Usable(t, Candidate(t, attempts[k]))
                          /\ \A i \in DOMAIN iter[1 .. k - 1] : ~SameAnswer(iter[1 .. k - 1][i], Candidate(t, attempts[k]))
                       THEN Append(iter[1 .. k - 1], Candidate(t, attempts[k])) ELSE iter[1 .. k - 1]
    <3> HIDE DEF iter, attempts
    <3>1. 1 .. k \in SUBSET (DOMAIN attempts) /\ 1 .. k # {}
      BY <1>4, <2>2
    <3> QED BY <1>3, <2>1, <3>1
  <2> HIDE DEF iter, attempts
  <2> QED BY <2>3, <2>4 DEF Kept
<1> HIDE DEF iter
<1> QED BY <1>5, <1>6

\* The problems a sheet may hold, as parse_template makes them.
LEMMA Attempts ==
  ASSUME NEW k \in 1 .. 8
  PROVE  /\ Offset(k - 1) = Offsets[k] /\ Offset(k - 1) \in Int \ {0} /\ (k - 1) % 2 \in {0, 1}
         /\ \A j \in 1 .. 8 : Offset(j - 1) = Offset(k - 1) => j = k
<1>1. ASSUME NEW j \in 1 .. 8 PROVE Offset(j - 1) = Offsets[j]
  <2>1. Len(Offsets) = 8
    BY DEF Offsets
  <2>2. (j - 1) % 8 = j - 1
    OBVIOUS
  <2> QED BY <2>1, <2>2 DEF Offset
<1>2. ASSUME NEW j \in 1 .. 8
      PROVE  Offsets[j] = (IF j = 1 THEN 1 ELSE IF j = 2 THEN 2 ELSE IF j = 3 THEN 3 ELSE IF j = 4 THEN -1
                           ELSE IF j = 5 THEN -2 ELSE IF j = 6 THEN 4 ELSE IF j = 7 THEN 5 ELSE -3)
  <2>1. j \in {1, 2, 3, 4, 5, 6, 7, 8}
    OBVIOUS
  <2> QED BY <2>1 DEF Offsets
<1>3. (k - 1) % 2 \in {0, 1}
  OBVIOUS
<1>4. \A j \in 1 .. 8 : Offset(j - 1) = (IF j = 1 THEN 1 ELSE IF j = 2 THEN 2 ELSE IF j = 3 THEN 3 ELSE IF j = 4 THEN -1
                           ELSE IF j = 5 THEN -2 ELSE IF j = 6 THEN 4 ELSE IF j = 7 THEN 5 ELSE -3)
  BY <1>1, <1>2
<1> QED BY <1>1, <1>3, <1>4

\* An answer in integers: a product of a is divided by a.
LEMMA Divides ==
  ASSUME NEW a \in Int \ {0}, NEW n \in Int, Absolute(n) % Absolute(a) = 0
  PROVE  n = a * ((Sign(a) * n) \div Absolute(a))
<1>1. Absolute(a) \in Nat \ {0} /\ Sign(a) \in {-1, 1} /\ a = Sign(a) * Absolute(a)
  BY DEF Absolute, Sign
<1> DEFINE m == Sign(a) * n
           d == Absolute(a)
           q == m \div d
<1>2. m \in Int /\ d \in Nat \ {0} /\ n = Sign(a) * m
  BY <1>1
<1>3. m % d = 0
  <2>1. m = Absolute(n) \/ m = -Absolute(n)
    BY <1>1 DEF Absolute
  <2>2. Absolute(n) \in Int
    BY DEF Absolute
  <2> HIDE DEF m, d
  <2> DEFINE p == Absolute(n)
  <2>3. p \in Int /\ p % d = 0 /\ (m = p \/ m = -p)
    BY <2>1, <2>2 DEF d
  <2> HIDE DEF p
  <2>4. p = d * (p \div d)
    BY <1>2, <2>3
  <2>5. CASE m = p
    BY <2>3, <2>5
  <2>6. CASE m = -p
    <3> DEFINE r == p \div d
    <3>1. r \in Int
      BY <1>2, <2>3
    <3> HIDE DEF r
    <3>2. -p = d * (-r)
      BY <1>2, <2>3, <2>4, <3>1 DEF r
    <3>3. (d * (-r)) % d = 0
      BY <1>2, <3>1
    <3> QED BY <2>6, <3>2, <3>3
  <2> QED BY <2>3, <2>5, <2>6
<1>4. m = d * q /\ q \in Int
  <2> HIDE DEF m, d
  <2> QED BY <1>2, <1>3
<1>5. n = Sign(a) * (d * q)
  <2> HIDE DEF q, m, d
  <2> QED BY <1>2, <1>4
<1>6. Sign(a) * (d * q) = (Sign(a) * d) * q
  <2> HIDE DEF q, m, d
  <2> QED BY <1>1, <1>2, <1>4
<1>7. n = a * q
  <2>1. a = Sign(a) * d
    BY <1>1
  <2> HIDE DEF q, d
  <2> QED BY <1>5, <1>6, <2>1
<1> QED BY <1>7

LEMMA SameLinearAnswer ==
  ASSUME NEW t, NEW u, LinearProblem(t), LinearProblem(u), t.a = u.a, SameAnswer(t, u)
  PROVE  t.c - t.b = u.c - u.b
<1>1. Answer(t) = {<<t.c - t.b, t.a>>} /\ Answer(u) = {<<u.c - u.b, u.a>>}
  BY DEF Answer, LinearProblem
<1>2. SameNumber(<<t.c - t.b, t.a>>, <<u.c - u.b, u.a>>)
  BY <1>1 DEF SameAnswer
<1> DEFINE m == t.c - t.b
           n == u.c - u.b
           a == t.a
<1>3. m \in Int /\ n \in Int /\ a \in Int \ {0}
  BY DEF LinearProblem
<1>4. m * a = n * a
  BY <1>2 DEF SameNumber
<1>5. m = n
  <2> HIDE DEF m, n, a
  <2> QED BY <1>3, <1>4
<1> QED BY <1>5

LEMMA SameQuadraticAnswer ==
  ASSUME NEW t, NEW u, QuadraticProblem(t), QuadraticProblem(u), SameAnswer(t, u)
  PROVE  t.low = u.low
<1>1. Answer(t) = {<<t.low, 1>>, <<t.high, 1>>} /\ Answer(u) = {<<u.low, 1>>, <<u.high, 1>>}
  BY DEF Answer, QuadraticProblem
<1>2. /\ t.low \in Int /\ t.high \in Int /\ t.low <= t.high
      /\ u.low \in Int /\ u.high \in Int /\ u.low <= u.high
  BY DEF QuadraticProblem
<1>3. t.low = u.low \/ t.low = u.high
  <2>1. PICK y \in Answer(u) : SameNumber(<<t.low, 1>>, y)
    BY <1>1 DEF SameAnswer
  <2> QED BY <1>1, <1>2, <2>1 DEF SameNumber
<1>4. u.low = t.low \/ u.low = t.high
  <2>1. PICK x \in Answer(t) : SameNumber(x, <<u.low, 1>>)
    BY <1>1 DEF SameAnswer
  <2> QED BY <1>1, <1>2, <2>1 DEF SameNumber
<1> QED BY <1>2, <1>3, <1>4

LEMMA SameOfItself ==
  ASSUME NEW t, LinearProblem(t) \/ QuadraticProblem(t)
  PROVE  SameAnswer(t, t)
  BY DEF SameAnswer, SameNumber, Answer, LinearProblem, QuadraticProblem

\* The new answer is the old one and a multiple of the offset away.
LEMMA LinearCandidates ==
  ASSUME NEW t, LinearProblem(t)
  PROVE  \E m \in Int \ {0} :
           /\ Integral(t) => m = t.a
           /\ \A k \in 1 .. 8 :
                LET twin == Candidate(t, k - 1) IN
                LinearProblem(twin) /\ twin.a = t.a /\ twin.c - twin.b = (t.c - t.b) + m * Offset(k - 1)
<1>1. t.a \in Int \ {0} /\ t.b \in Int /\ t.c \in Int /\ t.kind = "linear"
  BY DEF LinearProblem
<1> DEFINE q == (Sign(t.a) * (t.c - t.b)) \div Absolute(t.a)
           m == IF Integral(t) THEN t.a ELSE 1
<1>2. q \in Int
  <2>1. Absolute(t.a) \in Nat \ {0} /\ Sign(t.a) \in {-1, 1}
    BY <1>1 DEF Absolute, Sign
  <2> QED BY <1>1, <2>1
<1>3. ASSUME Integral(t) PROVE t.c - t.b = t.a * q
  <2>1. Absolute(t.c - t.b) % Absolute(t.a) = 0
    BY <1>1, <1>3 DEF Integral
  <2> QED BY <1>1, <2>1, Divides
<1>4. ASSUME NEW k \in 1 .. 8
      PROVE  LET twin == Candidate(t, k - 1) IN
             LinearProblem(twin) /\ twin.a = t.a /\ twin.c - twin.b = (t.c - t.b) + m * Offset(k - 1)
  <2> DEFINE o == Offset(k - 1)
             twin == Candidate(t, k - 1)
             b == t.b + o
  <2>1. o \in Int
    BY Attempts
  <2>2. twin = Linear(t.a, b, IF Integral(t) THEN t.a * (q + o) + b ELSE t.c + 2 * o)
    BY <1>1 DEF Candidate, TwinLinear
  <2>3. CASE Integral(t)
    <3>1. twin.a = t.a /\ twin.b = b /\ twin.c = t.a * (q + o) + b /\ twin.kind = "linear"
      BY <2>2, <2>3 DEF Linear
    <3> HIDE DEF q, o, twin
    <3>2. t.a * (q + o) = t.a * q + t.a * o /\ t.a * (q + o) \in Int /\ t.a * o \in Int
      BY <1>1, <1>2, <2>1
    <3>3. twin.c - twin.b = (t.c - t.b) + t.a * o
      BY <1>1, <1>2, <1>3, <2>1, <2>3, <3>1, <3>2
    <3>4. LinearProblem(twin)
      BY <1>1, <2>1, <2>2, <2>3, <3>2 DEF Linear, LinearProblem
    <3> QED BY <2>3, <3>1, <3>3, <3>4 DEF twin, o
  <2>4. CASE ~Integral(t)
    <3>1. twin = Linear(t.a, b, t.c + 2 * o)
      BY <2>2, <2>4
    <3> HIDE DEF q, o, twin
    <3> QED BY <1>1, <2>1, <2>4, <3>1 DEF Linear, LinearProblem, twin, o
  <2> QED BY <2>3, <2>4
<1>5. m \in Int \ {0} /\ (Integral(t) => m = t.a)
  BY <1>1
<1> HIDE DEF m
<1> QED BY <1>4, <1>5

LEMMA QuadraticCandidates ==
  ASSUME NEW t, QuadraticProblem(t)
  PROVE  \A k \in 1 .. 8 :
           LET twin == Candidate(t, k - 1) IN
           QuadraticProblem(twin) /\ twin.low < twin.high /\ twin.low = t.low + Offset(k - 1)
<1> SUFFICES ASSUME NEW k \in 1 .. 8
             PROVE  LET twin == Candidate(t, k - 1) IN
                    QuadraticProblem(twin) /\ twin.low < twin.high /\ twin.low = t.low + Offset(k - 1)
  OBVIOUS
<1> DEFINE o == Offset(k - 1)
           gap == IF t.high - t.low < 1 THEN 1 ELSE t.high - t.low
           odd == (k - 1) % 2
<1>1. o \in Int /\ odd \in {0, 1}
  BY Attempts
<1>2. t.low \in Int /\ t.high \in Int /\ t.kind = "quadratic"
  BY DEF QuadraticProblem
<1>3. gap \in Int /\ gap >= 1
  BY <1>2
<1>4. Candidate(t, k - 1) = Quadratic(t.low + o, t.low + o + gap + odd)
  BY <1>2 DEF Candidate, TwinQuadratic
<1> HIDE DEF o, gap, odd
<1>5. t.low + o + gap + odd \in Int /\ t.low + o < t.low + o + gap + odd
  BY <1>1, <1>2, <1>3
<1> QED BY <1>1, <1>2, <1>4, <1>5 DEF QuadraticProblem, Quadratic, o

\* All eight are usable, and no two have one answer.
LEMMA CandidatesDiffer ==
  ASSUME NEW t, LinearProblem(t) \/ QuadraticProblem(t)
  PROVE  \A k \in 1 .. 8 :
           /\ LinearProblem(Candidate(t, k - 1)) \/ QuadraticProblem(Candidate(t, k - 1))
           /\ ~SameAnswer(t, Candidate(t, k - 1)) /\ Usable(t, Candidate(t, k - 1))
           /\ Integral(t) => Integral(Candidate(t, k - 1))
           /\ \A j \in 1 .. 8 : j # k => ~SameAnswer(Candidate(t, j - 1), Candidate(t, k - 1))
<1>1. CASE LinearProblem(t)
  <2>1. PICK m \in Int \ {0} :
           /\ Integral(t) => m = t.a
           /\ \A k \in 1 .. 8 :
                LET twin == Candidate(t, k - 1) IN
                LinearProblem(twin) /\ twin.a = t.a /\ twin.c - twin.b = (t.c - t.b) + m * Offset(k - 1)
    BY <1>1, LinearCandidates
  <2> SUFFICES ASSUME NEW k \in 1 .. 8
               PROVE  /\ LinearProblem(Candidate(t, k - 1))
                      /\ ~SameAnswer(t, Candidate(t, k - 1)) /\ Usable(t, Candidate(t, k - 1))
                      /\ Integral(t) => Integral(Candidate(t, k - 1))
                      /\ \A j \in 1 .. 8 : j # k => ~SameAnswer(Candidate(t, j - 1), Candidate(t, k - 1))
    OBVIOUS
  <2> DEFINE n == t.c - t.b
  <2>2. n \in Int /\ t.a \in Int \ {0}
    BY <1>1 DEF LinearProblem
  <2>3. ASSUME NEW j \in 1 .. 8
        PROVE  /\ LinearProblem(Candidate(t, j - 1)) /\ Candidate(t, j - 1).a = t.a
               /\ Candidate(t, j - 1).c - Candidate(t, j - 1).b = n + m * Offset(j - 1)
               /\ Offset(j - 1) \in Int \ {0} /\ m * Offset(j - 1) \in Int
    <3>1. Offset(j - 1) \in Int \ {0}
      BY Attempts
    <3> QED BY <2>1, <3>1
  <2>4. ~SameAnswer(t, Candidate(t, k - 1))
    <3> SUFFICES ASSUME SameAnswer(t, Candidate(t, k - 1)) PROVE FALSE
      OBVIOUS
    <3>1. n = n + m * Offset(k - 1)
      BY <1>1, <2>3, SameLinearAnswer
    <3> DEFINE o == Offset(k - 1)
               far == m * o
    <3>2. o \in Int \ {0} /\ far \in Int /\ n = n + far
      BY <2>3, <3>1
    <3>3. far = 0
      <4> HIDE DEF n, far
      <4> QED BY <2>2, <3>2
    <3> HIDE DEF o
    <3> QED BY <3>2, <3>3
  <2>5. Usable(t, Candidate(t, k - 1))
    <3>1. Candidate(t, k - 1).kind = "linear"
      BY <2>3 DEF LinearProblem
    <3> QED BY <2>4, <3>1 DEF Usable
  <2>6. ASSUME Integral(t) PROVE Integral(Candidate(t, k - 1))
    <3>1. Absolute(n) % Absolute(t.a) = 0
      BY <1>1, <2>6 DEF Integral, LinearProblem
    <3> DEFINE q == (Sign(t.a) * n) \div Absolute(t.a)
    <3>2. n = t.a * q
      <4> HIDE DEF n
      <4> QED BY <2>2, <3>1, Divides
    <3>3. Absolute(t.a) \in Nat \ {0} /\ Sign(t.a) \in {-1, 1}
      BY <2>2 DEF Absolute, Sign
    <3>4. q \in Int
      <4> HIDE DEF n
      <4> QED BY <2>2, <3>3
    <3> DEFINE r == q + Offset(k - 1)
    <3>5. n + m * Offset(k - 1) = t.a * r /\ r \in Int
      <4> HIDE DEF n, q
      <4> QED BY <2>1, <2>2, <2>3, <2>6, <3>2, <3>4
    <3>6. Absolute(t.a * r) % Absolute(t.a) = 0
      <4> HIDE DEF r
      <4> DEFINE d == Absolute(t.a)
      <4>1. \E p \in Int : Absolute(t.a * r) = d * p
        <5>1. t.a = d \/ t.a = -d
          BY <2>2 DEF Absolute
        <5>2. t.a * r \in Int /\ (Absolute(t.a * r) = t.a * r \/ Absolute(t.a * r) = -(t.a * r))
          BY <2>2, <3>5 DEF Absolute
        <5> HIDE DEF d
        <5>3. d \in Int /\ d * r = d * r /\ d * (-r) = -(d * r) /\ (-d) * r = -(d * r) /\ -r \in Int
          <6>1. d \in Int
            BY <3>3 DEF d
          <6> QED BY <3>5, <6>1
        <5>4. Absolute(t.a * r) = d * r \/ Absolute(t.a * r) = d * (-r)
          BY <3>5, <5>1, <5>2, <5>3
        <5> QED BY <3>5, <5>3, <5>4
      <4>2. PICK p \in Int : Absolute(t.a * r) = d * p
        BY <4>1
      <4>3. (d * p) % d = 0
        <5>1. d \in Nat \ {0}
          BY <3>3
        <5> HIDE DEF d
        <5> QED BY <5>1
      <4> QED BY <4>2, <4>3
    <3>7. Candidate(t, k - 1).c - Candidate(t, k - 1).b = t.a * r /\ Candidate(t, k - 1).a = t.a
      BY <2>3, <3>5
    <3> HIDE DEF r
    <3> QED BY <3>6, <3>7 DEF Integral
  <2>7. ASSUME NEW j \in 1 .. 8, j # k PROVE ~SameAnswer(Candidate(t, j - 1), Candidate(t, k - 1))
    <3> SUFFICES ASSUME SameAnswer(Candidate(t, j - 1), Candidate(t, k - 1)) PROVE FALSE
      OBVIOUS
    <3>1. n + m * Offset(j - 1) = n + m * Offset(k - 1)
      BY <2>3, SameLinearAnswer
    <3> HIDE DEF n
    <3>2. m * Offset(j - 1) = m * Offset(k - 1)
      BY <2>2, <2>3, <3>1
    <3>3. Offset(j - 1) = Offset(k - 1)
      <4> DEFINE x == Offset(j - 1)
                 y == Offset(k - 1)
      <4>1. x \in Int /\ y \in Int /\ m \in Int \ {0} /\ m * x = m * y
        BY <2>3, <3>2
      <4>2. x = y
        <5> HIDE DEF x, y
        <5> QED BY <4>1
      <4> QED BY <4>2
    <3> QED BY <2>7, <3>3, Attempts
  <2> QED BY <2>3, <2>4, <2>5, <2>6, <2>7
<1>2. CASE QuadraticProblem(t)
  <2> SUFFICES ASSUME NEW k \in 1 .. 8
               PROVE  /\ QuadraticProblem(Candidate(t, k - 1))
                      /\ ~SameAnswer(t, Candidate(t, k - 1)) /\ Usable(t, Candidate(t, k - 1))
                      /\ Integral(t) => Integral(Candidate(t, k - 1))
                      /\ \A j \in 1 .. 8 : j # k => ~SameAnswer(Candidate(t, j - 1), Candidate(t, k - 1))
    OBVIOUS
  <2>1. ASSUME NEW j \in 1 .. 8
        PROVE  /\ QuadraticProblem(Candidate(t, j - 1)) /\ Candidate(t, j - 1).low < Candidate(t, j - 1).high
               /\ Candidate(t, j - 1).low = t.low + Offset(j - 1) /\ Offset(j - 1) \in Int \ {0}
               /\ Candidate(t, j - 1).low \in Int /\ Candidate(t, j - 1).high \in Int
    <3>1. Offset(j - 1) \in Int \ {0}
      BY Attempts
    <3>2. QuadraticProblem(Candidate(t, j - 1)) /\ Candidate(t, j - 1).low < Candidate(t, j - 1).high
          /\ Candidate(t, j - 1).low = t.low + Offset(j - 1)
      BY <1>2, QuadraticCandidates
    <3> QED BY <3>1, <3>2 DEF QuadraticProblem
  <2>2. t.low \in Int
    BY <1>2 DEF QuadraticProblem
  <2>3. ~SameAnswer(t, Candidate(t, k - 1))
    <3> SUFFICES ASSUME SameAnswer(t, Candidate(t, k - 1)) PROVE FALSE
      OBVIOUS
    <3>1. t.low = t.low + Offset(k - 1) /\ Offset(k - 1) \in Int \ {0}
      BY <1>2, <2>1, SameQuadraticAnswer
    <3> QED BY <2>2, <3>1
  <2>4. Usable(t, Candidate(t, k - 1))
    BY <2>1, <2>3 DEF Usable
  <2>5. Integral(Candidate(t, k - 1))
    BY <2>1 DEF Integral, QuadraticProblem
  <2>6. ASSUME NEW j \in 1 .. 8, j # k PROVE ~SameAnswer(Candidate(t, j - 1), Candidate(t, k - 1))
    <3> SUFFICES ASSUME SameAnswer(Candidate(t, j - 1), Candidate(t, k - 1)) PROVE FALSE
      OBVIOUS
    <3>1. t.low + Offset(j - 1) = t.low + Offset(k - 1)
      BY <2>1, SameQuadraticAnswer
    <3>2. Offset(j - 1) = Offset(k - 1)
      BY <2>1, <2>2, <3>1
    <3> QED BY <2>6, <3>2, Attempts
  <2> QED BY <2>1, <2>3, <2>4, <2>5, <2>6
<1> QED BY <1>1, <1>2

LEMMA AllEightAreTwins ==
  ASSUME NEW t, LinearProblem(t) \/ QuadraticProblem(t)
  PROVE  Twins(t) = [k \in 1 .. 8 |-> Candidate(t, k - 1)]
<1>1. PICK iter : /\ iter[{}] = <<>> /\ Twins(t) = iter[1 .. 8]
                  /\ \A k \in 1 .. 8 : iter[1 .. k] = Kept(t, iter[1 .. k - 1], k)
  BY TwinsFold
<1> DEFINE first(k) == [i \in 1 .. k |-> Candidate(t, i - 1)]
           bad == {k \in 0 .. 8 : iter[1 .. k] # first(k)}
<1>2. bad = {}
  <2> SUFFICES ASSUME bad # {} PROVE FALSE
    OBVIOUS
  <2>1. PICK k \in bad : \A j \in bad : k <= j
    <3>1. bad \in SUBSET Nat
      OBVIOUS
    <3> HIDE DEF bad
    <3> QED BY <3>1, LeastNumber
  <2>2. k \in 0 .. 8 /\ iter[1 .. k] # first(k)
    BY <2>1
  <2>3. k # 0
    <3>1. 1 .. 0 = {} /\ first(0) = <<>>
      OBVIOUS
    <3> HIDE DEF first
    <3> QED BY <1>1, <2>2, <3>1
  <2>4. k \in 1 .. 8 /\ k - 1 \in 0 .. 8 /\ k - 1 \notin bad
    <3> HIDE DEF bad
    <3> QED BY <2>1, <2>2, <2>3
  <2>5. iter[1 .. k - 1] = first(k - 1)
    BY <2>4
  <2>6. iter[1 .. k] = Kept(t, first(k - 1), k)
    <3> HIDE DEF first
    <3> QED BY <1>1, <2>4, <2>5
  <2>7. Usable(t, Candidate(t, k - 1))
    BY <2>4, CandidatesDiffer
  <2>8. DOMAIN first(k - 1) = 1 .. k - 1 /\ Len(first(k - 1)) = k - 1 /\ first(k - 1) \in Seq({Candidate(t, i - 1) : i \in 1 .. 8})
    BY <2>4
  <2>9. ASSUME NEW i \in 1 .. k - 1 PROVE ~SameAnswer(first(k - 1)[i], Candidate(t, k - 1))
    <3>1. first(k - 1)[i] = Candidate(t, i - 1) /\ i \in 1 .. 8 /\ i # k
      BY <2>4
    <3> QED BY <2>4, <3>1, CandidatesDiffer
  <2>10. iter[1 .. k] = Append(first(k - 1), Candidate(t, k - 1))
    <3> HIDE DEF first
    <3> QED BY <2>6, <2>7, <2>8, <2>9 DEF Kept
  <2>11. Append(first(k - 1), Candidate(t, k - 1)) = first(k)
    BY <2>4
  <2> QED BY <2>2, <2>10, <2>11
<1>3. iter[1 .. 8] = first(8)
  <2>1. 8 \in 0 .. 8 /\ 8 \notin bad
    <3> HIDE DEF bad
    <3> QED BY <1>2
  <2> QED BY <2>1
<1> QED BY <1>1, <1>3

\* What substitution says of an answer: the root is the equation's.
LEMMA AnswersSolve ==
  ASSUME NEW t, LinearProblem(t) \/ QuadraticProblem(t), NEW x \in Answer(t)
  PROVE  Residual(Poly(t), x) = 0 /\ VerifyEquationSolution(Poly(t), x) = "VERIFIED"
<1>1. Residual(Poly(t), x) = 0
  <2>1. CASE LinearProblem(t)
    <3> DEFINE a == t.a
               b == t.b
               c == t.c
    <3>1. x = <<c - b, a>> /\ Poly(t) = <<b - c, a, 0>>
      BY <2>1 DEF Answer, Poly, LinearProblem
    <3>2. a \in Int /\ b \in Int /\ c \in Int
      BY <2>1 DEF LinearProblem
    <3> HIDE DEF a, b, c
    <3>3. Residual(Poly(t), x) = (b - c) * a * a + a * (c - b) * a + 0 * (c - b) * (c - b)
      BY <3>1 DEF Residual
    <3> DEFINE n == c - b
    <3>4. b - c = -n /\ n \in Int
      BY <3>2
    <3> HIDE DEF n
    <3>5. Residual(Poly(t), x) = (-n) * a * a + a * n * a + 0 * n * n
      BY <3>3, <3>4 DEF n
    <3> QED BY <3>2, <3>4, <3>5
  <2>2. CASE QuadraticProblem(t)
    <3> DEFINE l == t.low
               h == t.high
    <3>1. (x = <<l, 1>> \/ x = <<h, 1>>) /\ Poly(t) = <<l * h, -(l + h), 1>>
      BY <2>2 DEF Answer, Poly, QuadraticProblem
    <3>2. l \in Int /\ h \in Int
      BY <2>2 DEF QuadraticProblem
    <3> HIDE DEF l, h
    <3>3. CASE x = <<l, 1>>
      <4>1. Residual(Poly(t), x) = (l * h) * 1 * 1 + (-(l + h)) * l * 1 + 1 * l * l
        BY <3>1, <3>3 DEF Residual
      <4> QED BY <3>2, <4>1
    <3>4. CASE x = <<h, 1>>
      <4>1. Residual(Poly(t), x) = (l * h) * 1 * 1 + (-(l + h)) * h * 1 + 1 * h * h
        BY <3>1, <3>4 DEF Residual
      <4> QED BY <3>2, <4>1
    <3> QED BY <3>1, <3>3, <3>4
  <2> QED BY <2>1, <2>2
<1>2. Poly(t) # Unreadable
  BY DEF Poly, Unreadable
<1> QED BY <1>1, <1>2 DEF VerifyEquationSolution, Decided

LEMMA BatchIsPractice ==
  ASSUME NEW t, LinearProblem(t) \/ QuadraticProblem(t), NEW count \in Int, NEW most \in 1 .. MaxRegenerationAttempts
  PROVE  LET batch == GenerateBatch(t, count, most)
             twins == {batch[i] : i \in DOMAIN batch}
         IN  /\ Len(batch) = Larger(1, Smaller(count, most))
             /\ \A u, v \in twins \cup {t} : u # v => ~SameAnswer(u, v)
             /\ t \notin twins
             /\ Integral(t) => \A u \in twins : Integral(u)
             /\ \A u \in twins : LinearProblem(u) \/ QuadraticProblem(u)
             /\ \A u \in twins, x \in UNION {Answer(v) : v \in twins} :
                  x \in Answer(u) => Residual(Poly(u), x) = 0
<1> DEFINE wanted == IF count > most THEN most ELSE IF count < 1 THEN 1 ELSE count
           batch == GenerateBatch(t, count, most)
           twins == {batch[i] : i \in DOMAIN batch}
<1>1. wanted \in 1 .. 8 /\ wanted = Larger(1, Smaller(count, most))
  BY DEF MaxRegenerationAttempts, Larger, Smaller
<1>2. Twins(t) = [k \in 1 .. 8 |-> Candidate(t, k - 1)]
  BY AllEightAreTwins
<1>3. Len(Twins(t)) = 8
  BY <1>2
<1>4. batch = SubSeq(Twins(t), 1, wanted)
  <2> HIDE DEF wanted
  <2>1. batch = SubSeq(Twins(t), 1, IF Len(Twins(t)) < wanted THEN Len(Twins(t)) ELSE wanted)
    BY DEF GenerateBatch, wanted
  <2> QED BY <1>1, <1>3, <2>1
<1>5. DOMAIN batch = 1 .. wanted /\ Len(batch) = wanted /\ \A i \in 1 .. wanted : batch[i] = Candidate(t, i - 1)
  <2> HIDE DEF wanted, batch
  <2>1. ASSUME NEW S, \A i \in 1 .. 8 : Candidate(t, i - 1) \in S
        PROVE  Twins(t) \in Seq(S)
    BY <1>2, <2>1
  <2> DEFINE S == {Candidate(t, i - 1) : i \in 1 .. 8}
  <2>2. Twins(t) \in Seq(S)
    BY <2>1
  <2> HIDE DEF S
  <2>3. PICK all \in Seq(S) : all = Twins(t)
    BY <2>2
  <2>4. Len(all) = 8 /\ \A i \in 1 .. 8 : all[i] = Candidate(t, i - 1)
    BY <1>2, <2>3
  <2>5. batch = SubSeq(all, 1, wanted)
    BY <1>4, <2>3
  <2>6. DOMAIN batch = 1 .. wanted /\ Len(batch) = wanted
    BY <1>1, <2>4, <2>5
  <2>7. \A i \in 1 .. wanted : batch[i] = all[i] /\ i \in 1 .. 8
    BY <1>1, <2>4, <2>5
  <2> QED BY <2>4, <2>6, <2>7
<1> HIDE DEF wanted, batch
<1>6. ASSUME NEW u \in twins PROVE \E k \in 1 .. 8 : u = Candidate(t, k - 1)
  BY <1>1, <1>5
<1> HIDE DEF twins
<1>7. ASSUME NEW u \in twins
      PROVE  /\ LinearProblem(u) \/ QuadraticProblem(u)
             /\ ~SameAnswer(t, u) /\ ~SameAnswer(u, t)
             /\ Integral(t) => Integral(u)
             /\ \A v \in twins : u # v => ~SameAnswer(u, v)
  <2>1. PICK k \in 1 .. 8 : u = Candidate(t, k - 1)
    BY <1>6
  <2>2. ~SameAnswer(u, t)
    <3>1. ~SameAnswer(t, u)
      BY <2>1, CandidatesDiffer
    <3>2. SameAnswer(u, t) => SameAnswer(t, u)
      BY DEF SameAnswer, SameNumber
    <3> QED BY <3>1, <3>2
  <2>3. ASSUME NEW v \in twins, u # v PROVE ~SameAnswer(u, v)
    <3>1. PICK j \in 1 .. 8 : v = Candidate(t, j - 1)
      BY <1>6
    <3> QED BY <2>1, <2>3, <3>1, CandidatesDiffer
  <2> QED BY <2>1, <2>2, <2>3, CandidatesDiffer
<1>8. t \notin twins
  BY <1>7, SameOfItself
<1>9. ASSUME NEW u \in twins, NEW x \in Answer(u) PROVE Residual(Poly(u), x) = 0
  BY <1>7, AnswersSolve
<1>10. \A u, v \in twins \cup {t} : u # v => ~SameAnswer(u, v)
  BY <1>7
<1>11. Len(batch) = Larger(1, Smaller(count, most))
  BY <1>1, <1>5
<1>12. /\ Integral(t) => \A u \in twins : Integral(u)
       /\ \A u \in twins : LinearProblem(u) \/ QuadraticProblem(u)
       /\ \A u \in twins, x \in UNION {Answer(v) : v \in twins} : x \in Answer(u) => Residual(Poly(u), x) = 0
  BY <1>7, <1>9
<1> QED BY <1>8, <1>10, <1>11, <1>12 DEF batch, twins

LEMMA OneTwinIsVerified ==
  ASSUME NEW t, LinearProblem(t) \/ QuadraticProblem(t)
  PROVE  GenerateTwin(t) # {} /\ \A g \in GenerateTwin(t) : g.verified
<1>1. Twins(t) = [k \in 1 .. 8 |-> Candidate(t, k - 1)]
  BY AllEightAreTwins
<1>2. Twins(t) # <<>> /\ Twins(t)[1] = Candidate(t, 0)
  <2>1. 1 \in 1 .. 8 /\ 1 - 1 = 0
    OBVIOUS
  <2>2. DOMAIN Twins(t) = 1 .. 8 /\ DOMAIN <<>> = {}
    BY <1>1
  <2> QED BY <1>1, <2>1, <2>2
<1>3. LinearProblem(Candidate(t, 0)) \/ QuadraticProblem(Candidate(t, 0))
  <2>1. 1 \in 1 .. 8 /\ 1 - 1 = 0
    OBVIOUS
  <2> QED BY <2>1, CandidatesDiffer
<1>4. \A x \in Answer(Twins(t)[1]) : VerifyEquationSolution(Poly(Twins(t)[1]), x) = "VERIFIED"
  BY <1>2, <1>3, AnswersSolve
<1> DEFINE checked == \A x \in Answer(Twins(t)[1]) : VerifyEquationSolution(Poly(Twins(t)[1]), x) = "VERIFIED"
           one == [problem |-> Twins(t)[1], verified |-> checked]
<1>5. GenerateTwin(t) = {one}
  BY <1>2 DEF GenerateTwin
<1>6. checked /\ one.verified = checked
  <2> HIDE DEF checked
  <2>1. one.verified = checked
    BY Zenon
  <2>2. checked
    BY <1>4 DEF checked
  <2> QED BY <2>1, <2>2, Zenon
<1> HIDE DEF checked, one
<1> QED BY <1>5, <1>6

-----------------------------------------------------------------------------
(* One answer at a time.                                                    *)

LEMMA RootsAreRecognised ==
  ASSUME NEW b \in Int, NEW c \in Int
  PROVE  \A t \in ParseQuadratic(b, c) : Poly(t) = <<c, b, 1>>
<1> SUFFICES ASSUME NEW t \in ParseQuadratic(b, c) PROVE Poly(t) = <<c, b, 1>>
  OBVIOUS
<1>1. PICK r \in -9 .. 9 : r * (-b - r) = c /\ t = Quadratic(r, -b - r)
  BY DEF ParseQuadratic, IntegerRoots
<1>2. Poly(t) = <<r * (-b - r), -(r + (-b - r)), 1>>
  BY <1>1 DEF Poly, Quadratic
<1>3. -(r + (-b - r)) = b
  OBVIOUS
<1> QED BY <1>1, <1>2, <1>3

\* A part that passed the bound stays past it, and one that did not is exact.
LEMMA ProductsByFactor ==
  ASSUME NEW product \in Seq(Int)
  PROVE  \E all : /\ all[{}] = 1 /\ FoldLeft(LAMBDA acc, n : acc * n, 1, product) = all[1 .. Len(product)]
                  /\ \A k \in 1 .. Len(product) :
                       all[1 .. k - 1] \in Int /\ all[1 .. k] = all[1 .. k - 1] * product[k] /\ all[1 .. k] \in Int
<1> DEFINE N == Len(product)
           step == [k \in 1 .. N |-> [acc \in Int |-> acc * product[k]]]
           Is(f) == f = [s \in SUBSET DOMAIN product |-> IF s = {} THEN 1 ELSE f[s \ {Max(s)}] * product[Max(s)]]
<1>1. N \in Nat /\ DOMAIN product = 1 .. N /\ \A k \in 1 .. N : product[k] \in Int
  OBVIOUS
<1>2. FoldLeft(LAMBDA acc, n : acc * n, 1, product) = (CHOOSE f : Is(f))[DOMAIN product]
  BY DEF FoldLeft, MapThenFoldSet
<1> HIDE DEF N
<1>3. step \in [1 .. N -> [Int -> Int]] /\ 1 \in Int
  BY <1>1
<1>4. PICK f : f \in [SUBSET (1 .. N) -> Int] /\ Stepwise(f, N, Int, 1, step)
  <2> HIDE DEF step
  <2> QED BY <1>1, <1>3, FoldExistsStepwise, Zenon
<1>5. Is(f)
  <2>1. f = [s \in SUBSET (1 .. N) |-> f[s]]
    BY <1>4
  <2>2. ASSUME NEW s \in SUBSET (1 .. N)
        PROVE  f[s] = IF s = {} THEN 1 ELSE f[s \ {Max(s)}] * product[Max(s)]
    BY <1>4 DEF Stepwise
  <2> QED BY <1>1, <2>1, <2>2
<1> DEFINE all == CHOOSE g : Is(g)
<1>6. Is(all)
  <2> HIDE DEF Is
  <2> QED BY <1>5
<1> HIDE DEF all
<1>7. all[{}] = 1
  BY <1>1, <1>6
<1>8. ASSUME NEW k \in 1 .. N PROVE all[1 .. k] = all[1 .. k - 1] * product[k]
  <2>1. Max(1 .. k) = k /\ (1 .. k) \ {k} = 1 .. k - 1
    BY <1>1, LastIndex
  <2>2. 1 .. k \in SUBSET (1 .. N) /\ k \in 1 .. k
    BY <1>1
  <2>3. 1 .. k \in SUBSET DOMAIN product /\ 1 .. k # {}
    BY <1>1, <2>2
  <2> QED BY <1>6, <2>1, <2>3
<1>9. \A k \in 0 .. N : all[1 .. k] \in Int
  <2> DEFINE bad == {k \in 0 .. N : all[1 .. k] \notin Int}
  <2> SUFFICES ASSUME bad # {} PROVE FALSE
    OBVIOUS
  <2>1. PICK k \in bad : \A j \in bad : k <= j
    <3>1. bad \in SUBSET Nat
      BY <1>1
    <3> HIDE DEF bad
    <3> QED BY <3>1, LeastNumber
  <2>2. CASE k = 0
    <3>1. 1 .. 0 = {}
      OBVIOUS
    <3> QED BY <1>7, <2>1, <2>2, <3>1
  <2>3. CASE k # 0
    <3>1. k \in 1 .. N /\ k - 1 \in 0 .. N /\ k - 1 \notin bad
      BY <1>1, <2>1, <2>3
    <3>2. all[1 .. k - 1] \in Int
      BY <3>1
    <3> QED BY <1>1, <1>8, <2>1, <3>1, <3>2
  <2> QED BY <2>2, <2>3
<1>10. FoldLeft(LAMBDA acc, n : acc * n, 1, product) = all[1 .. N]
  BY <1>1, <1>2 DEF all
<1>11. ASSUME NEW k \in 1 .. N PROVE all[1 .. k - 1] \in Int /\ all[1 .. k] \in Int
  BY <1>1, <1>9
<1> QED BY <1>7, <1>8, <1>10, <1>11 DEF N

Saturating(acc, n) ==
  IF Absolute(acc) > MaxExponent \/ Absolute(n) > MaxExponent THEN MaxExponent + 1 ELSE acc * n

LEMMA NumbersByFactor ==
  ASSUME NEW product \in Seq(Int)
  PROVE  \E cut : /\ cut[{}] = 1 /\ FoldNumber(product) = cut[1 .. Len(product)]
                  /\ \A k \in 1 .. Len(product) : cut[1 .. k] = Saturating(cut[1 .. k - 1], product[k])
<1> DEFINE N == Len(product)
           step == [k \in 1 .. N |-> [acc \in Int |-> Saturating(acc, product[k])]]
           Is(f) == f = [s \in SUBSET DOMAIN product |->
                          IF s = {} THEN 1
                          ELSE IF Absolute(f[s \ {Max(s)}]) > MaxExponent \/ Absolute(product[Max(s)]) > MaxExponent
                               THEN MaxExponent + 1 ELSE f[s \ {Max(s)}] * product[Max(s)]]
<1>1. N \in Nat /\ DOMAIN product = 1 .. N /\ \A k \in 1 .. N : product[k] \in Int
  OBVIOUS
<1>2. FoldNumber(product) = (CHOOSE f : Is(f))[DOMAIN product]
  BY DEF FoldNumber, FoldLeft, MapThenFoldSet
<1> HIDE DEF N
<1>3. step \in [1 .. N -> [Int -> Int]] /\ 1 \in Int
  <2> SUFFICES ASSUME NEW k \in 1 .. N, NEW acc \in Int PROVE Saturating(acc, product[k]) \in Int
    OBVIOUS
  <2> QED BY <1>1 DEF Saturating, MaxExponent
<1>4. PICK f : f \in [SUBSET (1 .. N) -> Int] /\ Stepwise(f, N, Int, 1, step)
  <2> HIDE DEF step
  <2> QED BY <1>1, <1>3, FoldExistsStepwise, Zenon
<1>5. Is(f)
  <2>1. f = [s \in SUBSET (1 .. N) |-> f[s]]
    BY <1>4
  <2>2. ASSUME NEW s \in SUBSET (1 .. N)
        PROVE  f[s] = IF s = {} THEN 1 ELSE Saturating(f[s \ {Max(s)}], product[Max(s)])
    BY <1>4 DEF Stepwise
  <2> QED BY <1>1, <2>1, <2>2 DEF Saturating
<1> DEFINE cut == CHOOSE g : Is(g)
<1>6. Is(cut)
  <2> HIDE DEF Is
  <2> QED BY <1>5
<1> HIDE DEF cut
<1>7. cut[{}] = 1
  BY <1>1, <1>6
<1>8. ASSUME NEW k \in 1 .. N PROVE cut[1 .. k] = Saturating(cut[1 .. k - 1], product[k])
  <2>1. Max(1 .. k) = k /\ (1 .. k) \ {k} = 1 .. k - 1
    BY <1>1, LastIndex
  <2>2. 1 .. k \in SUBSET DOMAIN product /\ k \in 1 .. k
    BY <1>1
  <2> QED BY <1>6, <2>1, <2>2 DEF Saturating
<1>9. FoldNumber(product) = cut[1 .. N]
  BY <1>1, <1>2 DEF cut
<1> QED BY <1>7, <1>8, <1>9 DEF N

\* A product that is accepted is what its factors make.
LEMMA AcceptedProducts ==
  ASSUME NEW product \in Seq(Int), ~(Absolute(FoldNumber(product)) > MaxExponent)
  PROVE  Absolute(FoldLeft(LAMBDA acc, n : acc * n, 1, product)) <= MaxExponent
<1>1. PICK all : /\ all[{}] = 1 /\ FoldLeft(LAMBDA acc, n : acc * n, 1, product) = all[1 .. Len(product)]
                 /\ \A k \in 1 .. Len(product) :
                      all[1 .. k - 1] \in Int /\ all[1 .. k] = all[1 .. k - 1] * product[k] /\ all[1 .. k] \in Int
  BY ProductsByFactor
<1>2. PICK cut : /\ cut[{}] = 1 /\ FoldNumber(product) = cut[1 .. Len(product)]
                 /\ \A k \in 1 .. Len(product) : cut[1 .. k] = Saturating(cut[1 .. k - 1], product[k])
  BY NumbersByFactor
<1> DEFINE N == Len(product)
           bad == {k \in 0 .. N : ~(cut[1 .. k] = all[1 .. k] \/ Absolute(cut[1 .. k]) > MaxExponent)}
<1>3. N \in Nat /\ \A k \in 1 .. N : product[k] \in Int
  OBVIOUS
<1> HIDE DEF N
<1>4. bad = {}
  <2> SUFFICES ASSUME bad # {} PROVE FALSE
    OBVIOUS
  <2>1. PICK k \in bad : \A j \in bad : k <= j
    <3>1. bad \in SUBSET Nat
      BY <1>3
    <3> HIDE DEF bad
    <3> QED BY <3>1, LeastNumber
  <2>2. k # 0
    <3>1. 1 .. 0 = {}
      OBVIOUS
    <3> QED BY <1>1, <1>2, <2>1, <3>1
  <2>3. k \in 1 .. N /\ k - 1 \in 0 .. N /\ k - 1 \notin bad
    BY <1>3, <2>1, <2>2
  <2>4. cut[1 .. k - 1] = all[1 .. k - 1] \/ Absolute(cut[1 .. k - 1]) > MaxExponent
    BY <2>3
  <2>5. cut[1 .. k] = Saturating(cut[1 .. k - 1], product[k])
    BY <1>2, <2>3 DEF N
  <2>6. all[1 .. k] = all[1 .. k - 1] * product[k]
    BY <1>1, <2>3 DEF N
  <2>7. Absolute(MaxExponent + 1) > MaxExponent
    BY DEF Absolute, MaxExponent
  <2>8. cut[1 .. k] = all[1 .. k] \/ Absolute(cut[1 .. k]) > MaxExponent
    <3>1. CASE Absolute(cut[1 .. k - 1]) > MaxExponent \/ Absolute(product[k]) > MaxExponent
      BY <2>5, <2>7, <3>1 DEF Saturating
    <3>2. CASE ~(Absolute(cut[1 .. k - 1]) > MaxExponent \/ Absolute(product[k]) > MaxExponent)
      BY <2>4, <2>5, <2>6, <3>2 DEF Saturating
    <3> QED BY <3>1, <3>2
  <2> QED BY <2>1, <2>8
<1>5. cut[1 .. N] = all[1 .. N] \/ Absolute(cut[1 .. N]) > MaxExponent
  BY <1>3, <1>4
<1>6. cut[1 .. N] = all[1 .. N]
  BY <1>2, <1>5 DEF N
<1>7. all[1 .. N] \in Int
  <2>1. CASE N = 0
    <3>1. 1 .. N = {}
      BY <2>1
    <3>2. all[1 .. N] = 1
      BY <1>1, <3>1
    <3> QED BY <3>2
  <2>2. CASE N # 0
    <3>1. N \in 1 .. N
      BY <1>3, <2>2
    <3> QED BY <1>1, <3>1 DEF N
  <2> QED BY <2>1, <2>2
<1>8. Absolute(all[1 .. N]) \in Int /\ ~(Absolute(all[1 .. N]) > MaxExponent) /\ MaxExponent \in Int
  BY <1>2, <1>6, <1>7 DEF Absolute, MaxExponent, N
<1>9. Absolute(all[1 .. N]) <= MaxExponent
  BY <1>8
<1> QED BY <1>1, <1>9 DEF N

LEMMA ComputedProducts ==
  ASSUME NEW e, e.exponents \cup e.factorials \subseteq Seq(Int), Computed(e)
  PROVE  \A x \in e.exponents \cup e.factorials :
           Absolute(FoldLeft(LAMBDA acc, n : acc * n, 1, x)) <= MaxExponent
<1> SUFFICES ASSUME NEW x \in e.exponents \cup e.factorials
             PROVE  Absolute(FoldLeft(LAMBDA acc, n : acc * n, 1, x)) <= MaxExponent
  OBVIOUS
<1>1. x \in Seq(Int)
  OBVIOUS
<1>2. ~(Absolute(FoldNumber(x)) > MaxExponent)
  <2>1. CASE x = Symbolic
    <3>1. PICK cut : cut[{}] = 1 /\ FoldNumber(x) = cut[1 .. Len(x)]
      BY <1>1, NumbersByFactor
    <3>2. Len(x) = 0 /\ 1 .. 0 = {}
      BY <2>1 DEF Symbolic
    <3>3. FoldNumber(x) = 1
      BY <3>1, <3>2
    <3> QED BY <3>3 DEF Absolute, MaxExponent
  <2>2. CASE x # Symbolic
    <3>1. ~Refused(e)
      BY DEF Computed
    <3>2. MaxFactorial = MaxExponent
      BY DEF MaxFactorial, MaxExponent
    <3> QED BY <2>2, <3>1, <3>2 DEF Refused
  <2> QED BY <2>1, <2>2
<1> QED BY <1>1, <1>2, AcceptedProducts

\* The source a claim stands for was supplied, and the claim names it.
LEMMA FirstHit ==
  ASSUME NEW N \in Nat, NEW T \in SUBSET (1 .. N), T # {}
  PROVE  Min(T) \in T
<1>1. PICK x \in T : \A y \in T : x <= y
  <2>1. T \in SUBSET Nat
    OBVIOUS
  <2> QED BY <2>1, LeastNumber
<1> QED BY <1>1 DEF Min

LEMMA SequenceIndices ==
  ASSUME NEW s, IsASequence(s)
  PROVE  Len(s) \in Nat /\ DOMAIN s = 1 .. Len(s) /\ ToSet(s) = {s[i] : i \in 1 .. Len(s)}
  BY DEF IsASequence, ToSet

LEMMA CitedByTitle ==
  ASSUME NEW evidence, IsASequence(evidence), NEW title
  PROVE  /\ ByTitle(title, evidence) \in 0 .. Len(evidence)
         /\ ByTitle(title, evidence) # 0 => evidence[ByTitle(title, evidence)].title = title
         /\ (\E i \in 1 .. Len(evidence) : evidence[i].title = title) => ByTitle(title, evidence) # 0
<1>1. Len(evidence) \in Nat
  BY SequenceIndices
<1> DEFINE T == {i \in 1 .. Len(evidence) : evidence[i].title = title}
<1>2. ByTitle(title, evidence) = IF T # {} THEN Max(T) ELSE 0
  BY DEF ByTitle, SelectLastInSeq, SelectLastInSubSeq
<1>3. T # {} => Max(T) \in T
  BY <1>1, Greatest
<1> QED BY <1>1, <1>2, <1>3

LEMMA MatchedIsNamed ==
  ASSUME NEW evidence, IsASequence(evidence), NEW claim, claim # {}, Matched(claim, evidence) # 0
  PROVE  /\ Matched(claim, evidence) \in DOMAIN evidence
         /\ LET e == evidence[Matched(claim, evidence)] IN
            claim = e.citation \/ (e.title # {} /\ e.title \subseteq claim)
<1> DEFINE N == Len(evidence)
           m == Matched(claim, evidence)
           ways == <<ByCitation(claim, evidence), ByTitle(claim, evidence), ByContainedTitle(claim, evidence)>>
           hits == {i \in 1 .. Len(ways) : ways[i] # 0}
           IsTheirs(i) == i \in 1 .. N /\ (claim = evidence[i].citation
                                        \/ (evidence[i].title # {} /\ evidence[i].title \subseteq claim))
<1>1. N \in Nat /\ DOMAIN evidence = 1 .. N
  BY SequenceIndices
<1>2. Len(ways) = 3
  OBVIOUS
<1>3. m = IF hits # {} THEN ways[Min(hits)] ELSE 0
  <2> DEFINE hit == IF hits # {} THEN Min(hits) ELSE 0
  <2>1. m = IF hit = 0 THEN 0 ELSE ways[hit]
    BY DEF Matched, SelectInSeq
  <2>2. hits # {} => Min(hits) \in hits
    <3>1. hits \in SUBSET (1 .. 3) /\ 3 \in Nat
      BY <1>2
    <3> HIDE DEF hits
    <3> QED BY <3>1, FirstHit
  <2>3. hits # {} => Min(hits) # 0
    BY <1>2, <2>2
  <2> HIDE DEF hits, ways, m
  <2> QED BY <2>1, <2>3
<1>4. ByCitation(claim, evidence) # 0 => IsTheirs(ByCitation(claim, evidence))
  <2> DEFINE T == {i \in 1 .. N : evidence[i].citation = claim}
  <2>1. ByCitation(claim, evidence) = IF T # {} THEN Max(T) ELSE 0
    BY DEF ByCitation, SelectLastInSeq
  <2>2. T # {} => Max(T) \in T
    BY <1>1, Greatest
  <2> QED BY <2>1, <2>2
<1>5. ByTitle(claim, evidence) # 0 => IsTheirs(ByTitle(claim, evidence))
  BY <1>1, CitedByTitle
<1>6. ByContainedTitle(claim, evidence) # 0 => IsTheirs(ByContainedTitle(claim, evidence))
  <2> DEFINE T == {i \in 1 .. N : evidence[i].title # {} /\ evidence[i].title \subseteq claim}
             i == IF T # {} THEN Min(T) ELSE 0
  <2> SUFFICES ASSUME ByContainedTitle(claim, evidence) # 0 PROVE IsTheirs(ByContainedTitle(claim, evidence))
    OBVIOUS
  <2>1. ByContainedTitle(claim, evidence) = IF i = 0 THEN 0 ELSE ByTitle(evidence[i].title, evidence)
    BY DEF ByContainedTitle, SelectInSeq
  <2>2. T # {} => Min(T) \in T
    BY <1>1, FirstHit
  <2>3. i # 0 /\ T # {} /\ i \in T
    <3> HIDE DEF T
    <3> QED BY <2>1, <2>2
  <2>4. i \in 1 .. N /\ evidence[i].title # {} /\ evidence[i].title \subseteq claim
    BY <2>3
  <2> HIDE DEF i
  <2>5. ByContainedTitle(claim, evidence) = ByTitle(evidence[i].title, evidence)
    BY <2>1, <2>3
  <2>6. ByTitle(evidence[i].title, evidence) \in 1 .. N
    BY <1>1, <2>1, <2>3, CitedByTitle
  <2>7. evidence[ByTitle(evidence[i].title, evidence)].title = evidence[i].title
    BY <1>1, <2>6, CitedByTitle
  <2> QED BY <2>4, <2>5, <2>6, <2>7
<1>7. hits # {} => Min(hits) \in {1, 2, 3} /\ ways[Min(hits)] # 0
  <2>1. hits \in SUBSET (1 .. 3) /\ 3 \in Nat
    BY <1>2
  <2>2. hits # {} => Min(hits) \in hits
    <3> HIDE DEF hits
    <3> QED BY <2>1, FirstHit
  <2> QED BY <1>2, <2>2
<1>8. m \in {ByCitation(claim, evidence), ByTitle(claim, evidence), ByContainedTitle(claim, evidence)}
  <2>1. \A k \in {1, 2, 3} : ways[k] \in {ByCitation(claim, evidence), ByTitle(claim, evidence), ByContainedTitle(claim, evidence)}
    OBVIOUS
  <2> HIDE DEF ways, hits
  <2> QED BY <1>3, <1>7, <2>1 DEF m
<1>9. IsTheirs(m)
  BY <1>4, <1>5, <1>6, <1>8
<1> QED BY <1>1, <1>9

LEMMA CitedSourcesWereSupplied ==
  ASSUME NEW reply, NEW evidence, NEW most, IsASequence(evidence), IsASequence(reply),
         \A section \in ToSet(reply) : {} \notin section.claims,
         NEW c \in ParseNotes(reply, evidence, most).sources
  PROVE  \E i \in DOMAIN evidence, claim \in UNION {section.claims : section \in ToSet(reply)} :
           LET e == evidence[i] IN
           e.citation = c /\ (claim = c \/ (e.title # {} /\ e.title \subseteq claim))
<1> DEFINE kept == {i \in DOMAIN reply : reply[i].explanation}
           claims == UNION {reply[i].claims : i \in kept}
<1>1. c \in {evidence[Matched(d, evidence)].citation : d \in {k \in claims : Matched(k, evidence) # 0}}
  BY DEF ParseNotes
<1>2. PICK d \in claims : Matched(d, evidence) # 0 /\ c = evidence[Matched(d, evidence)].citation
  BY <1>1
<1>3. PICK i \in DOMAIN reply : d \in reply[i].claims
  BY <1>2
<1>4. reply[i] \in ToSet(reply)
  BY <1>3 DEF ToSet
<1>5. d # {} /\ d \in UNION {section.claims : section \in ToSet(reply)}
  BY <1>3, <1>4
<1> QED BY <1>2, <1>5, MatchedIsNamed

-----------------------------------------------------------------------------
(* The sum of a sequence of lengths.                                        *)

Sums(p, s) == p \in [0 .. Len(s) -> Nat] /\ p[0] = 0 /\ \A k \in 1 .. Len(s) : p[k] = p[k - 1] + s[k]

LEMMA SumOfByIndex ==
  ASSUME NEW s \in Seq(Nat)
  PROVE  \E p : Sums(p, s) /\ SumOf(s) = p[Len(s)]
<1> DEFINE N == Len(s)
           step == [k \in 1 .. N |-> [sum \in Nat |-> sum + s[k]]]
           Is(f) == f = [t \in SUBSET DOMAIN s |-> IF t = {} THEN 0 ELSE f[t \ {Max(t)}] + s[Max(t)]]
<1>1. N \in Nat /\ DOMAIN s = 1 .. N /\ \A k \in 1 .. N : s[k] \in Nat
  OBVIOUS
<1>2. SumOf(s) = (CHOOSE f : Is(f))[DOMAIN s]
  BY DEF SumOf, FoldLeft, MapThenFoldSet
<1> HIDE DEF N
<1>3. step \in [1 .. N -> [Nat -> Nat]] /\ 0 \in Nat
  BY <1>1
<1>4. PICK f : f \in [SUBSET (1 .. N) -> Nat] /\ Stepwise(f, N, Nat, 0, step)
  <2> HIDE DEF step
  <2> QED BY <1>1, <1>3, FoldExistsStepwise, Zenon
<1>5. Is(f)
  <2>1. f = [t \in SUBSET (1 .. N) |-> f[t]]
    BY <1>4
  <2>2. ASSUME NEW t \in SUBSET (1 .. N)
        PROVE  f[t] = IF t = {} THEN 0 ELSE f[t \ {Max(t)}] + s[Max(t)]
    BY <1>4 DEF Stepwise
  <2> QED BY <1>1, <2>1, <2>2
<1> DEFINE all == CHOOSE g : Is(g)
<1>6. Is(all)
  <2> HIDE DEF Is
  <2> QED BY <1>5
<1> HIDE DEF all
<1>7. all[{}] = 0
  BY <1>1, <1>6
<1>8. ASSUME NEW k \in 1 .. N PROVE all[1 .. k] = all[1 .. k - 1] + s[k]
  <2>1. Max(1 .. k) = k /\ (1 .. k) \ {k} = 1 .. k - 1
    BY <1>1, LastIndex
  <2>2. 1 .. k \in SUBSET DOMAIN s /\ k \in 1 .. k
    BY <1>1
  <2> QED BY <1>6, <2>1, <2>2
<1>9. \A k \in 0 .. N : all[1 .. k] \in Nat
  <2> DEFINE bad == {k \in 0 .. N : all[1 .. k] \notin Nat}
  <2> SUFFICES ASSUME bad # {} PROVE FALSE
    OBVIOUS
  <2>1. PICK k \in bad : \A j \in bad : k <= j
    <3>1. bad \in SUBSET Nat
      BY <1>1
    <3> HIDE DEF bad
    <3> QED BY <3>1, LeastNumber
  <2>2. CASE k = 0
    <3>1. 1 .. 0 = {}
      OBVIOUS
    <3> QED BY <1>7, <2>1, <2>2, <3>1
  <2>3. CASE k # 0
    <3>1. k \in 1 .. N /\ k - 1 \in 0 .. N /\ k - 1 \notin bad
      BY <1>1, <2>1, <2>3
    <3>2. all[1 .. k - 1] \in Nat
      BY <3>1
    <3> QED BY <1>1, <1>8, <2>1, <3>1, <3>2
  <2> QED BY <2>2, <2>3
<1> DEFINE p == [k \in 0 .. N |-> all[1 .. k]]
<1>10. p[0] = 0
  <2>1. 1 .. 0 = {} /\ 0 \in 0 .. N
    BY <1>1
  <2> QED BY <1>7, <2>1
<1>11. p \in [0 .. N -> Nat]
  BY <1>9
<1>12. ASSUME NEW k \in 1 .. N PROVE p[k] = p[k - 1] + s[k]
  <2>1. k \in 0 .. N /\ k - 1 \in 0 .. N
    BY <1>1
  <2> QED BY <1>8, <2>1
<1>13. SumOf(s) = p[N]
  BY <1>1, <1>2 DEF all
<1> HIDE DEF p
<1> QED BY <1>10, <1>11, <1>12, <1>13 DEF N, Sums

LEMMA SumsAgree ==
  ASSUME NEW s, NEW t, NEW p, NEW q, Sums(p, s), Sums(q, t), Len(s) \in Nat, Len(t) \in Nat,
         NEW n \in Nat, n <= Len(s), n <= Len(t), \A i \in 1 .. n : s[i] = t[i]
  PROVE  p[n] = q[n]
<1> DEFINE bad == {k \in 0 .. n : p[k] # q[k]}
<1> SUFFICES ASSUME bad # {} PROVE FALSE
  OBVIOUS
<1>1. PICK k \in bad : \A j \in bad : k <= j
  <2>1. bad \in SUBSET Nat
    OBVIOUS
  <2> HIDE DEF bad
  <2> QED BY <2>1, LeastNumber
<1>2. k # 0
  BY <1>1 DEF Sums
<1>3. k \in 1 .. n /\ k - 1 \in 0 .. n /\ k - 1 \notin bad
  BY <1>1, <1>2
<1>4. p[k - 1] = q[k - 1] /\ s[k] = t[k]
  BY <1>3
<1>5. p[k] = p[k - 1] + s[k] /\ q[k] = q[k - 1] + t[k]
  BY <1>3 DEF Sums
<1> QED BY <1>1, <1>4, <1>5

LEMMA SumOfNothing == SumOf(<<>>) = 0
<1>1. <<>> \in Seq(Nat) /\ Len(<<>>) = 0
  OBVIOUS
<1>2. PICK p : Sums(p, <<>>) /\ SumOf(<<>>) = p[0]
  BY <1>1, SumOfByIndex
<1> QED BY <1>2 DEF Sums

LEMMA SumOfIsNat ==
  ASSUME NEW s \in Seq(Nat)
  PROVE  SumOf(s) \in Nat
<1>1. PICK p : Sums(p, s) /\ SumOf(s) = p[Len(s)]
  BY SumOfByIndex
<1>2. Len(s) \in 0 .. Len(s)
  OBVIOUS
<1> QED BY <1>1, <1>2 DEF Sums

LEMMA SumOfAppend ==
  ASSUME NEW s \in Seq(Nat), NEW x \in Nat
  PROVE  Append(s, x) \in Seq(Nat) /\ SumOf(Append(s, x)) = SumOf(s) + x
<1> DEFINE t == Append(s, x)
           n == Len(s)
<1>1. t \in Seq(Nat) /\ Len(t) = n + 1 /\ n \in Nat /\ t[n + 1] = x /\ \A i \in 1 .. n : s[i] = t[i]
  OBVIOUS
<1> HIDE DEF t
<1>2. PICK p : Sums(p, s) /\ SumOf(s) = p[n]
  BY SumOfByIndex
<1>3. PICK q : Sums(q, t) /\ SumOf(t) = q[n + 1]
  BY <1>1, SumOfByIndex
<1>4. p[n] = q[n]
  <2>1. Len(s) \in Nat /\ Len(t) \in Nat /\ n <= Len(s) /\ n <= Len(t)
    BY <1>1
  <2> HIDE DEF n
  <2> QED BY <1>1, <1>2, <1>3, <2>1, SumsAgree
<1>5. q[n + 1] = q[n] + t[n + 1]
  <2>1. n + 1 \in 1 .. Len(t) /\ (n + 1) - 1 = n
    BY <1>1
  <2> QED BY <1>3, <2>1 DEF Sums
<1> QED BY <1>1, <1>2, <1>3, <1>4, <1>5 DEF t

LEMMA SumOfOne ==
  ASSUME NEW x \in Nat
  PROVE  SumOf(<<x>>) = x
<1>1. <<x>> = Append(<<>>, x) /\ <<>> \in Seq(Nat)
  OBVIOUS
<1>2. SumOf(Append(<<>>, x)) = SumOf(<<>>) + x
  BY <1>1, SumOfAppend
<1>3. SumOf(Append(<<>>, x)) = x
  BY <1>2, SumOfNothing
<1> QED BY <1>1, <1>3

LEMMA ConcatAppend ==
  ASSUME NEW S, NEW s \in Seq(S), NEW r \in Seq(S), NEW x \in S
  PROVE  s \o Append(r, x) = Append(s \o r, x)
<1> DEFINE left  == s \o Append(r, x)
           right == Append(s \o r, x)
<1>1. Append(r, x) \in Seq(S) /\ s \o r \in Seq(S)
  OBVIOUS
<1>2. left \in Seq(S) /\ right \in Seq(S)
  BY <1>1
<1>3. Len(left) = Len(s) + Len(r) + 1 /\ Len(right) = Len(s) + Len(r) + 1 /\ Len(s) \in Nat /\ Len(r) \in Nat
  BY <1>1
<1>4. ASSUME NEW i \in 1 .. Len(left) PROVE left[i] = right[i]
  <2>1. CASE i <= Len(s)
    BY <1>1, <1>3, <2>1
  <2>2. CASE i > Len(s) /\ i <= Len(s) + Len(r)
    <3>1. left[i] = Append(r, x)[i - Len(s)] /\ i - Len(s) \in 1 .. Len(r)
      BY <1>1, <1>3, <2>2
    <3>2. right[i] = (s \o r)[i] /\ (s \o r)[i] = r[i - Len(s)]
      BY <1>1, <1>3, <2>2
    <3> QED BY <1>1, <3>1, <3>2
  <2>3. CASE i = Len(s) + Len(r) + 1
    <3>1. left[i] = Append(r, x)[Len(r) + 1]
      BY <1>1, <1>3, <2>3
    <3> QED BY <1>1, <1>3, <2>3, <3>1
  <2> QED BY <1>3, <2>1, <2>2, <2>3
<1> HIDE DEF left, right
<1>5. left = right
  BY <1>2, <1>3, <1>4, SeqEqual
<1> QED BY <1>5 DEF left, right

\* Two sequences, one after the other.
LEMMA SumOfBoth ==
  ASSUME NEW s \in Seq(Nat), NEW t \in Seq(Nat)
  PROVE  s \o t \in Seq(Nat) /\ SumOf(s \o t) = SumOf(s) + SumOf(t)
<1> DEFINE N == Len(t)
           upto(k) == SubSeq(t, 1, k)
           bad == {k \in 0 .. N : SumOf(s \o upto(k)) # SumOf(s) + SumOf(upto(k))}
<1>1. N \in Nat
  OBVIOUS
<1>2. ASSUME NEW k \in 1 .. N
      PROVE  /\ upto(k - 1) \in Seq(Nat) /\ t[k] \in Nat /\ s \o upto(k - 1) \in Seq(Nat)
             /\ upto(k) = Append(upto(k - 1), t[k])
             /\ s \o upto(k) = Append(s \o upto(k - 1), t[k])
  <2>1. upto(k - 1) \in Seq(Nat) /\ t[k] \in Nat /\ s \o upto(k - 1) \in Seq(Nat)
    OBVIOUS
  <2>2. upto(k) = Append(upto(k - 1), t[k])
    OBVIOUS
  <2>3. s \o Append(upto(k - 1), t[k]) = Append(s \o upto(k - 1), t[k])
    <3> HIDE DEF upto
    <3>1. ASSUME NEW r \in Seq(Nat), NEW x \in Nat PROVE s \o Append(r, x) = Append(s \o r, x)
      BY ConcatAppend
    <3> QED BY <2>1, <3>1
  <2> QED BY <2>1, <2>2, <2>3
<1>3. bad = {}
  <2> SUFFICES ASSUME bad # {} PROVE FALSE
    OBVIOUS
  <2>1. PICK k \in bad : \A j \in bad : k <= j
    <3>1. bad \in SUBSET Nat
      BY <1>1
    <3> HIDE DEF bad
    <3> QED BY <3>1, LeastNumber
  <2>2. k # 0
    <3>1. upto(0) = <<>> /\ s \o <<>> = s
      OBVIOUS
    <3>2. SumOf(s) \in Nat
      BY SumOfIsNat
    <3>3. SumOf(s \o upto(0)) = SumOf(s) + SumOf(upto(0))
      <4> HIDE DEF upto
      <4>1. SumOf(s \o upto(0)) = SumOf(s) /\ SumOf(upto(0)) = 0
        BY <3>1, SumOfNothing
      <4> QED BY <3>2, <4>1
    <3> HIDE DEF upto
    <3> QED BY <2>1, <3>3
  <2>3. k \in 1 .. N /\ k - 1 \in 0 .. N /\ k - 1 \notin bad
    BY <1>1, <2>1, <2>2
  <2>4. SumOf(s \o upto(k - 1)) = SumOf(s) + SumOf(upto(k - 1))
    BY <2>3
  <2> HIDE DEF upto
  <2>5. SumOf(upto(k)) = SumOf(upto(k - 1)) + t[k]
    BY <1>2, <2>3, SumOfAppend
  <2>6. SumOf(s \o upto(k)) = SumOf(s \o upto(k - 1)) + t[k]
    BY <1>2, <2>3, SumOfAppend
  <2>7. SumOf(s) \in Nat /\ SumOf(upto(k - 1)) \in Nat /\ t[k] \in Nat
    BY <1>2, <2>3, SumOfIsNat
  <2>8. SumOf(s \o upto(k)) = SumOf(s) + SumOf(upto(k))
    BY <2>4, <2>5, <2>6, <2>7
  <2> QED BY <2>1, <2>8
<1>4. upto(N) = t /\ s \o t \in Seq(Nat)
  OBVIOUS
<1>5. SumOf(s \o upto(N)) = SumOf(s) + SumOf(upto(N))
  BY <1>1, <1>3
<1> HIDE DEF upto
<1> QED BY <1>4, <1>5

-----------------------------------------------------------------------------
(* An essay stays its author's.                                             *)

LEMMA CeilingIsAQuarter ==
  ASSUME NEW essay \in Nat
  PROVE  Ceiling(essay) \in Nat /\ 4 * Ceiling(essay) <= Larger(480, essay)
<1>1. essay \div 4 \in Nat /\ 4 * (essay \div 4) <= essay
  OBVIOUS
<1> QED BY <1>1 DEF Ceiling, MaxRewriteChars, Larger

LEMMA RewritesStayWithin ==
  ASSUME NEW s \in Seq(Nat), NEW essay \in Nat
  PROVE  4 * SumOf(EnforceAuthorship(s, essay).kept) <= Larger(480, essay) + 4 * Ellipsis
<1> DEFINE N == Len(s)
           used(n) == SumOf(SubSeq(s, 1, n))
           top  == Ceiling(essay)
           over == {i \in DOMAIN s : used(i) > top}
           cut  == CHOOSE i \in over : \A j \in over : i <= j
           room == top - used(cut - 1)
           rest == IF room = 0 THEN <<>> ELSE <<room + Ellipsis>>
           kept == EnforceAuthorship(s, essay).kept
<1>1. N \in Nat /\ DOMAIN s = 1 .. N /\ SubSeq(s, 1, N) = s
  OBVIOUS
<1>2. \A n \in 0 .. N : SubSeq(s, 1, n) \in Seq(Nat) /\ used(n) \in Nat
  <2> SUFFICES ASSUME NEW n \in 0 .. N PROVE SubSeq(s, 1, n) \in Seq(Nat) /\ used(n) \in Nat
    OBVIOUS
  <2>1. SubSeq(s, 1, n) \in Seq(Nat)
    OBVIOUS
  <2> QED BY <2>1, SumOfIsNat
<1>3. top \in Nat /\ 4 * top <= Larger(480, essay)
  BY CeilingIsAQuarter
<1>4. kept = IF over = {} THEN s ELSE SubSeq(s, 1, cut - 1) \o rest
  BY DEF EnforceAuthorship
<1> DEFINE within(n) == ~(used(n) > top)
<1>9. \A i \in DOMAIN s : i \in over <=> ~within(i)
  OBVIOUS
<1>5. used(0) = 0
  <2>1. SubSeq(s, 1, 0) = <<>>
    OBVIOUS
  <2> QED BY <2>1, SumOfNothing
<1>6. used(N) = SumOf(s)
  BY <1>1
<1> HIDE DEF used, top, kept, N
<1>7. SumOf(kept) \in Nat /\ SumOf(kept) <= top + Ellipsis
  <2>1. CASE over = {}
    <3>1. ~(used(N) > top)
      <4>1. CASE N = 0
        BY <1>3, <1>5, <4>1
      <4>2. CASE N # 0
        BY <1>1, <2>1, <4>2
      <4> QED BY <4>1, <4>2
    <3>2. kept = s
      BY <1>4, <2>1
    <3>3. used(N) \in Nat
      BY <1>1, <1>2
    <3> QED BY <1>3, <1>6, <3>1, <3>2, <3>3 DEF Ellipsis
  <2>2. CASE over # {}
    <3>1. cut \in over /\ \A j \in over : cut <= j
      <4>1. \E i \in over : \A j \in over : i <= j
        <5>1. over \in SUBSET Nat
          BY <1>1
        <5> HIDE DEF over
        <5> QED BY <2>2, <5>1, LeastNumber
      <4> HIDE DEF over
      <4> QED BY <4>1
    <3>2. cut \in 1 .. N /\ cut - 1 \in 0 .. N
      BY <1>1, <3>1
    <3> HIDE DEF cut
    <3>3. used(cut - 1) \in Nat /\ ~(used(cut - 1) > top)
      <4>1. used(cut - 1) \in Nat
        BY <1>2, <3>2
      <4>2. CASE cut = 1
        BY <1>3, <1>5, <4>2
      <4>3. CASE cut # 1
        <5>1. cut - 1 \in DOMAIN s /\ cut - 1 \notin over
          <6>1. cut - 1 \in DOMAIN s /\ ~(cut <= cut - 1)
            BY <1>1, <3>2, <4>3
          <6> HIDE DEF over
          <6> QED BY <3>1, <6>1
        <5>2. within(cut - 1)
          <6> HIDE DEF over, within
          <6> QED BY <1>9, <5>1, Zenon
        <5> QED BY <4>1, <5>2
      <4> QED BY <4>1, <4>2, <4>3
    <3>4. room \in Nat /\ used(cut - 1) + room = top
      BY <1>3, <3>3
    <3> HIDE DEF room
    <3>5. rest \in Seq(Nat) /\ SumOf(rest) \in Nat /\ SumOf(rest) <= room + Ellipsis
      <4>1. CASE room = 0
        <5>1. rest = <<>>
          BY <4>1
        <5> QED BY <4>1, <5>1, SumOfNothing DEF Ellipsis
      <4>2. CASE room # 0
        <5>1. rest = <<room + Ellipsis>> /\ room + Ellipsis \in Nat
          BY <3>4, <4>2 DEF Ellipsis
        <5> QED BY <5>1, SumOfOne
      <4> QED BY <4>1, <4>2
    <3>6. SubSeq(s, 1, cut - 1) \in Seq(Nat) /\ SumOf(SubSeq(s, 1, cut - 1)) = used(cut - 1)
      BY <1>2, <3>2 DEF used
    <3>7. kept = SubSeq(s, 1, cut - 1) \o rest
      BY <1>4, <2>2
    <3> HIDE DEF rest
    <3>8. SumOf(kept) = used(cut - 1) + SumOf(rest)
      BY <3>5, <3>6, <3>7, SumOfBoth
    <3> QED BY <1>3, <3>3, <3>4, <3>5, <3>8 DEF Ellipsis
  <2> QED BY <2>1, <2>2
<1>8. Larger(480, essay) \in Nat
  BY DEF Larger
<1> QED BY <1>3, <1>7, <1>8 DEF kept, Ellipsis

LEMMA FeedbackStaysWithin ==
  ASSUME NEW reply, reply.rewrites \in Seq(Nat), reply.grades \in Seq(Nat),
         NEW essay, essay.chars \in Nat, NEW rubric \in Nat
  PROVE  LET feedback == ParseFeedback(reply, essay, rubric) IN
         /\ 4 * SumOf(feedback.rewrites) <= Larger(480, essay.chars) + 4 * Ellipsis
         /\ rubric # 0 => \A m \in feedback.marks : m <= rubric
<1> DEFINE feedback == ParseFeedback(reply, essay, rubric)
<1>1. feedback.rewrites = EnforceAuthorship(reply.rewrites, essay.chars).kept
  BY DEF ParseFeedback
<1>2. ASSUME rubric # 0, NEW m \in feedback.marks PROVE m <= rubric
  <2>1. reply.grades # <<>>
    BY DEF ParseFeedback
  <2>2. PICK given \in Nat : given = reply.grades[Len(reply.grades)]
    BY <2>1
  <2>3. m = IF rubric # 0 /\ given > rubric THEN rubric ELSE given
    BY <2>1, <2>2 DEF ParseFeedback
  <2> QED BY <1>2, <2>3
<1> QED BY <1>1, <1>2, RewritesStayWithin

-----------------------------------------------------------------------------
(* Local OCR keeps the best of several readings.                            *)

LEMMA ReadingsByPass ==
  ASSUME NEW passes, IsASequence(passes)
  PROVE  \E best : /\ best[{}] = NoText /\ ReadLocally(passes) = best[1 .. Len(passes)]
                   /\ \A k \in 1 .. Len(passes) :
                        best[1 .. k] = IF IsBetter(passes[k], best[1 .. k - 1]) THEN passes[k] ELSE best[1 .. k - 1]
<1> DEFINE N == Len(passes)
           D == ToSet(passes) \cup {NoText}
           step == [k \in 1 .. N |-> [b \in D |-> IF IsBetter(passes[k], b) THEN passes[k] ELSE b]]
           Is(f) == f = [s \in SUBSET DOMAIN passes |->
                          IF s = {} THEN NoText
                          ELSE IF IsBetter(passes[Max(s)], f[s \ {Max(s)}]) THEN passes[Max(s)] ELSE f[s \ {Max(s)}]]
<1>1. N \in Nat /\ DOMAIN passes = 1 .. N /\ \A k \in 1 .. N : passes[k] \in D
  BY SequenceIndices
<1>2. ReadLocally(passes) = (CHOOSE f : Is(f))[DOMAIN passes]
  BY DEF ReadLocally, FoldLeft, MapThenFoldSet
<1> HIDE DEF N, D
<1>3. step \in [1 .. N -> [D -> D]] /\ NoText \in D
  <2>1. NoText \in D
    BY DEF D
  <2> QED BY <1>1, <2>1
<1>4. PICK f : f \in [SUBSET (1 .. N) -> D] /\ Stepwise(f, N, D, NoText, step)
  <2> HIDE DEF step
  <2> QED BY <1>1, <1>3, FoldExistsStepwise, Zenon
<1>5. Is(f)
  <2>1. f = [s \in SUBSET (1 .. N) |-> f[s]]
    BY <1>4
  <2>2. ASSUME NEW s \in SUBSET (1 .. N)
        PROVE  f[s] = IF s = {} THEN NoText
                      ELSE IF IsBetter(passes[Max(s)], f[s \ {Max(s)}]) THEN passes[Max(s)] ELSE f[s \ {Max(s)}]
    BY <1>4 DEF Stepwise
  <2> QED BY <1>1, <2>1, <2>2
<1> DEFINE best == CHOOSE g : Is(g)
<1>6. Is(best)
  <2> HIDE DEF Is
  <2> QED BY <1>5
<1> HIDE DEF best
<1>7. best[{}] = NoText
  BY <1>1, <1>6
<1>8. ASSUME NEW k \in 1 .. N
      PROVE  best[1 .. k] = IF IsBetter(passes[k], best[1 .. k - 1]) THEN passes[k] ELSE best[1 .. k - 1]
  <2>1. Max(1 .. k) = k /\ (1 .. k) \ {k} = 1 .. k - 1
    BY <1>1, LastIndex
  <2>2. 1 .. k \in SUBSET DOMAIN passes /\ k \in 1 .. k
    BY <1>1
  <2> QED BY <1>6, <2>1, <2>2
<1>9. ReadLocally(passes) = best[1 .. N]
  BY <1>1, <1>2 DEF best
<1> QED BY <1>7, <1>8, <1>9 DEF N

\* Symbols are kept only where no pass read words.
LEMMA WordsBeforeSymbols ==
  ASSUME NEW passes, IsASequence(passes), MostlySymbols(ReadLocally(passes))
  PROVE  \A j \in DOMAIN passes : passes[j].chars = 0 \/ MostlySymbols(passes[j])
<1> DEFINE N == Len(passes)
<1>1. N \in Nat /\ DOMAIN passes = 1 .. N
  BY SequenceIndices
<1>2. PICK best : /\ best[{}] = NoText /\ ReadLocally(passes) = best[1 .. N]
                  /\ \A k \in 1 .. N :
                       best[1 .. k] = IF IsBetter(passes[k], best[1 .. k - 1]) THEN passes[k] ELSE best[1 .. k - 1]
  BY ReadingsByPass
<1> HIDE DEF N
<1> DEFINE Good(k) == /\ best[1 .. k].chars = 0 => \A j \in 1 .. k : passes[j].chars = 0
                      /\ MostlySymbols(best[1 .. k]) =>
                           \A j \in 1 .. k : passes[j].chars = 0 \/ MostlySymbols(passes[j])
           bad == {k \in 0 .. N : ~Good(k)}
<1>3. Good(0)
  BY DEF Good
<1>4. ASSUME NEW k \in 1 .. N, Good(k - 1) PROVE Good(k)
  <2> DEFINE old == best[1 .. k - 1]
             new == passes[k]
             now == best[1 .. k]
  <2>1. now = IF IsBetter(new, old) THEN new ELSE old
    BY <1>2
  <2>2. \A j \in 1 .. k : j \in 1 .. k - 1 \/ j = k
    BY <1>1
  <2>3. /\ old.chars = 0 => \A j \in 1 .. k - 1 : passes[j].chars = 0
        /\ MostlySymbols(old) => \A j \in 1 .. k - 1 : passes[j].chars = 0 \/ MostlySymbols(passes[j])
    BY <1>4
  <2>4. IsBetter(new, old) <=>
          IF new.chars = 0 \/ old.chars = 0 THEN new.chars # 0
          ELSE IF MostlySymbols(new) # MostlySymbols(old) THEN MostlySymbols(old)
          ELSE IF 2 * new.chars > 3 * old.chars THEN TRUE
          ELSE IF 2 * old.chars > 3 * new.chars THEN FALSE
          ELSE Confidence(new) > Confidence(old)
    BY DEF IsBetter
  <2>5. MostlySymbols(new) \in BOOLEAN /\ MostlySymbols(old) \in BOOLEAN
    BY DEF MostlySymbols
  <2> HIDE DEF new, old
  <2>6. now.chars = 0 => new.chars = 0 /\ old.chars = 0
    BY <2>1, <2>4
  <2>7. MostlySymbols(now) => /\ new.chars = 0 \/ MostlySymbols(new)
                              /\ old.chars = 0 \/ MostlySymbols(old)
    BY <2>1, <2>4, <2>5
  <2> HIDE DEF now
  <2> QED BY <2>2, <2>3, <2>6, <2>7 DEF now, new
<1>5. bad = {}
  <2> SUFFICES ASSUME bad # {} PROVE FALSE
    OBVIOUS
  <2>1. PICK k \in bad : \A j \in bad : k <= j
    <3>1. bad \in SUBSET Nat
      BY <1>1
    <3> HIDE DEF bad
    <3> QED BY <3>1, LeastNumber
  <2>2. k \in 0 .. N /\ ~Good(k)
    BY <2>1
  <2> HIDE DEF Good
  <2>3. k # 0
    BY <1>3, <2>2
  <2>4. k \in 1 .. N /\ k - 1 \in 0 .. N /\ k - 1 \notin bad
    <3>1. k \in 1 .. N /\ k - 1 \in 0 .. N /\ ~(k <= k - 1)
      BY <1>1, <2>2, <2>3
    <3> HIDE DEF bad
    <3> QED BY <2>1, <3>1
  <2>5. Good(k - 1)
    BY <2>4
  <2> QED BY <1>4, <2>2, <2>4, <2>5
<1>6. Good(N)
  <2> HIDE DEF Good
  <2>1. N \in 0 .. N
    BY <1>1
  <2> QED BY <1>5, <2>1
<1> QED BY <1>1, <1>2, <1>6

-----------------------------------------------------------------------------
(* A verified answer has a claim about the unknown that solves the equation. *)

\* What holds at 0, and at k when it holds at k - 1, holds up to any index.
LEMMA UpToIndex ==
  ASSUME NEW N \in Nat, NEW G, 0 \in G, \A k \in 1 .. N : k - 1 \in G => k \in G
  PROVE  \A k \in 0 .. N : k \in G
<1> DEFINE bad == {k \in 0 .. N : k \notin G}
<1> SUFFICES ASSUME bad # {} PROVE FALSE
  OBVIOUS
<1>1. PICK k \in bad : \A j \in bad : k <= j
  <2>1. bad \in SUBSET Nat
    OBVIOUS
  <2> HIDE DEF bad
  <2> QED BY <2>1, LeastNumber
<1>2. k \in 0 .. N /\ k \notin G
  BY <1>1
<1>3. k \in 1 .. N /\ k - 1 \in 0 .. N /\ ~(k <= k - 1)
  BY <1>2
<1>4. k - 1 \notin bad
  <2> HIDE DEF bad
  <2> QED BY <1>1, <1>3
<1> QED BY <1>2, <1>3, <1>4

LEMMA ThoseByIndex ==
  ASSUME NEW s, IsASequence(s), NEW set
  PROVE  \E kept : /\ kept[{}] = <<>> /\ Those(s, set) = kept[1 .. Len(s)]
                   /\ \A k \in 1 .. Len(s) :
                        kept[1 .. k] = IF s[k] \in set THEN Append(kept[1 .. k - 1], s[k]) ELSE kept[1 .. k - 1]
<1> DEFINE N == Len(s)
           D == Seq(ToSet(s))
           step == [k \in 1 .. N |-> [sofar \in D |-> IF s[k] \in set THEN Append(sofar, s[k]) ELSE sofar]]
           Is(f) == f = [t \in SUBSET DOMAIN s |->
                          IF t = {} THEN <<>>
                          ELSE IF s[Max(t)] \in set THEN Append(f[t \ {Max(t)}], s[Max(t)]) ELSE f[t \ {Max(t)}]]
<1>1. N \in Nat /\ DOMAIN s = 1 .. N /\ \A k \in 1 .. N : s[k] \in ToSet(s)
  BY SequenceIndices
<1>2. Those(s, set) = (CHOOSE f : Is(f))[DOMAIN s]
  BY DEF Those, FoldLeft, MapThenFoldSet
<1> HIDE DEF N
<1>3. step \in [1 .. N -> [D -> D]] /\ <<>> \in D
  <2> SUFFICES ASSUME NEW k \in 1 .. N, NEW sofar \in D PROVE Append(sofar, s[k]) \in D
    OBVIOUS
  <2> QED BY <1>1
<1> HIDE DEF D
<1>4. PICK f : f \in [SUBSET (1 .. N) -> D] /\ Stepwise(f, N, D, <<>>, step)
  <2> HIDE DEF step
  <2> QED BY <1>1, <1>3, FoldExistsStepwise, Zenon
<1>5. Is(f)
  <2>1. f = [t \in SUBSET (1 .. N) |-> f[t]]
    BY <1>4
  <2>2. ASSUME NEW t \in SUBSET (1 .. N)
        PROVE  f[t] = IF t = {} THEN <<>>
                      ELSE IF s[Max(t)] \in set THEN Append(f[t \ {Max(t)}], s[Max(t)]) ELSE f[t \ {Max(t)}]
    BY <1>4 DEF Stepwise
  <2> QED BY <1>1, <2>1, <2>2
<1> DEFINE kept == CHOOSE g : Is(g)
<1>6. Is(kept)
  <2> HIDE DEF Is
  <2> QED BY <1>5
<1> HIDE DEF kept
<1>7. kept[{}] = <<>>
  BY <1>1, <1>6
<1>8. ASSUME NEW k \in 1 .. N
      PROVE  kept[1 .. k] = IF s[k] \in set THEN Append(kept[1 .. k - 1], s[k]) ELSE kept[1 .. k - 1]
  <2>1. Max(1 .. k) = k /\ (1 .. k) \ {k} = 1 .. k - 1
    BY <1>1, LastIndex
  <2>2. 1 .. k \in SUBSET DOMAIN s /\ k \in 1 .. k
    BY <1>1
  <2> QED BY <1>6, <2>1, <2>2
<1>9. Those(s, set) = kept[1 .. N]
  BY <1>1, <1>2 DEF kept
<1> QED BY <1>7, <1>8, <1>9 DEF N

LEMMA ThoseAreThose ==
  ASSUME NEW s, IsASequence(s), NEW set
  PROVE  Those(s, set) \in Seq(ToSet(s) \cap set)
<1> DEFINE N == Len(s)
           D == Seq(ToSet(s) \cap set)
<1>1. N \in Nat /\ \A k \in 1 .. N : s[k] \in ToSet(s)
  BY SequenceIndices
<1>2. PICK kept : /\ kept[{}] = <<>> /\ Those(s, set) = kept[1 .. N]
                  /\ \A k \in 1 .. N :
                       kept[1 .. k] = IF s[k] \in set THEN Append(kept[1 .. k - 1], s[k]) ELSE kept[1 .. k - 1]
  BY ThoseByIndex
<1> HIDE DEF N
<1> DEFINE G == {k \in 0 .. N : kept[1 .. k] \in D}
<1>3. 0 \in G
  <2>1. 1 .. 0 = {} /\ 0 \in 0 .. N /\ <<>> \in D
    BY <1>1
  <2> QED BY <1>2, <2>1
<1>4. ASSUME NEW k \in 1 .. N, k - 1 \in G PROVE k \in G
  <2>1. k \in 0 .. N /\ kept[1 .. k - 1] \in D
    BY <1>4
  <2>2. s[k] \in set => Append(kept[1 .. k - 1], s[k]) \in D
    BY <1>1, <2>1
  <2> QED BY <1>2, <2>1, <2>2
<1>5. N \in G
  <2> HIDE DEF G
  <2>1. \A k \in 0 .. N : k \in G
    BY <1>1, <1>3, <1>4, UpToIndex
  <2> QED BY <1>1, <2>1
<1> QED BY <1>2, <1>5

LEMMA SaidInForm ==
  ASSUME NEW answer, IsASequence(answer), NEW form
  PROVE  Said(answer, form) \in Seq({st \in ToSet(answer) : st.form = form})
<1> DEFINE of == {st \in ToSet(answer) : st.form = form}
<1>1. Those(answer, of) \in Seq(ToSet(answer) \cap of)
  <2> HIDE DEF of
  <2> QED BY ThoseAreThose
<1>2. ToSet(answer) \cap of = of
  OBVIOUS
<1> HIDE DEF of
<1>3. Those(answer, of) \in Seq(of)
  BY <1>1, <1>2
<1> QED BY <1>3 DEF Said, of

LEMMA ClaimsWereSaid ==
  ASSUME NEW answer, IsASequence(answer)
  PROVE  ExtractClaims(answer) \in Seq({Claim(st) : st \in {u \in ToSet(answer) : u.form \in {"assignment", "final"}}})
<1> DEFINE of(form) == {st \in ToSet(answer) : st.form = form}
           claims == {u \in ToSet(answer) : u.form \in {"assignment", "final"}}
           said == Said(answer, "assignment") \o Said(answer, "final")
           N == Len(said)
<1>1. Said(answer, "assignment") \in Seq(of("assignment")) /\ Said(answer, "final") \in Seq(of("final"))
  BY SaidInForm
<1>2. of("assignment") \subseteq claims /\ of("final") \subseteq claims
  OBVIOUS
<1> HIDE DEF of, claims
<1>3. Said(answer, "assignment") \in Seq(claims) /\ Said(answer, "final") \in Seq(claims)
  BY <1>1, <1>2
<1>4. said \in Seq(claims)
  BY <1>3
<1>5. ExtractClaims(answer) = [i \in DOMAIN said |-> Claim(said[i])]
  BY DEF ExtractClaims
<1> HIDE DEF said
<1>6. N \in Nat /\ DOMAIN said = 1 .. N /\ \A i \in 1 .. N : said[i] \in claims
  BY <1>4
<1> DEFINE D == {Claim(st) : st \in claims}
<1>7. \A i \in 1 .. N : Claim(said[i]) \in D
  BY <1>6
<1> HIDE DEF D, N
<1>8. [i \in 1 .. N |-> Claim(said[i])] \in Seq(D)
  BY <1>6, <1>7
<1> QED BY <1>5, <1>6, <1>8 DEF D, claims

LEMMA VerifiedIsEarned ==
  ASSUME NEW answer, IsASequence(answer.said),
         \A st \in ToSet(answer.said) : st.form = "assignment" => st.name # Nameless,
         NEW problem, problem.unknown # "none", problem.expects = <<>>, problem.form = Unreadable,
         problem.unit = NoUnit, VerifyAnswer(answer, problem) = "VERIFIED"
  PROVE  \E i \in DOMAIN answer.said :
           LET st == answer.said[i] IN
           /\ st.form = "final" \/ (st.form = "assignment" /\ st.name = problem.unknown)
           /\ Residual(problem.equation, <<st.value, 1>>) = 0
<1> DEFINE claims == ExtractClaims(answer.said)
           rest == WithoutEquation(answer, claims, problem)
           spoken == {u \in ToSet(answer.said) : u.form \in {"assignment", "final"}}
           D == {Claim(st) : st \in spoken}
           relevant == {c \in ToSet(claims) : AboutUnknown(c, problem)}
           about == Those(claims, relevant)
           verdicts == Substituted(claims, problem)
<1>1. rest = "NOT_APPLICABLE"
  <2> HIDE DEF claims
  <2> QED BY DEF WithoutEquation
<1>2. FirstOf(verdicts, LAMBDA v : v \in Decisive, rest) = "VERIFIED"
  <2> HIDE DEF claims, rest, verdicts
  <2> QED BY DEF VerifyAnswer, claims, rest, verdicts
<1>3. claims \in Seq(D)
  <2> HIDE DEF spoken, claims
  <2> QED BY ClaimsWereSaid DEF claims, spoken
<1>4. ToSet(claims) \subseteq D /\ IsASequence(claims)
  <2> HIDE DEF claims, D
  <2>1. \A i \in DOMAIN claims : claims[i] \in D /\ claims[i] \in ToSet(claims)
    BY <1>3 DEF ToSet
  <2>2. claims \in Seq(ToSet(claims))
    BY <1>3, <2>1
  <2>3. ToSet(claims) \subseteq D
    BY <2>1 DEF ToSet
  <2> QED BY <2>2, <2>3 DEF IsASequence
<1>5. about \in Seq(D \cap relevant)
  <2>1. about \in Seq(ToSet(claims) \cap relevant)
    <3> HIDE DEF claims, relevant
    <3> QED BY <1>4, ThoseAreThose
  <2> HIDE DEF about, claims, D, relevant
  <2> QED BY <1>4, <2>1
<1>6. verdicts = [i \in DOMAIN about |-> VerifyEquationSolution(problem.equation, <<about[i].value, 1>>)]
  <2> HIDE DEF claims
  <2> QED BY DEF Substituted
<1> DEFINE N == Len(about)
           T == {i \in 1 .. N : verdicts[i] \in Decisive}
<1>7. N \in Nat /\ DOMAIN about = 1 .. N /\ \A i \in 1 .. N : about[i] \in D \cap relevant
  <2> HIDE DEF about, D, relevant
  <2> QED BY <1>5
<1> HIDE DEF claims, rest, about, D, relevant, verdicts, spoken
<1>8. Len(verdicts) = N
  <2> HIDE DEF N
  <2> QED BY <1>6, <1>7
<1>9. PICK i \in 1 .. N : verdicts[i] = "VERIFIED"
  <2>1. T # {} => Min(T) \in T
    BY <1>7, FirstHit
  <2>2. SelectInSeq(verdicts, LAMBDA v : v \in Decisive) = IF T # {} THEN Min(T) ELSE 0
    BY <1>8 DEF SelectInSeq, SelectInSubSeq
  <2>3. "VERIFIED" = LET hit == SelectInSeq(verdicts, LAMBDA v : v \in Decisive) IN IF hit = 0 THEN rest ELSE verdicts[hit]
    BY <1>2 DEF FirstOf
  <2>4. T # {} /\ "VERIFIED" = verdicts[Min(T)]
    BY <1>1, <2>1, <2>2, <2>3
  <2> QED BY <2>1, <2>4
<1>10. VerifyEquationSolution(problem.equation, <<about[i].value, 1>>) = "VERIFIED"
  BY <1>6, <1>7, <1>9
<1>11. Residual(problem.equation, <<about[i].value, 1>>) = 0
  BY <1>10 DEF VerifyEquationSolution, Decided
<1>12. about[i] \in D /\ AboutUnknown(about[i], problem)
  BY <1>7 DEF relevant
<1>13. PICK st \in spoken : about[i] = Claim(st)
  BY <1>12 DEF D
<1>14. PICK k \in DOMAIN answer.said : st = answer.said[k]
  BY <1>13 DEF spoken, ToSet
<1>15. st.form = "final" \/ (st.form = "assignment" /\ st.name = problem.unknown)
  BY <1>12, <1>13 DEF spoken, Claim, AboutUnknown
<1>16. about[i].value = st.value
  BY <1>13 DEF Claim
<1> QED BY <1>11, <1>14, <1>15, <1>16

-----------------------------------------------------------------------------
(* The parts of a mock paper make up the paper.                             *)

Mixed(mix, part, count) ==
  /\ Len(mix) \in Nat \ {0} /\ DOMAIN mix = 1 .. Len(mix)
  /\ \A i, j \in DOMAIN mix : mix[i].type = mix[j].type => i = j
  /\ \A i \in DOMAIN mix : part[i] \in Nat
  /\ part[Len(mix)] = 0 /\ SumFunctionOnSet(part, DOMAIN mix) <= count

AllDiffer(f, set) == \A x, y \in set : f[x] = f[y] => x = y

MakesUp(given, count) ==
  /\ Total({[share |-> given[t], type |-> t] : t \in DOMAIN given}, "share") = count
  /\ \A t \in DOMAIN given : given[t] >= 0

\* Of the shares of a mix nothing is left over but what the last type takes.
LEMMA SharesOfMix ==
  ASSUME NEW minutes \in Int, NEW count \in Nat, NEW mix, mix = Mix(minutes),
         NEW part, DOMAIN part = DOMAIN mix, \A i \in DOMAIN mix : part[i] = (count * mix[i].share) \div 100
  PROVE  Mixed(mix, part, count)
<1> DEFINE Sum(n) == SumFunctionOnSet(part, 1 .. n)
<1>1. ASSUME NEW share \in {0, 20, 25, 40, 60}
      PROVE  (count * share) \div 100 \in Nat /\ 100 * ((count * share) \div 100) <= count * share
  <2>1. share \in Nat /\ count * share \in Nat
    BY <1>1
  <2> DEFINE n == count * share
  <2> HIDE DEF n
  <2>2. n \in Nat => n \div 100 \in Nat /\ 100 * (n \div 100) <= n
    OBVIOUS
  <2> QED BY <2>1, <2>2 DEF n
<1>2. ASSUME NEW n \in Nat, n # 0, \A i \in 1 .. n : part[i] \in Nat
      PROVE  Sum(n) = part[n] + Sum(n - 1)
  <2> DEFINE idx == 1 .. n
  <2>1. IsFiniteSet(idx)
    BY FS_Interval
  <2>2. n \in idx /\ idx \ {n} = 1 .. n - 1 /\ \A i \in idx : part[i] \in Nat
    BY <1>2
  <2> HIDE DEF idx
  <2>3. SumFunctionOnSet(part, idx) = part[n] + SumFunctionOnSet(part, idx \ {n})
    BY <2>1, <2>2, SumLess
  <2> QED BY <2>2, <2>3 DEF idx
<1>3. Sum(0) = 0
  <2>1. 1 .. 0 = {}
    OBVIOUS
  <2> QED BY <2>1, SumTakes, FS_EmptySet
<1>4. CASE minutes >= 45
  <2>1. mix = <<[type |-> "MCQ", share |-> 40], [type |-> "NUMERIC", share |-> 25],
                [type |-> "SHORT_ANSWER", share |-> 20], [type |-> "STRUCTURED", share |-> 0]>>
    BY <1>4 DEF Mix
  <2>2. Len(mix) = 4 /\ DOMAIN mix = 1 .. 4
    BY <2>1
  <2>3. /\ mix[1] = [type |-> "MCQ", share |-> 40] /\ mix[2] = [type |-> "NUMERIC", share |-> 25]
        /\ mix[3] = [type |-> "SHORT_ANSWER", share |-> 20] /\ mix[4] = [type |-> "STRUCTURED", share |-> 0]
    BY <2>1
  <2>4. \A i, j \in DOMAIN mix : mix[i].type = mix[j].type => i = j
    BY <2>2, <2>3
  <2>5. /\ part[1] = (count * 40) \div 100 /\ part[2] = (count * 25) \div 100
        /\ part[3] = (count * 20) \div 100 /\ part[4] = (count * 0) \div 100
    BY <2>2, <2>3
  <2>6. /\ part[1] \in Nat /\ 100 * part[1] <= count * 40
        /\ part[2] \in Nat /\ 100 * part[2] <= count * 25
        /\ part[3] \in Nat /\ 100 * part[3] <= count * 20
        /\ part[4] = 0
    BY <1>1, <2>5
  <2>7. \A i \in 1 .. 4 : part[i] \in Nat
    BY <2>6
  <2> HIDE DEF Sum
  <2>8. Sum(4) = part[4] + Sum(3) /\ Sum(3) = part[3] + Sum(2) /\ Sum(2) = part[2] + Sum(1) /\ Sum(1) = part[1] + Sum(0)
    <3>1. \A n \in 1 .. 4 : Sum(n) = part[n] + Sum(n - 1)
      BY <1>2, <2>7
    <3> QED BY <3>1
  <2>9. Sum(4) <= count
    BY <1>3, <2>6, <2>8
  <2> QED BY <2>2, <2>4, <2>6, <2>7, <2>9 DEF Sum, Mixed
<1>5. CASE ~(minutes >= 45)
  <2>1. mix = <<[type |-> "MCQ", share |-> 60], [type |-> "TRUE_FALSE", share |-> 20], [type |-> "NUMERIC", share |-> 0]>>
    BY <1>5 DEF Mix
  <2>2. Len(mix) = 3 /\ DOMAIN mix = 1 .. 3
    BY <2>1
  <2>3. /\ mix[1] = [type |-> "MCQ", share |-> 60] /\ mix[2] = [type |-> "TRUE_FALSE", share |-> 20]
        /\ mix[3] = [type |-> "NUMERIC", share |-> 0]
    BY <2>1
  <2>4. \A i, j \in DOMAIN mix : mix[i].type = mix[j].type => i = j
    BY <2>2, <2>3
  <2>5. part[1] = (count * 60) \div 100 /\ part[2] = (count * 20) \div 100 /\ part[3] = (count * 0) \div 100
    BY <2>2, <2>3
  <2>6. /\ part[1] \in Nat /\ 100 * part[1] <= count * 60
        /\ part[2] \in Nat /\ 100 * part[2] <= count * 20
        /\ part[3] = 0
    BY <1>1, <2>5
  <2>7. \A i \in 1 .. 3 : part[i] \in Nat
    BY <2>6
  <2> HIDE DEF Sum
  <2>8. Sum(3) = part[3] + Sum(2) /\ Sum(2) = part[2] + Sum(1) /\ Sum(1) = part[1] + Sum(0)
    <3>1. \A n \in 1 .. 3 : Sum(n) = part[n] + Sum(n - 1)
      BY <1>2, <2>7
    <3> QED BY <3>1
  <2>9. Sum(3) <= count
    BY <1>3, <2>6, <2>8
  <2> QED BY <2>2, <2>4, <2>6, <2>7, <2>9 DEF Sum, Mixed
<1> QED BY <1>4, <1>5

\* The types of a mix and what each is given, when the last takes the rest.
LEMMA PartsMakeUpTheCount ==
  ASSUME NEW set, IsFiniteSet(set), NEW last \in set, NEW named, AllDiffer(named, set),
         NEW count \in Nat, NEW part, \A i \in set : part[i] \in Nat, part[last] = 0,
         NEW rest \in Nat, rest + SumFunctionOnSet(part, set) = count,
         NEW given, DOMAIN given = {named[i] : i \in set},
         \A i \in set : given[named[i]] = IF i = last THEN rest ELSE part[i]
  PROVE  MakesUp(given, count)
<1> DEFINE types == {named[i] : i \in set}
           each == [i \in set |-> IF i = last THEN rest ELSE part[i]]
           row == [t \in types |-> [share |-> given[t], type |-> t]]
           rows == {[share |-> given[t], type |-> t] : t \in types}
           share == [r \in rows |-> r["share"]]
           Sum(f, s) == SumFunctionOnSet(f, s)
<1>2. ASSUME NEW i \in set PROVE given[named[i]] = each[i] /\ each[i] \in Nat
  <2>1. each[i] = IF i = last THEN rest ELSE part[i]
    OBVIOUS
  <2> HIDE DEF each
  <2> QED BY <2>1
<1>3. \A t \in types : given[t] \in Nat
  BY <1>2
<1>4. Sum(given, types) = Sum(each, set)
  <2> HIDE DEF each
  <2> QED BY <1>2, SumOfImage DEF AllDiffer
<1>5. IsFiniteSet(types)
  <2> DEFINE name == [i \in set |-> named[i]]
  <2>1. name \in Surjection(set, types)
    BY DEF Surjection
  <2> QED BY <2>1, FS_Surjection
<1>6. Sum(share, rows) = Sum(given, types)
  <2>1. \A t, u \in types : row[t] = row[u] => t = u
    <3> SUFFICES ASSUME NEW t \in types, NEW u \in types, row[t] = row[u] PROVE t = u
      OBVIOUS
    <3>1. row[t].type = t /\ row[u].type = u
      OBVIOUS
    <3> HIDE DEF row
    <3> QED BY <3>1
  <2>2. \A t \in types : share[row[t]] = given[t] /\ given[t] \in Nat
    BY <1>3
  <2>3. {row[t] : t \in types} = rows
    <3> HIDE DEF types
    <3> QED OBVIOUS
  <2> HIDE DEF row, rows, share, types
  <2>4. Sum(share, {row[t] : t \in types}) = Sum(given, types)
    BY <1>5, <2>1, <2>2, SumOfImage
  <2> QED BY <2>3, <2>4
<1>7. Sum(each, set) = count
  <2>1. each[last] = rest
    OBVIOUS
  <2>2. \A i \in (set) \ {last} : each[i] = part[i]
    OBVIOUS
  <2> HIDE DEF each
  <2>3. Sum(each, set) = each[last] + Sum(each, (set) \ {last})
    BY <1>2, <2>1, SumLess
  <2>4. Sum(part, set) = part[last] + Sum(part, (set) \ {last})
    BY <2>1, SumLess
  <2>5. IsFiniteSet((set) \ {last})
    BY FS_Subset
  <2>6. Sum(each, (set) \ {last}) = Sum(part, (set) \ {last}) /\ Sum(part, (set) \ {last}) \in Nat
    <3>1. Sum(each, (set) \ {last}) = Sum(part, (set) \ {last})
      BY <2>2, <2>5, SumAgrees
    <3>2. Sum(part, (set) \ {last}) \in Nat
      BY <2>5, SumIsNat
    <3> QED BY <3>1, <3>2
  <2>7. rest + Sum(part, set) = count
    OBVIOUS
  <2> HIDE DEF Sum
  <2> QED BY <2>1, <2>3, <2>4, <2>6, <2>7
<1>8. Total(rows, "share") = Sum(share, rows)
  BY DEF Total, SumFunction
<1>9. {[share |-> given[t], type |-> t] : t \in DOMAIN given} = rows
  OBVIOUS
<1> HIDE DEF rows, row, share, Sum, each
<1>10. Total(rows, "share") = count
  BY <1>4, <1>6, <1>7, <1>8
<1>11. \A t \in DOMAIN given : given[t] >= 0
  BY <1>3
<1> QED BY <1>9, <1>10, <1>11 DEF MakesUp

LEMMA PapersMakeUp ==
  ASSUME NEW duration \in Nat, NEW requested \in Nat, NEW plan
  PROVE  LET paper == BuildBlueprint(duration, requested, Limits(plan)) IN
         /\ Total({[share |-> paper.mix[t], type |-> t] : t \in DOMAIN paper.mix}, "share") = paper.count
         /\ \A t \in DOMAIN paper.mix : paper.mix[t] >= 0
         /\ paper.count <= Limits(plan).questions
<1> DEFINE limits  == Limits(plan)
           paper   == BuildBlueprint(duration, requested, limits)
           asked   == Larger(5, duration)
           minutes == Smaller(asked, limits.minutes)
           wanted  == IF requested = 0 THEN Larger(3, minutes \div 2) ELSE requested
           count   == Smaller(wanted, limits.questions)
           mix     == Mix(minutes)
           part    == [i \in DOMAIN mix |-> (count * mix[i].share) \div 100]
           rest    == count - SumFunctionOnSet(part, DOMAIN mix)
           given   == [t \in {mix[i].type : i \in DOMAIN mix} |->
                         LET i == CHOOSE k \in DOMAIN mix : mix[k].type = t IN
                         IF i = Len(mix) THEN rest ELSE part[i]]
<1>1. limits.minutes \in Nat /\ limits.questions \in Nat
  BY DEF Limits
<1> HIDE DEF limits
<1>2. minutes \in Nat
  BY <1>1 DEF Larger, Smaller
<1> HIDE DEF minutes
<1>3. wanted \in Nat
  BY <1>2 DEF Larger
<1> HIDE DEF wanted
<1>4. count \in Nat /\ count <= limits.questions
  BY <1>1, <1>3 DEF Smaller
<1> HIDE DEF count
<1>5. Mixed(mix, part, count)
  <2>1. mix = Mix(minutes) /\ DOMAIN part = DOMAIN mix
    OBVIOUS
  <2>2. \A i \in DOMAIN mix : part[i] = (count * mix[i].share) \div 100
    OBVIOUS
  <2>3. minutes \in Int
    BY <1>2
  <2> HIDE DEF mix, part
  <2> QED BY <1>4, <2>1, <2>2, <2>3, SharesOfMix
<1> HIDE DEF mix
<1>6. paper.count = count
  BY DEF BuildBlueprint, count, wanted, minutes, mix
<1>7. paper.mix = given
  <2>1. paper.mix = [t \in {mix[i].type : i \in DOMAIN mix} |->
                       LET i == CHOOSE k \in DOMAIN mix : mix[k].type = t IN
                       IF i = Len(mix) THEN count - SumFunction([k \in DOMAIN mix |-> (count * mix[k].share) \div 100])
                       ELSE (count * mix[i].share) \div 100]
    BY DEF BuildBlueprint, count, wanted, minutes, mix
  <2>2. SumFunction([k \in DOMAIN mix |-> (count * mix[k].share) \div 100]) = SumFunctionOnSet(part, DOMAIN mix)
    BY DEF SumFunction
  <2>3. ASSUME NEW t \in {mix[i].type : i \in DOMAIN mix}
        PROVE  LET i == CHOOSE k \in DOMAIN mix : mix[k].type = t IN
               part[i] = (count * mix[i].share) \div 100
    OBVIOUS
  <2> QED BY <2>1, <2>2, <2>3
<1> DEFINE N == Len(mix)
           named == [i \in 1 .. N |-> mix[i].type]
<1>8. /\ N \in Nat \ {0} /\ AllDiffer(named, 1 .. N)
      /\ \A i \in 1 .. N : part[i] \in Nat
      /\ part[N] = 0 /\ SumFunctionOnSet(part, 1 .. N) <= count
  BY <1>5 DEF Mixed, AllDiffer
<1>9. rest \in Nat /\ rest + SumFunctionOnSet(part, 1 .. N) = count
  <2>1. SumFunctionOnSet(part, 1 .. N) \in Nat
    <3>1. IsFiniteSet(1 .. N)
      BY <1>5, FS_Interval DEF Mixed
    <3> HIDE DEF part
    <3> QED BY <1>8, <3>1, SumIsNat
  <2>2. rest = count - SumFunctionOnSet(part, 1 .. N)
    BY <1>5 DEF Mixed
  <2> HIDE DEF rest, part
  <2> QED BY <1>4, <1>8, <2>1, <2>2
<1>10. DOMAIN given = {named[i] : i \in 1 .. N}
  BY <1>5 DEF Mixed
<1>11. ASSUME NEW i \in 1 .. N PROVE given[named[i]] = IF i = N THEN rest ELSE part[i]
  <2>1. (CHOOSE k \in DOMAIN mix : mix[k].type = mix[i].type) = i
    BY <1>5 DEF Mixed
  <2>2. mix[i].type \in {mix[k].type : k \in DOMAIN mix} /\ named[i] = mix[i].type
    BY <1>5 DEF Mixed
  <2>3. given[mix[i].type] = IF (CHOOSE k \in DOMAIN mix : mix[k].type = mix[i].type) = Len(mix) THEN rest
                            ELSE part[CHOOSE k \in DOMAIN mix : mix[k].type = mix[i].type]
    <3> HIDE DEF rest, part, named
    <3> QED BY <2>2
  <2> HIDE DEF rest, part, named, given
  <2> QED BY <2>1, <2>2, <2>3
<1> HIDE DEF part, rest, given, named
<1>12. MakesUp(given, count)
  <2> DEFINE set == 1 .. N
  <2>1. IsFiniteSet(set) /\ N \in set
    BY <1>8, FS_Interval
  <2>2. AllDiffer(named, set) /\ (\A i \in set : part[i] \in Nat) /\ part[N] = 0
    BY <1>8
  <2>3. rest \in Nat /\ rest + SumFunctionOnSet(part, set) = count /\ DOMAIN given = {named[i] : i \in set}
    BY <1>9, <1>10
  <2>4. \A i \in set : given[named[i]] = IF i = N THEN rest ELSE part[i]
    BY <1>11
  <2> HIDE DEF N, set
  <2> QED BY <1>4, <2>1, <2>2, <2>3, <2>4, PartsMakeUpTheCount
<1> HIDE DEF paper
<1> QED BY <1>4, <1>6, <1>7, <1>12 DEF paper, limits, MakesUp

-----------------------------------------------------------------------------
(* A prompt stays within its budget, and each section within its share.     *)

\* What the units of a section cost.
CostOf(units, costs) == SumOf([i \in DOMAIN units |-> costs[units[i]]])

LEMMA CostOfOneMore ==
  ASSUME NEW costs \in Seq(Nat), NEW units \in Seq(1 .. Len(costs)), NEW n \in 1 .. Len(costs)
  PROVE  /\ Append(units, n) \in Seq(1 .. Len(costs))
         /\ CostOf(Append(units, n), costs) = CostOf(units, costs) + costs[n]
<1> DEFINE spent == [i \in DOMAIN units |-> costs[units[i]]]
           m == Len(units)
           more == Append(units, n)
           now == [i \in DOMAIN more |-> costs[more[i]]]
<1>1. m \in Nat /\ DOMAIN units = 1 .. m /\ \A i \in 1 .. m : units[i] \in 1 .. Len(costs)
  OBVIOUS
<1>2. more \in Seq(1 .. Len(costs)) /\ DOMAIN more = 1 .. m + 1 /\ more[m + 1] = n /\ \A i \in 1 .. m : more[i] = units[i]
  OBVIOUS
<1>3. \A k \in 1 .. Len(costs) : costs[k] \in Nat
  OBVIOUS
<1> HIDE DEF m, more
<1>4. spent \in Seq(Nat) /\ Len(spent) = m /\ \A i \in 1 .. m : spent[i] = costs[units[i]]
  BY <1>1, <1>3
<1>5. now \in Seq(Nat) /\ Len(now) = m + 1 /\ \A i \in 1 .. m + 1 : now[i] = costs[more[i]]
  <2>1. \A i \in 1 .. m + 1 : more[i] \in 1 .. Len(costs)
    BY <1>1, <1>2
  <2> QED BY <1>1, <1>2, <1>3, <2>1
<1> HIDE DEF spent, now
<1>6. now = Append(spent, costs[n])
  <2> DEFINE next == Append(spent, costs[n])
  <2>1. next \in Seq(Nat) /\ Len(next) = m + 1 /\ next[m + 1] = costs[n] /\ \A i \in 1 .. m : next[i] = spent[i]
    BY <1>3, <1>4
  <2> HIDE DEF next
  <2>2. \A i \in 1 .. m + 1 : now[i] = next[i]
    BY <1>1, <1>2, <1>4, <1>5, <2>1
  <2>3. now = next
    BY <1>5, <2>1, <2>2
  <2> QED BY <2>3 DEF next
<1>7. SumOf(now) = SumOf(spent) + costs[n]
  BY <1>3, <1>4, <1>6, SumOfAppend
<1> QED BY <1>2, <1>7 DEF CostOf, now, spent, more

\* The units kept fit, and what is booked is what they cost.
LEMMA KeptCosts ==
  ASSUME NEW costs \in Seq(Nat), NEW cap \in Nat
  PROVE  LET kept == KeptWhole(costs, cap) IN
         /\ kept.used \in 0 .. cap
         /\ CostOf(kept.units, costs) = kept.used
<1> DEFINE N == Len(costs)
<1>1. N \in Nat /\ \A i \in 1 .. N : costs[i] \in Nat
  OBVIOUS
<1>2. PICK kept : KeptBy(kept, costs, cap, N) /\ KeptWhole(costs, cap) = kept[N]
  BY <1>1, KeptOneByOne
<1>3. KeptWhole(costs, cap).used \in 0 .. cap
  BY <1>1, KeptFits
<1> DEFINE G == {m \in 0 .. N : kept[m].units \in Seq(1 .. N) /\ CostOf(kept[m].units, costs) = kept[m].used}
<1>4. 0 \in G
  <2>1. kept[0] = None
    BY <1>1, <1>2 DEF KeptBy
  <2>2. <<>> \in Seq(1 .. N)
    OBVIOUS
  <2>3. CostOf(<<>>, costs) = 0
    <3>1. [i \in DOMAIN <<>> |-> costs[<<>>[i]]] = <<>>
      OBVIOUS
    <3> QED BY <3>1, SumOfNothing DEF CostOf
  <2>4. kept[0].units = <<>> /\ kept[0].used = 0
    BY <2>1 DEF None
  <2>5. 0 \in 0 .. N
    BY <1>1
  <2> HIDE DEF N
  <2> QED BY <2>2, <2>3, <2>4, <2>5, Zenon
<1>5. ASSUME NEW m \in 1 .. N, m - 1 \in G PROVE m \in G
  <2> DEFINE before == kept[m - 1]
  <2>1. kept[m] = Adding(before, costs, cap, m) /\ m \in 0 .. N
    BY <1>1, <1>2 DEF KeptBy
  <2>2. before.units \in Seq(1 .. N) /\ CostOf(before.units, costs) = before.used
    BY <1>5
  <2> HIDE DEF before
  <2>3. CASE before.used + costs[m] <= cap
    <3>1. kept[m].units = Append(before.units, m) /\ kept[m].used = before.used + costs[m]
      BY <2>1, <2>3 DEF Adding
    <3>2. /\ Append(before.units, m) \in Seq(1 .. N)
          /\ CostOf(Append(before.units, m), costs) = CostOf(before.units, costs) + costs[m]
      BY <2>2, CostOfOneMore
    <3> QED BY <2>1, <2>2, <3>1, <3>2
  <2>4. CASE ~(before.used + costs[m] <= cap)
    <3>1. kept[m] = before
      BY <2>1, <2>4 DEF Adding
    <3> QED BY <2>1, <2>2, <3>1
  <2> QED BY <2>3, <2>4
<1>6. N \in G
  <2> HIDE DEF G, N
  <2>1. \A m \in 0 .. N : m \in G
    BY <1>1, <1>4, <1>5, UpToIndex
  <2> QED BY <1>1, <2>1
<1> QED BY <1>2, <1>3, <1>6

LEMMA RoomIsBounded ==
  ASSUME NEW total \in Nat, NEW section \in DOMAIN Caps, NEW left \in Nat
  PROVE  /\ CapTokens(total, section) \in Nat /\ Room(total, section, left) \in Nat
         /\ Room(total, section, left) <= CapTokens(total, section) /\ Room(total, section, left) <= left
<1>1. PICK share \in Nat : share = Caps[section]
  BY DEF Caps
<1>2. PICK n \in Nat : n = total * share
  OBVIOUS
<1>3. n \div 100 \in Nat
  OBVIOUS
<1>4. PICK cap \in Nat : cap = CapTokens(total, section)
  BY <1>1, <1>2, <1>3 DEF CapTokens
<1>5. cap <= left => Min({cap, left}) = cap
  BY DEF Min
<1>6. ~(cap <= left) => Min({cap, left}) = left
  BY DEF Min
<1> QED BY <1>4, <1>5, <1>6 DEF Room

LEMMA KeptOrNotFits ==
  ASSUME NEW cost \in Nat, NEW cap \in Nat
  PROVE  KeptOrNot(cost, cap) \in Nat /\ KeptOrNot(cost, cap) <= cap
  BY DEF KeptOrNot

LEMMA SectionFits ==
  ASSUME NEW total \in Nat, NEW section \in DOMAIN Caps, NEW left \in Nat, NEW cost \in Nat,
         NEW kept, kept = KeptOrNot(cost, Room(total, section, left))
  PROVE  kept \in Nat /\ kept <= left /\ kept <= CapTokens(total, section) /\ CapTokens(total, section) \in Nat
<1>1. PICK room \in Nat : room = Room(total, section, left)
  BY RoomIsBounded
<1>2. kept \in Nat /\ kept <= room
  BY <1>1, KeptOrNotFits
<1>3. PICK cap \in Nat : cap = CapTokens(total, section)
  BY RoomIsBounded
<1>4. room <= cap /\ room <= left
  BY <1>1, <1>3, RoomIsBounded
<1>5. kept <= left /\ kept <= cap
  BY <1>2, <1>4
<1> QED BY <1>2, <1>3, <1>5

Fitting(kept, costs, cap, left) ==
  /\ kept.used \in Nat /\ kept.used <= left
  /\ kept.used <= cap /\ cap \in Nat
  /\ CostOf(kept.units, costs) = kept.used

LEMMA UnitsFit ==
  ASSUME NEW total \in Nat, NEW section \in DOMAIN Caps, NEW left \in Nat, NEW costs \in Seq(Nat),
         NEW kept, kept = KeptWhole(costs, Room(total, section, left))
  PROVE  Fitting(kept, costs, CapTokens(total, section), left)
<1>1. PICK room \in Nat : room = Room(total, section, left)
  BY RoomIsBounded
<1>2. kept.used \in 0 .. room /\ CostOf(kept.units, costs) = kept.used
  BY <1>1, KeptCosts
<1>3. PICK cap \in Nat : cap = CapTokens(total, section)
  BY RoomIsBounded
<1>4. room <= cap /\ room <= left
  BY <1>1, <1>3, RoomIsBounded
<1>5. PICK used \in Nat : used = kept.used
  BY <1>2
<1>6. used <= left /\ used <= cap
  BY <1>2, <1>4, <1>5
<1> QED BY <1>2, <1>3, <1>5, <1>6 DEF Fitting

Wanted == [persona : Nat, summary : Nat, turns : Seq(Nat), memories : Seq(Nat), evidence : Seq(Nat)]

LEMMA AllocatedFits ==
  ASSUME NEW total \in Nat, NEW fixed \in Nat, NEW want \in Wanted
  PROVE  LET plan == Allocate(total, fixed, want)
             cost == [persona  |-> plan.persona, summary |-> plan.summary,
                      evidence |-> CostOf(plan.evidence, want.evidence),
                      turns    |-> CostOf(plan.turns, Reverse(want.turns)),
                      memories |-> CostOf(plan.memories, want.memories)]
         IN  /\ plan.used = fixed + cost.persona + cost.summary + cost.evidence + cost.turns + cost.memories
             /\ plan.used <= Larger(fixed, total)
             /\ \A section \in DOMAIN cost : cost[section] <= CapTokens(total, section)
<1> DEFINE plan     == Allocate(total, fixed, want)
           left0    == total - fixed
           persona  == KeptOrNot(want.persona, Room(total, "persona", left0))
           left1    == left0 - persona
           evidence == KeptWhole(want.evidence, Room(total, "evidence", left1))
           left2    == left1 - evidence.used
           turns    == KeptWhole(Reverse(want.turns), Room(total, "turns", left2))
           left3    == left2 - turns.used
           summary  == KeptOrNot(want.summary, Room(total, "summary", left3))
           left4    == left3 - summary
           memories == KeptWhole(want.memories, Room(total, "memories", left4))
           cap(section) == CapTokens(total, section)
           cost == [persona  |-> plan.persona, summary |-> plan.summary,
                    evidence |-> CostOf(plan.evidence, want.evidence),
                    turns    |-> CostOf(plan.turns, Reverse(want.turns)),
                    memories |-> CostOf(plan.memories, want.memories)]
<1>1. /\ "persona" \in DOMAIN Caps /\ "evidence" \in DOMAIN Caps /\ "turns" \in DOMAIN Caps
      /\ "summary" \in DOMAIN Caps /\ "memories" \in DOMAIN Caps
  BY DEF Caps
<1>2. /\ want.persona \in Nat /\ want.summary \in Nat /\ want.evidence \in Seq(Nat) /\ want.memories \in Seq(Nat)
      /\ want.turns \in Seq(Nat)
  BY DEF Wanted
<1>3. Reverse(want.turns) \in Seq(Nat)
  <2>1. PICK given \in Seq(Nat) : given = want.turns
    BY <1>2
  <2>2. \A i \in 1 .. Len(given) : given[Len(given) - i + 1] \in Nat
    OBVIOUS
  <2>3. [i \in 1 .. Len(given) |-> given[Len(given) - i + 1]] \in Seq(Nat)
    BY <2>2
  <2> QED BY <2>1, <2>3 DEF Reverse
<1>4. DOMAIN cost = {"persona", "summary", "evidence", "turns", "memories"}
  OBVIOUS
<1>5. CASE left0 < 0
  <2>1. plan = [used |-> fixed, persona |-> 0, evidence |-> <<>>, turns |-> <<>>, summary |-> 0, memories |-> <<>>]
    BY <1>5 DEF Allocate
  <2>2. ASSUME NEW costs PROVE CostOf(<<>>, costs) = 0
    <3>1. [i \in DOMAIN <<>> |-> costs[<<>>[i]]] = <<>>
      OBVIOUS
    <3> QED BY <3>1, SumOfNothing DEF CostOf
  <2>3. cost.persona = 0 /\ cost.summary = 0 /\ cost.evidence = 0 /\ cost.turns = 0 /\ cost.memories = 0
    <3> HIDE DEF plan
    <3> QED BY <2>1, <2>2
  <2>4. cap("persona") \in Nat /\ cap("evidence") \in Nat /\ cap("turns") \in Nat /\ cap("summary") \in Nat /\ cap("memories") \in Nat
    BY <1>1, RoomIsBounded
  <2>5. plan.used = fixed /\ fixed <= Larger(fixed, total)
    BY <2>1, <1>5 DEF Larger
  <2> HIDE DEF plan, cost, cap
  <2>6. \A section \in DOMAIN cost : cost[section] <= cap(section)
    BY <1>4, <2>3, <2>4
  <2> QED BY <2>3, <2>5, <2>6 DEF plan, cost, cap
<1>6. CASE ~(left0 < 0)
  <2>1. left0 \in Nat /\ fixed + left0 = total
    BY <1>6
  <2>2. /\ plan.used = total - (left4 - memories.used) /\ plan.persona = persona /\ plan.summary = summary
        /\ plan.evidence = evidence.units /\ plan.turns = turns.units /\ plan.memories = memories.units
    <3>1. plan = [used |-> total - (left4 - memories.used), persona |-> persona, evidence |-> evidence.units,
                  turns |-> turns.units, summary |-> summary, memories |-> memories.units]
      BY <1>6 DEF Allocate
    <3> HIDE DEF plan, persona, summary, evidence, turns, memories, left4
    <3> QED BY <3>1
  <2> HIDE DEF left0
  <2>3. persona \in Nat /\ persona <= left0 /\ persona <= cap("persona") /\ cap("persona") \in Nat
    BY <1>1, <1>2, <2>1, SectionFits
  <2> HIDE DEF persona
  <2>4. left1 \in Nat /\ left0 = left1 + persona
    BY <2>1, <2>3
  <2> HIDE DEF left1
  <2>5. /\ evidence.used \in Nat /\ evidence.used <= left1 /\ evidence.used <= cap("evidence") /\ cap("evidence") \in Nat
        /\ CostOf(evidence.units, want.evidence) = evidence.used
    <3>1. evidence = KeptWhole(want.evidence, Room(total, "evidence", left1))
      OBVIOUS
    <3> HIDE DEF evidence
    <3>2. Fitting(evidence, want.evidence, cap("evidence"), left1)
      BY <1>1, <1>2, <2>4, <3>1, UnitsFit
    <3> QED BY <3>2 DEF Fitting
  <2> HIDE DEF evidence
  <2>6. left2 \in Nat /\ left1 = left2 + evidence.used
    BY <2>4, <2>5
  <2> HIDE DEF left2
  <2>7. /\ turns.used \in Nat /\ turns.used <= left2 /\ turns.used <= cap("turns") /\ cap("turns") \in Nat
        /\ CostOf(turns.units, Reverse(want.turns)) = turns.used
    <3>1. turns = KeptWhole(Reverse(want.turns), Room(total, "turns", left2))
      OBVIOUS
    <3> HIDE DEF turns
    <3>2. Fitting(turns, Reverse(want.turns), cap("turns"), left2)
      BY <1>1, <1>3, <2>6, <3>1, UnitsFit
    <3> QED BY <3>2 DEF Fitting
  <2> HIDE DEF turns
  <2>8. left3 \in Nat /\ left2 = left3 + turns.used
    BY <2>6, <2>7
  <2> HIDE DEF left3
  <2>9. summary \in Nat /\ summary <= left3 /\ summary <= cap("summary") /\ cap("summary") \in Nat
    BY <1>1, <1>2, <2>8, SectionFits
  <2> HIDE DEF summary
  <2>10. left4 \in Nat /\ left3 = left4 + summary
    BY <2>8, <2>9
  <2> HIDE DEF left4
  <2>11. /\ memories.used \in Nat /\ memories.used <= left4 /\ memories.used <= cap("memories") /\ cap("memories") \in Nat
         /\ CostOf(memories.units, want.memories) = memories.used
    <3>1. memories = KeptWhole(want.memories, Room(total, "memories", left4))
      OBVIOUS
    <3> HIDE DEF memories
    <3>2. Fitting(memories, want.memories, cap("memories"), left4)
      BY <1>1, <1>2, <2>10, <3>1, UnitsFit
    <3> QED BY <3>2 DEF Fitting
  <2> HIDE DEF memories
  <2>12. /\ cost.persona = persona /\ cost.summary = summary /\ cost.evidence = evidence.used
         /\ cost.turns = turns.used /\ cost.memories = memories.used
    <3> HIDE DEF plan
    <3> QED BY <2>2, <2>5, <2>7, <2>11
  <2> HIDE DEF plan, cost, cap
  <2>13. plan.used = fixed + cost.persona + cost.summary + cost.evidence + cost.turns + cost.memories
    <3>1. plan.used = fixed + persona + summary + evidence.used + turns.used + memories.used
      <4>1. total = fixed + persona + evidence.used + turns.used + summary + left4
        BY <2>1, <2>3, <2>4, <2>5, <2>6, <2>7, <2>8, <2>9, <2>10
      <4> QED BY <2>2, <2>3, <2>5, <2>7, <2>9, <2>10, <2>11, <4>1
    <3> QED BY <2>12, <3>1
  <2>14. plan.used <= Larger(fixed, total)
    BY <2>1, <2>2, <2>10, <2>11 DEF Larger
  <2>15. \A section \in DOMAIN cost : cost[section] <= cap(section)
    BY <1>4, <2>3, <2>5, <2>7, <2>9, <2>11, <2>12
  <2> QED BY <2>13, <2>14, <2>15 DEF plan, cost, cap
<1> QED BY <1>5, <1>6

-----------------------------------------------------------------------------
(* What a student is told.                                                  *)

\* An answer is the outcome of a sheet, and a topic that was called weak keeps
\* the attempts it was called so for.
ToldInv ==
  \/ shown = Nothing
  \/ \E sheet \in Sheets : shown = Outcome(sheet)
  \/ shown.kind = "memories"
  \/ shown.kind = "progress" /\ \A i \in DOMAIN shown.weak :
       shown.weak[i] \in Topics /\ stats[shown.weak[i]].attempts >= MinAttemptsForSignal

LEMMA WeakTopicsAreEarned ==
  ASSUME MemoryInv, NEW limit \in Nat, NEW weak \in WeakTopics(limit)
  PROVE  \A i \in DOMAIN weak : weak[i] \in Topics /\ stats[weak[i]].attempts >= MinAttemptsForSignal
<1> DEFINE banded == {t \in Topics : Signal(stats[t]) \in WeakBands}
<1>1. PICK s \in SetToSeqs(banded) : weak = SubSeq(s, 1, Smaller(limit, Len(s)))
  BY DEF WeakTopics
<1>2. PICK n \in Nat : n = Cardinality(banded)
  <2>1. IsFiniteSet(banded)
    BY SheetsAssumption, FS_Subset
  <2> QED BY <2>1, FS_CardinalityType
<1> HIDE DEF banded
<1>3. s \in [1 .. n -> banded]
  BY <1>1, <1>2 DEF SetToSeqs
<1>4. s \in Seq(banded) /\ Len(s) = n
  BY <1>3
<1>5. PICK m \in 0 .. n : m = Smaller(limit, Len(s))
  BY <1>4 DEF Smaller
<1>6. weak \in Seq(banded)
  BY <1>1, <1>4, <1>5
<1>7. ASSUME NEW t \in banded PROVE t \in Topics /\ stats[t].attempts >= MinAttemptsForSignal
  <2>1. t \in Topics /\ Signal(stats[t]) \in WeakBands
    BY DEF banded
  <2>2. ~(stats[t].attempts < MinAttemptsForSignal)
    BY <2>1 DEF Signal, WeakBands
  <2>3. stats[t].attempts \in Nat
    BY <2>1 DEF MemoryInv
  <2> QED BY <2>1, <2>2, <2>3 DEF MinAttemptsForSignal
<1> QED BY <1>6, <1>7

LEMMA AttemptsOnlyGrow ==
  ASSUME MemoryInv, Counting, NEW t \in Topics
  PROVE  stats[t].attempts >= MinAttemptsForSignal => stats'[t].attempts >= MinAttemptsForSignal
<1>1. PICK u \in Topics, correct \in BOOLEAN : RecordAttempt(u, correct)
  BY DEF Counting
<1>2. DOMAIN stats = Topics /\ stats[t].attempts \in Nat
  BY DEF MemoryInv
<1>3. PICK more : stats' = [stats EXCEPT ![u] = [attempts |-> @.attempts + 1, correct |-> more]]
  BY <1>1 DEF RecordAttempt
<1>4. stats'[t].attempts = IF t = u THEN stats[t].attempts + 1 ELSE stats[t].attempts
  BY <1>2, <1>3
<1> QED BY <1>2, <1>4 DEF MinAttemptsForSignal

LEMMA ToldInvNext == ASSUME MemoryInv, ToldInv, [Next]_vars PROVE ToldInv'
<1>1. CASE UNCHANGED <<shown, stats>>
  BY <1>1 DEF ToldInv
<1>2. CASE Carding \/ Marking \/ Tasking \/ Remembering \/ NextDay \/ UNCHANGED vars \/ UNCHANGED studyVars
  BY <1>1, <1>2, CardingLeaves, MarkingLeaves, TaskingLeaves, RememberingLeaves
     DEF NextDay, vars, studyVars, memoryRows
<1>3. CASE Counting
  <2>1. UNCHANGED shown
    BY <1>3, CountingLeaves
  <2>2. \A t \in Topics : stats[t].attempts >= MinAttemptsForSignal => stats'[t].attempts >= MinAttemptsForSignal
    BY <1>3, AttemptsOnlyGrow
  <2> QED BY <2>1, <2>2 DEF ToldInv
<1>4. CASE Telling
  <2>1. UNCHANGED stats
    BY <1>4, TellingLeaves DEF memoryRows
  <2>3. CASE AskProgress
    <3>1. PICK weak \in WeakTopics(3) : shown' = DescribeProgress(weak)
      BY <2>3 DEF AskProgress
    <3>2. shown'.kind = "progress" /\ shown'.weak = weak
      BY <3>1 DEF DescribeProgress
    <3>3. \A i \in DOMAIN weak : weak[i] \in Topics /\ stats[weak[i]].attempts >= MinAttemptsForSignal
      BY WeakTopicsAreEarned
    <3> QED BY <2>1, <3>2, <3>3 DEF ToldInv
  <2>4. CASE HandIn
    BY <2>4 DEF HandIn, ToldInv
  <2> QED BY <1>4, <2>3, <2>4 DEF Telling
<1> QED BY <1>2, <1>3, <1>4, NextByDesk

LEMMA ToldStaysTrue == Spec => [](MemoryInv /\ ToldInv)
<1>1. Init => MemoryInv /\ ToldInv
  BY MemoryInvInit DEF Init, ToldInv
<1>2. MemoryInv /\ ToldInv /\ [Next]_vars => (MemoryInv /\ ToldInv)'
  BY MemoryInvNext, ToldInvNext
<1> QED BY <1>1, <1>2, PTL DEF Spec

\* Which sheet an answer is the outcome of.
LEMMA AnswersHaveASheet ==
  ASSUME ToldInv, shown.kind \in Exercises
  PROVE  \E sheet \in Sheets : sheet.kind = shown.kind /\ SheetOK(sheet) /\ shown = Outcome(sheet)
<1>1. PICK sheet \in Sheets : shown = Outcome(sheet)
  BY DEF ToldInv, Nothing, Exercises
<1>2. SheetOK(sheet) /\ sheet.kind \in Exercises
  BY SheetsAssumption DEF SheetOK
<1>3. Outcome(sheet).kind = sheet.kind
  BY <1>2 DEF Outcome, Exercises
<1> QED BY <1>1, <1>2, <1>3

-----------------------------------------------------------------------------
(* Each promise holds of every answer, since it holds of every outcome.     *)

LEMMA ToldTwinsArePractice == ASSUME ToldInv PROVE TwinsArePractice
<1> SUFFICES ASSUME shown.kind = "twins" PROVE TwinsArePractice
  BY DEF TwinsArePractice
<1>1. PICK sheet \in Sheets : sheet.kind = "twins" /\ SheetOK(sheet) /\ shown = Outcome(sheet)
  BY AnswersHaveASheet DEF Exercises
<1> DEFINE t == sheet.problem
<1>2. shown = [kind |-> "twins", sheet |-> sheet, one |-> GenerateTwin(t),
               batch |-> GenerateBatch(t, sheet.count, sheet.most)]
  BY <1>1 DEF Outcome
<1>3. /\ LinearProblem(t) \/ QuadraticProblem(t)
      /\ sheet.count \in Int /\ sheet.most \in 1 .. MaxRegenerationAttempts
  BY <1>1 DEF SheetOK
<1>4. shown.sheet = sheet /\ shown.one = GenerateTwin(t) /\ shown.batch = GenerateBatch(t, sheet.count, sheet.most)
  BY <1>2
<1> QED BY <1>3, <1>4, BatchIsPractice, OneTwinIsVerified DEF TwinsArePractice

LEMMA ToldRecognisedHonestly == ASSUME ToldInv PROVE RecognisedHonestly
<1> SUFFICES ASSUME shown.kind = "parse" PROVE RecognisedHonestly
  BY DEF RecognisedHonestly
<1>1. PICK sheet \in Sheets : sheet.kind = "parse" /\ SheetOK(sheet) /\ shown = Outcome(sheet)
  BY AnswersHaveASheet DEF Exercises
<1>2. shown = [kind |-> "parse", sheet |-> sheet, parsed |-> ParseQuadratic(sheet.b, sheet.c)]
  BY <1>1 DEF Outcome
<1>3. sheet.b \in Int /\ sheet.c \in Int
  BY <1>1 DEF SheetOK
<1> QED BY <1>2, <1>3, RootsAreRecognised DEF RecognisedHonestly

LEMMA ToldVerifiedHonestly == ASSUME ToldInv PROVE VerifiedHonestly
<1> SUFFICES ASSUME shown.kind = "check" PROVE VerifiedHonestly
  BY DEF VerifiedHonestly
<1>1. PICK sheet \in Sheets : sheet.kind = "check" /\ SheetOK(sheet) /\ shown = Outcome(sheet)
  BY AnswersHaveASheet DEF Exercises
<1>2. shown = [kind |-> "check", sheet |-> sheet, verdict |-> VerifyAnswer(sheet.answer, sheet.problem)]
  BY <1>1 DEF Outcome
<1>3. shown.sheet = sheet /\ shown.verdict = VerifyAnswer(sheet.answer, sheet.problem)
  BY <1>2
<1>4. IsASequence(sheet.answer.said) /\ \A st \in ToSet(sheet.answer.said) : st.form = "assignment" => st.name # Nameless
  BY <1>1 DEF SheetOK
<1> SUFFICES ASSUME sheet.problem.unknown # "none", sheet.problem.expects = <<>>,
                    sheet.problem.form = Unreadable, sheet.problem.unit = NoUnit,
                    VerifyAnswer(sheet.answer, sheet.problem) = "VERIFIED"
             PROVE  VerifiedHonestly
  BY <1>3 DEF VerifiedHonestly
<1>5. \E i \in DOMAIN sheet.answer.said :
        LET st == sheet.answer.said[i] IN
        /\ st.form = "final" \/ (st.form = "assignment" /\ st.name = sheet.problem.unknown)
        /\ Residual(sheet.problem.equation, <<st.value, 1>>) = 0
  BY <1>4, VerifiedIsEarned
<1> QED BY <1>3, <1>5 DEF VerifiedHonestly

LEMMA ToldComputedInBounds == ASSUME ToldInv PROVE ComputedInBounds
<1> SUFFICES ASSUME shown.kind = "calculate" PROVE ComputedInBounds
  BY DEF ComputedInBounds
<1>1. PICK sheet \in Sheets : sheet.kind = "calculate" /\ SheetOK(sheet) /\ shown = Outcome(sheet)
  BY AnswersHaveASheet DEF Exercises
<1>2. shown = [kind |-> "calculate", sheet |-> sheet, computed |-> Computed(sheet.expression)]
  BY <1>1 DEF Outcome
<1>3. sheet.expression.exponents \cup sheet.expression.factorials \subseteq Seq(Int)
  BY <1>1 DEF SheetOK
<1>4. shown.sheet = sheet /\ shown.computed = Computed(sheet.expression)
  BY <1>2
<1> QED BY <1>3, <1>4, ComputedProducts DEF ComputedInBounds

LEMMA ToldCitedFromSupplied == ASSUME ToldInv PROVE CitedFromSupplied
<1> SUFFICES ASSUME shown.kind = "notes" PROVE CitedFromSupplied
  BY DEF CitedFromSupplied
<1>1. PICK sheet \in Sheets : sheet.kind = "notes" /\ SheetOK(sheet) /\ shown = Outcome(sheet)
  BY AnswersHaveASheet DEF Exercises
<1>2. shown = [kind |-> "notes", sheet |-> sheet, notes |-> ParseNotes(sheet.reply, sheet.evidence, sheet.most)]
  BY <1>1 DEF Outcome
<1>3. IsASequence(sheet.evidence) /\ IsASequence(sheet.reply) /\ \A section \in ToSet(sheet.reply) : {} \notin section.claims
  BY <1>1 DEF SheetOK
<1>4. shown.sheet = sheet /\ shown.notes = ParseNotes(sheet.reply, sheet.evidence, sheet.most)
  BY <1>2
<1> QED BY <1>3, <1>4, CitedSourcesWereSupplied DEF CitedFromSupplied

LEMMA ToldWrittenByTheStudent == ASSUME ToldInv PROVE WrittenByTheStudent
<1> SUFFICES ASSUME shown.kind = "essay" PROVE WrittenByTheStudent
  BY DEF WrittenByTheStudent
<1>1. PICK sheet \in Sheets : sheet.kind = "essay" /\ SheetOK(sheet) /\ shown = Outcome(sheet)
  BY AnswersHaveASheet DEF Exercises
<1>2. shown = [kind |-> "essay", sheet |-> sheet, feedback |-> ParseFeedback(sheet.reply, sheet.essay, sheet.rubric)]
  BY <1>1 DEF Outcome
<1>3. /\ sheet.reply.rewrites \in Seq(Nat) /\ sheet.reply.grades \in Seq(Nat)
      /\ sheet.essay.chars \in Nat /\ sheet.rubric \in Nat
  BY <1>1 DEF SheetOK
<1>4. shown.sheet = sheet /\ shown.feedback = ParseFeedback(sheet.reply, sheet.essay, sheet.rubric)
  BY <1>2
<1> QED BY <1>3, <1>4, FeedbackStaysWithin DEF WrittenByTheStudent

LEMMA ToldPapersFit == ASSUME ToldInv PROVE PapersFit
<1> SUFFICES ASSUME shown.kind = "mock" PROVE PapersFit
  BY DEF PapersFit
<1>1. PICK sheet \in Sheets : sheet.kind = "mock" /\ SheetOK(sheet) /\ shown = Outcome(sheet)
  BY AnswersHaveASheet DEF Exercises
<1>2. shown = [kind |-> "mock", sheet |-> sheet, paper |-> BuildBlueprint(sheet.minutes, sheet.count, Limits(sheet.plan))]
  BY <1>1 DEF Outcome
<1>3. sheet.minutes \in Nat /\ sheet.count \in Nat
  BY <1>1 DEF SheetOK
<1>4. shown.sheet = sheet /\ shown.paper = BuildBlueprint(sheet.minutes, sheet.count, Limits(sheet.plan))
  BY <1>2
<1>5. LET paper == BuildBlueprint(sheet.minutes, sheet.count, Limits(sheet.plan)) IN
      /\ Total({[share |-> paper.mix[t], type |-> t] : t \in DOMAIN paper.mix}, "share") = paper.count
      /\ \A t \in DOMAIN paper.mix : paper.mix[t] >= 0
      /\ paper.count <= Limits(sheet.plan).questions
  BY <1>3, PapersMakeUp
<1> QED BY <1>4, <1>5, Zenon DEF PapersFit

LEMMA ToldPromptsFit == ASSUME ToldInv PROVE PromptsFit
<1> SUFFICES ASSUME shown.kind = "prompt" PROVE PromptsFit
  BY DEF PromptsFit
<1>1. PICK sheet \in Sheets : sheet.kind = "prompt" /\ SheetOK(sheet) /\ shown = Outcome(sheet)
  BY AnswersHaveASheet DEF Exercises
<1>2. shown = [kind |-> "prompt", sheet |-> sheet, plan |-> Allocate(sheet.total, sheet.fixed, sheet.want)]
  BY <1>1 DEF Outcome
<1>3. sheet.total \in Nat /\ sheet.fixed \in Nat /\ sheet.want \in Wanted
  BY <1>1 DEF SheetOK, Wanted
<1>4. shown.sheet = sheet /\ shown.plan = Allocate(sheet.total, sheet.fixed, sheet.want)
  BY <1>2
<1> DEFINE plan == Allocate(sheet.total, sheet.fixed, sheet.want)
           want == sheet.want
           cost == [persona  |-> plan.persona, summary |-> plan.summary,
                    evidence |-> CostOf(plan.evidence, want.evidence),
                    turns    |-> CostOf(plan.turns, Reverse(want.turns)),
                    memories |-> CostOf(plan.memories, want.memories)]
<1>5. /\ plan.used = sheet.fixed + cost.persona + cost.summary + cost.evidence + cost.turns + cost.memories
      /\ plan.used <= Larger(sheet.fixed, sheet.total)
      /\ \A section \in DOMAIN cost : cost[section] <= CapTokens(sheet.total, section)
  BY <1>3, AllocatedFits
<1> QED BY <1>4, <1>5, Zenon DEF PromptsFit, CostOf

LEMMA ToldReadsWords == ASSUME ToldInv PROVE ReadsWords
<1> SUFFICES ASSUME shown.kind = "file" PROVE ReadsWords
  BY DEF ReadsWords
<1>1. PICK sheet \in Sheets : sheet.kind = "file" /\ SheetOK(sheet) /\ shown = Outcome(sheet)
  BY AnswersHaveASheet DEF Exercises
<1>2. shown = [kind |-> "file", sheet |-> sheet, result |-> ReadFile(sheet.file, sheet.brief, sheet.env, sheet.cached)]
  BY <1>1 DEF Outcome
<1>3. IsASequence(sheet.file.pages) /\ \A page \in ToSet(sheet.file.pages) : IsASequence(page.passes)
  BY <1>1 DEF SheetOK
<1>4. \A i \in DOMAIN sheet.file.pages : sheet.file.pages[i] \in ToSet(sheet.file.pages)
  BY <1>3, SequenceIndices
<1> QED BY <1>2, <1>3, <1>4, WordsBeforeSymbols DEF ReadsWords

LEMMA ToldWeakOnEvidence == ASSUME ToldInv PROVE WeakOnEvidence
<1> SUFFICES ASSUME shown.kind = "progress" PROVE WeakOnEvidence
  BY DEF WeakOnEvidence
<1>1. shown # Nothing
  BY DEF Nothing
<1>2. ~ \E sheet \in Sheets : shown = Outcome(sheet)
  <2> SUFFICES ASSUME NEW sheet \in Sheets PROVE shown # Outcome(sheet)
    OBVIOUS
  <2>1. SheetOK(sheet) /\ sheet.kind \in Exercises
    BY SheetsAssumption DEF SheetOK
  <2>2. Outcome(sheet).kind = sheet.kind
    BY <2>1 DEF Outcome, Exercises
  <2> QED BY <2>1, <2>2 DEF Exercises
<1> QED BY <1>1, <1>2 DEF ToldInv, WeakOnEvidence

-----------------------------------------------------------------------------
(* Pages in order.                                                          *)

\* Every member has those before it, and of two one is before the other.
Ranks(ahead, S) ==
  /\ ahead \in [S -> SUBSET S]
  /\ \A r \in S : r \notin ahead[r]
  /\ \A q, r \in S : q # r => q \in ahead[r] \/ r \in ahead[q]
  /\ \A q, r \in S : q \in ahead[r] => ahead[q] \subseteq ahead[r]

Placed(seq, S, ahead) ==
  /\ seq = [i \in 1 .. Cardinality(S) |-> seq[i]]
  /\ \A i \in 1 .. Cardinality(S) :
       (\E x \in S : Cardinality(ahead[x]) = i - 1) => seq[i] \in S /\ Cardinality(ahead[seq[i]]) = i - 1

InOrder(seq, S, ahead) ==
  /\ seq \in Seq(S) /\ Len(seq) = Cardinality(S)
  /\ \A i, j \in 1 .. Cardinality(S) : i < j => seq[i] \in ahead[seq[j]]

LEMMA SortedInOrder ==
  ASSUME NEW S, IsFiniteSet(S), NEW ahead, Ranks(ahead, S), NEW seq, Placed(seq, S, ahead)
  PROVE  InOrder(seq, S, ahead)
<1> DEFINE n == Cardinality(S)
<1>1. n \in Nat
  BY FS_CardinalityType
<1>2. \A i \in 1 .. n : \E r \in S : Cardinality(ahead[r]) = i - 1
  BY PlacesAreTaken DEF Ranks
<1>3. \A i \in 1 .. n : seq[i] \in S /\ Cardinality(ahead[seq[i]]) = i - 1
  BY <1>2 DEF Placed
<1>4. seq \in [1 .. n -> S]
  BY <1>3 DEF Placed
<1> HIDE DEF n
<1>5. seq \in Seq(S) /\ Len(seq) = n
  BY <1>1, <1>4
<1>6. ASSUME NEW i \in 1 .. n, NEW j \in 1 .. n, i < j PROVE seq[i] \in ahead[seq[j]]
  <2>1. seq[i] \in S /\ seq[j] \in S /\ seq[i] # seq[j]
    BY <1>3, <1>6
  <2>2. SUFFICES ASSUME seq[j] \in ahead[seq[i]] PROVE FALSE
    BY <2>1 DEF Ranks
  <2>3. ahead[seq[j]] \subseteq ahead[seq[i]] /\ ahead[seq[i]] \in SUBSET S
    BY <2>1, <2>2 DEF Ranks
  <2>4. IsFiniteSet(ahead[seq[i]])
    BY <2>3, FS_Subset
  <2>5. Cardinality(ahead[seq[j]]) <= Cardinality(ahead[seq[i]])
    BY <2>3, <2>4, FS_Subset
  <2> QED BY <1>3, <1>6, <2>5
<1> QED BY <1>5, <1>6 DEF InOrder, n

\* The first m of a set of numbers are at most m.
LEMMA FirstFew ==
  ASSUME NEW n \in Nat, NEW T \in SUBSET (1 .. n), NEW m \in Nat,
         NEW L, L \in SUBSET {i \in T : Cardinality({j \in T : j < i}) < m}
  PROVE  IsFiniteSet(L) /\ Cardinality(L) <= m
<1> DEFINE before == [i \in T |-> Cardinality({j \in T : j < i})]
<1>1. IsFiniteSet(T)
  <2>1. IsFiniteSet(1 .. n)
    BY FS_Interval
  <2> QED BY <2>1, FS_Subset
<1>2. ASSUME NEW i \in T PROVE before[i] \in Nat /\ IsFiniteSet({j \in T : j < i})
  <2>1. {j \in T : j < i} \in SUBSET T
    OBVIOUS
  <2>2. IsFiniteSet({j \in T : j < i})
    BY <1>1, <2>1, FS_Subset
  <2> QED BY <2>2, FS_CardinalityType
<1>3. ASSUME NEW i \in T, NEW k \in T, i < k PROVE before[i] < before[k]
  <2> DEFINE low == {j \in T : j < i}
             high == {j \in T : j < k}
  <2>0. i \in Int /\ k \in Int /\ T \in SUBSET Int
    OBVIOUS
  <2>1. low \cup {i} \in SUBSET high /\ i \notin low
    <3>1. ASSUME NEW x \in low \cup {i} PROVE x \in T /\ x < k
      BY <1>3, <2>0
    <3>2. i \notin low
      BY <2>0
    <3> QED BY <3>1, <3>2
  <2>2. IsFiniteSet(low) /\ IsFiniteSet(high) /\ before[i] = Cardinality(low) /\ before[k] = Cardinality(high)
    BY <1>2
  <2> HIDE DEF low, high
  <2>3. Cardinality(low \cup {i}) = Cardinality(low) + 1
    BY <2>1, <2>2, FS_AddElement
  <2>4. Cardinality(low \cup {i}) <= Cardinality(high)
    BY <2>1, <2>2, FS_Subset
  <2>5. Cardinality(low) \in Nat /\ Cardinality(high) \in Nat
    BY <2>2, FS_CardinalityType
  <2> HIDE DEF before
  <2> QED BY <2>2, <2>3, <2>4, <2>5
<1>4. [i \in L |-> before[i]] \in Injection(L, 0 .. m - 1)
  <2>1. \A i \in L : i \in T /\ before[i] \in 0 .. m - 1
    BY <1>2
  <2>2. \A i, k \in L : before[i] = before[k] => i = k
    <3> SUFFICES ASSUME NEW i \in L, NEW k \in L, i # k PROVE before[i] # before[k]
      OBVIOUS
    <3>1. i \in T /\ k \in T /\ i \in Int /\ k \in Int /\ before[i] \in Nat /\ before[k] \in Nat
      BY <1>2
    <3> HIDE DEF before
    <3>2. CASE i < k
      BY <1>3, <3>1, <3>2
    <3>3. CASE k < i
      BY <1>3, <3>1, <3>3
    <3> QED BY <3>1, <3>2, <3>3
  <2> HIDE DEF before
  <2> QED BY <2>1, <2>2 DEF Injection, IsInjective
<1>5. IsFiniteSet(0 .. m - 1) /\ Cardinality(0 .. m - 1) = m
  BY FS_Interval
<1> HIDE DEF before
<1> QED BY <1>4, <1>5, FS_Injection

-----------------------------------------------------------------------------
(* The pages that are chosen: of the document, and none of them twice.      *)

Once(chosen, last) ==
  /\ chosen \in Seq(1 .. last)
  /\ \A i, j \in 1 .. Len(chosen) : i # j => chosen[i] # chosen[j]

LEMMA OrderedOnce ==
  ASSUME NEW last \in Nat, NEW S \in SUBSET (1 .. last), NEW ahead, Ranks(ahead, S), NEW seq, Placed(seq, S, ahead)
  PROVE  Once(seq, last)
<1>1. IsFiniteSet(1 .. last)
  BY FS_Interval
<1>2. IsFiniteSet(S)
  BY <1>1, FS_Subset
<1>3. InOrder(seq, S, ahead)
  BY <1>2, SortedInOrder
<1> DEFINE n == Cardinality(S)
<1>4. n \in Nat
  BY <1>2, FS_CardinalityType
<1>5. seq \in Seq(S) /\ Len(seq) = n /\ \A i, j \in 1 .. n : i < j => seq[i] \in ahead[seq[j]]
  BY <1>3 DEF InOrder
<1> HIDE DEF n
<1>6. seq \in Seq(1 .. last)
  <2>1. seq \in [1 .. n -> S]
    BY <1>4, <1>5
  <2>2. seq \in [1 .. n -> 1 .. last]
    BY <2>1
  <2> QED BY <1>4, <2>2
<1>7. ASSUME NEW i \in 1 .. n, NEW j \in 1 .. n, i < j PROVE seq[i] # seq[j]
  <2>1. seq[i] \in S /\ seq[j] \in S /\ seq[i] \in ahead[seq[j]]
    BY <1>5, <1>7
  <2> QED BY <2>1 DEF Ranks
<1>8. ASSUME NEW i \in 1 .. n, NEW j \in 1 .. n, i # j PROVE seq[i] # seq[j]
  <2>1. i < j \/ j < i
    BY <1>8
  <2> QED BY <1>7, <2>1
<1> QED BY <1>4, <1>5, <1>6, <1>8 DEF Once

LEMMA NamedPages ==
  ASSUME NEW pages, IsASequence(pages), NEW brief
  PROVE  Once(ParseRequestedPages(pages, brief), Len(pages))
<1> DEFINE S == {p \in DOMAIN pages :
                   p \in brief.singles \/ \E r \in brief.ranges : p \in (r[1] .. r[2]) \cup (r[2] .. r[1])}
           ahead == [p \in S |-> {q \in S : q < p}]
           seq == ParseRequestedPages(pages, brief)
           nth(i) == CHOOSE x \in S : Cardinality({y \in S : y < x}) = i - 1
<1>1. Len(pages) \in Nat /\ S \in SUBSET (1 .. Len(pages))
  BY SequenceIndices
<1>2. seq = [i \in 1 .. Cardinality(S) |-> nth(i)]
  BY DEF ParseRequestedPages, Sorted
<1> HIDE DEF S, seq
<1>3. S \in SUBSET Int
  BY <1>1
<1>4. Ranks(ahead, S)
  <2>1. ahead \in [S -> SUBSET S]
    OBVIOUS
  <2>2. \A q, r \in S : q \in ahead[r] <=> q < r
    OBVIOUS
  <2> HIDE DEF ahead
  <2>3. \A q, r \in S : q \in ahead[r] => ahead[q] \subseteq ahead[r]
    <3> SUFFICES ASSUME NEW q \in S, NEW r \in S, q < r, NEW s \in ahead[q] PROVE s \in ahead[r]
      BY <2>2
    <3>1. s \in S
      BY <2>1
    <3>2. s < q /\ s \in Int /\ q \in Int /\ r \in Int
      BY <1>3, <2>2, <3>1
    <3>3. s < r
      BY <3>2
    <3> QED BY <2>2, <3>1, <3>3
  <2>4. \A q, r \in S : q # r => q \in ahead[r] \/ r \in ahead[q]
    BY <1>3, <2>2
  <2>5. \A r \in S : r \notin ahead[r]
    BY <1>3, <2>2
  <2> QED BY <2>1, <2>3, <2>4, <2>5 DEF Ranks
<1>5. Placed(seq, S, ahead)
  <2>1. \A x \in S : ahead[x] = {y \in S : y < x}
    OBVIOUS
  <2> HIDE DEF ahead
  <2>2. seq = [i \in 1 .. Cardinality(S) |-> seq[i]]
    <3> HIDE DEF nth
    <3> QED BY <1>2
  <2>3. ASSUME NEW i \in 1 .. Cardinality(S), NEW x \in S, Cardinality(ahead[x]) = i - 1
        PROVE  seq[i] \in S /\ Cardinality(ahead[seq[i]]) = i - 1
    <3> DEFINE Is(z) == Cardinality({y \in S : y < z}) = i - 1
    <3>1. nth(i) = CHOOSE z \in S : Is(z)
      OBVIOUS
    <3> HIDE DEF nth
    <3>2. seq[i] = nth(i)
      BY <1>2
    <3>3. Is(x)
      BY <2>1, <2>3
    <3> HIDE DEF Is
    <3>4. seq[i] \in S /\ Is(seq[i])
      BY <3>1, <3>2, <3>3
    <3> QED BY <2>1, <3>4 DEF Is
  <2> QED BY <2>2, <2>3 DEF Placed
<1> HIDE DEF ahead
<1>6. Once(seq, Len(pages))
  BY <1>1, <1>4, <1>5, OrderedOnce
<1> QED BY <1>6 DEF seq

LEMMA ScoresAreNumbers ==
  ASSUME NEW pages, NEW brief, brief.matches \in Seq(Nat), IsFiniteSet(brief.questions), NEW p
  PROVE  Score(pages, brief, p) \in Nat
<1>1. Cardinality(brief.questions \cap pages[p].prints) \in Nat
  <2>1. IsFiniteSet(brief.questions \cap pages[p].prints)
    BY FS_Subset
  <2> QED BY <2>1, FS_CardinalityType
<1>2. (IF p \in DOMAIN brief.matches THEN brief.matches[p] ELSE 0) \in Nat
  OBVIOUS
<1> QED BY <1>1, <1>2 DEF Score, QuestionBonus

LEMMA RankedPages ==
  ASSUME NEW pages, IsASequence(pages), NEW brief, brief.matches \in Seq(Nat), IsFiniteSet(brief.questions)
  PROVE  Once(ScorePagesByBrief(pages, brief), Len(pages))
<1> DEFINE score(p) == Score(pages, brief, p)
           S == {p \in DOMAIN pages : brief.words /\ Score(pages, brief, p) > 0}
           ahead == [p \in S |-> {q \in S : \/ score(q) > score(p)
                                            \/ (score(q) = score(p) /\ q < p)}]
           seq == ScorePagesByBrief(pages, brief)
           nth(i) == CHOOSE x \in S : Cardinality({y \in S : \/ score(y) > score(x)
                                                            \/ (score(y) = score(x) /\ y < x)}) = i - 1
<1>1. Len(pages) \in Nat /\ S \in SUBSET (1 .. Len(pages))
  BY SequenceIndices
<1>2. seq = [i \in 1 .. Cardinality(S) |-> nth(i)]
  BY DEF ScorePagesByBrief, Sorted
<1>3. S \in SUBSET Int /\ (\A p \in S : score(p) \in Nat)
  BY <1>1, ScoresAreNumbers
<1> HIDE DEF S, seq
<1>4. Ranks(ahead, S)
  <2>1. ahead \in [S -> SUBSET S]
    OBVIOUS
  <2>2. \A q, r \in S : q \in ahead[r] <=> score(q) > score(r) \/ (score(q) = score(r) /\ q < r)
    OBVIOUS
  <2> HIDE DEF ahead
  <2>3. \A q, r \in S : q \in ahead[r] => ahead[q] \subseteq ahead[r]
    <3> SUFFICES ASSUME NEW q \in S, NEW r \in S, q \in ahead[r], NEW s \in ahead[q] PROVE s \in ahead[r]
      OBVIOUS
    <3>1. s \in S
      BY <2>1
    <3>2. /\ s \in Int /\ q \in Int /\ r \in Int /\ score(s) \in Nat /\ score(q) \in Nat /\ score(r) \in Nat
      BY <1>3, <3>1
    <3>3. (score(s) > score(q) \/ (score(s) = score(q) /\ s < q)) /\ (score(q) > score(r) \/ (score(q) = score(r) /\ q < r))
      BY <2>2, <3>1
    <3>4. score(s) > score(r) \/ (score(s) = score(r) /\ s < r)
      BY <3>2, <3>3
    <3> QED BY <2>2, <3>1, <3>4
  <2>4. \A q, r \in S : q # r => q \in ahead[r] \/ r \in ahead[q]
    <3> SUFFICES ASSUME NEW q \in S, NEW r \in S, q # r PROVE q \in ahead[r] \/ r \in ahead[q]
      OBVIOUS
    <3>1. q \in Int /\ r \in Int /\ score(q) \in Nat /\ score(r) \in Nat
      BY <1>3
    <3>2. \/ score(q) > score(r) \/ (score(q) = score(r) /\ q < r)
          \/ score(r) > score(q) \/ (score(r) = score(q) /\ r < q)
      BY <3>1
    <3> QED BY <2>2, <3>2
  <2>5. ASSUME NEW r \in S PROVE r \notin ahead[r]
    <3>1. r \in Int /\ score(r) \in Nat
      BY <1>3
    <3>2. ~(score(r) > score(r)) /\ ~(r < r)
      BY <3>1
    <3> QED BY <2>2, <3>2
  <2> QED BY <2>1, <2>3, <2>4, <2>5 DEF Ranks
<1>5. Placed(seq, S, ahead)
  <2>1. ASSUME NEW x \in S
        PROVE  ahead[x] = {y \in S : \/ score(y) > score(x)
                                     \/ (score(y) = score(x) /\ y < x)}
    OBVIOUS
  <2> HIDE DEF ahead
  <2>2. seq = [i \in 1 .. Cardinality(S) |-> seq[i]]
    <3> HIDE DEF nth
    <3> QED BY <1>2
  <2>3. ASSUME NEW i \in 1 .. Cardinality(S), NEW x \in S, Cardinality(ahead[x]) = i - 1
        PROVE  seq[i] \in S /\ Cardinality(ahead[seq[i]]) = i - 1
    <3> DEFINE Is(z) == Cardinality({y \in S : \/ score(y) > score(z)
                                               \/ (score(y) = score(z) /\ y < z)}) = i - 1
    <3>1. nth(i) = CHOOSE z \in S : Is(z)
      OBVIOUS
    <3> HIDE DEF nth
    <3>2. seq[i] = nth(i)
      BY <1>2
    <3>3. Is(x)
      BY <2>1, <2>3
    <3> HIDE DEF Is
    <3>4. seq[i] \in S /\ Is(seq[i])
      BY <3>1, <3>2, <3>3
    <3> QED BY <2>1, <3>4 DEF Is
  <2> QED BY <2>2, <2>3 DEF Placed
<1> HIDE DEF ahead
<1>6. Once(seq, Len(pages))
  BY <1>1, <1>4, <1>5, OrderedOnce
<1> QED BY <1>6 DEF seq

LEMMA FirstOfThemOnce ==
  ASSUME NEW last \in Nat, NEW chosen, Once(chosen, last)
  PROVE  /\ Once(FirstOfThem(chosen), last) /\ Len(FirstOfThem(chosen)) <= MaxPagesProcessed
         /\ ToSet(FirstOfThem(chosen)) \subseteq ToSet(chosen)
<1> DEFINE m == IF Len(chosen) > MaxPagesProcessed THEN MaxPagesProcessed ELSE Len(chosen)
           first == FirstOfThem(chosen)
<1>1. chosen \in Seq(1 .. last) /\ Len(chosen) \in Nat
  BY DEF Once
<1>2. m \in 0 .. Len(chosen) /\ m <= MaxPagesProcessed
  BY <1>1 DEF MaxPagesProcessed
<1>3. first = SubSeq(chosen, 1, m)
  BY DEF FirstOfThem
<1> HIDE DEF m, first
<1>4. first \in Seq(1 .. last) /\ Len(first) = m /\ \A i \in 1 .. m : first[i] = chosen[i]
  BY <1>1, <1>2, <1>3
<1>5. 1 .. m \subseteq 1 .. Len(chosen)
  BY <1>1, <1>2
<1>6. Once(first, last)
  BY <1>4, <1>5 DEF Once
<1>7. ToSet(first) \subseteq ToSet(chosen)
  BY <1>1, <1>4, <1>5 DEF ToSet
<1> QED BY <1>2, <1>4, <1>6, <1>7 DEF first

LEMMA ChosenOnce ==
  ASSUME NEW pages, IsASequence(pages), NEW brief, brief.matches \in Seq(Nat), IsFiniteSet(brief.questions)
  PROVE  /\ Once(Selected(pages, brief), Len(pages)) /\ Len(Selected(pages, brief)) <= MaxPagesProcessed
         /\ ParseRequestedPages(pages, brief) # <<>> =>
              ToSet(Selected(pages, brief)) \subseteq ToSet(ParseRequestedPages(pages, brief))
<1>1. Len(pages) \in Nat
  BY SequenceIndices
<1>2. PICK named : named = ParseRequestedPages(pages, brief) /\ Once(named, Len(pages))
  BY NamedPages
<1>3. PICK ranked : ranked = ScorePagesByBrief(pages, brief) /\ Once(ranked, Len(pages))
  BY RankedPages
<1>4. PICK numbers : numbers = Numbers(pages) /\ Once(numbers, Len(pages))
  <2>1. Numbers(pages) = [i \in 1 .. Len(pages) |-> i]
    BY SequenceIndices DEF Numbers
  <2> QED BY <1>1, <2>1 DEF Once
<1>5. PICK all : all = (IF named # <<>> THEN named ELSE IF ranked # <<>> THEN ranked ELSE numbers)
  OBVIOUS
<1>6. Once(all, Len(pages)) /\ (named # <<>> => all = named)
  BY <1>2, <1>3, <1>4, <1>5
<1>7. Selected(pages, brief) = FirstOfThem(all)
  BY <1>2, <1>3, <1>4, <1>5 DEF Selected
<1> QED BY <1>1, <1>2, <1>6, <1>7, FirstOfThemOnce

-----------------------------------------------------------------------------
(* The plan and what comes of it.                                           *)

LEMMA PlannedPages ==
  ASSUME NEW pages, NEW brief, NEW ocr, NEW chosen, chosen = Selected(pages, brief), NEW last, Once(chosen, last),
         NEW plan, plan = PlanExtraction(pages, brief, ocr)
  PROVE  /\ DOMAIN plan = 1 .. Len(chosen)
         /\ \A i \in 1 .. Len(chosen) :
              /\ plan[i].page = chosen[i]
              /\ HasText(pages[chosen[i]]) => plan[i].method = "DIGITAL_TEXT"
              /\ plan[i].method = "LOCAL_OCR" => ScansBefore(pages, chosen, i) < MaxOcrPages
              /\ ocr /\ plan[i].method = "VISION" => ~(ScansBefore(pages, chosen, i) < MaxOcrPages)
<1>1. DOMAIN chosen = 1 .. Len(chosen)
  BY DEF Once
<1>2. DOMAIN plan = 1 .. Len(chosen)
  BY <1>1 DEF PlanExtraction
<1>3. ASSUME NEW i \in 1 .. Len(chosen)
      PROVE  plan[i] = [page |-> chosen[i],
                        method |-> IF HasText(pages[chosen[i]]) THEN "DIGITAL_TEXT"
                                   ELSE IF ocr /\ ScansBefore(pages, chosen, i) < MaxOcrPages THEN "LOCAL_OCR"
                                   ELSE "VISION"]
  BY <1>1 DEF PlanExtraction
<1> QED BY <1>2, <1>3

\* The scans of a plan, by their places.
Scanned(pages, chosen) == {j \in 1 .. Len(chosen) : ~HasText(pages[chosen[j]])}

LEMMA ScansByPlace ==
  ASSUME NEW pages, NEW chosen, NEW last, Once(chosen, last), NEW i \in 1 .. Len(chosen)
  PROVE  ScansBefore(pages, chosen, i) = Cardinality({j \in Scanned(pages, chosen) : j < i})
<1>1. Len(chosen) \in Nat /\ i \in Int
  BY DEF Once
<1>2. ASSUME NEW j PROVE j \in 1 .. i - 1 <=> j \in 1 .. Len(chosen) /\ j < i
  BY <1>1
<1>3. {j \in 1 .. i - 1 : ~HasText(pages[chosen[j]])} = {j \in Scanned(pages, chosen) : j < i}
  BY <1>2 DEF Scanned
<1> QED BY <1>3 DEF ScansBefore

LEMMA LocalReadsAreFew ==
  ASSUME NEW pages, NEW brief, NEW ocr, NEW chosen, chosen = Selected(pages, brief), NEW last, Once(chosen, last),
         NEW plan, plan = PlanExtraction(pages, brief, ocr), NEW todo \in SUBSET (DOMAIN plan)
  PROVE  Cardinality({i \in todo : plan[i].method = "LOCAL_OCR"}) <= MaxOcrPages
<1> DEFINE T == Scanned(pages, chosen)
           L == {i \in todo : plan[i].method = "LOCAL_OCR"}
<1>1. Len(chosen) \in Nat /\ T \in SUBSET (1 .. Len(chosen))
  BY DEF Once, Scanned
<1>2. ASSUME NEW i \in L PROVE i \in T /\ Cardinality({j \in T : j < i}) < MaxOcrPages
  <2>1. i \in 1 .. Len(chosen) /\ plan[i].method = "LOCAL_OCR"
    BY PlannedPages
  <2>2. ~HasText(pages[chosen[i]]) /\ ScansBefore(pages, chosen, i) < MaxOcrPages
    BY <2>1, PlannedPages
  <2> QED BY <2>1, <2>2, ScansByPlace DEF Scanned
<1> HIDE DEF T, L
<1>3. L \in SUBSET {i \in T : Cardinality({j \in T : j < i}) < MaxOcrPages}
  BY <1>2
<1>4. Cardinality(L) <= MaxOcrPages
  BY <1>1, <1>3, FirstFew DEF MaxOcrPages
<1> QED BY <1>4 DEF L

PagesOf(plan, taken) == {plan[i].page : i \in taken}

LEMMA PaidPagesAreFew ==
  ASSUME NEW n \in Nat, NEW hard \in SUBSET (1 .. n), NEW env, NEW plan,
         NEW paid, paid = VisionPages(hard, env), NEW paper, paper = PagesOf(plan, paid)
  PROVE  Cardinality(paper) <= MaxVisionPages
<1>1. paid \in SUBSET {i \in hard : Cardinality({j \in hard : j < i}) < MaxVisionPages}
  BY DEF VisionPages
<1>2. IsFiniteSet(paid) /\ Cardinality(paid) <= MaxVisionPages
  BY <1>1, FirstFew DEF MaxVisionPages
<1>3. [i \in paid |-> plan[i].page] \in Surjection(paid, paper)
  BY DEF Surjection, PagesOf
<1>4. IsFiniteSet(paper) /\ Cardinality(paper) <= Cardinality(paid)
  BY <1>2, <1>3, FS_Surjection
<1>5. Cardinality(paper) \in Nat /\ Cardinality(paid) \in Nat
  BY <1>2, <1>4, FS_CardinalityType
<1> QED BY <1>2, <1>4, <1>5 DEF MaxVisionPages

\* The page's turn came when the local reader had had its pages.
Late(p, pages, chosen) ==
  \E i \in {j \in DOMAIN chosen : ScansBefore(pages, chosen, j) >= MaxOcrPages} : chosen[i] = p

\* A page is hard for a reason: it has no text layer, and its turn came after as
\* many scans as the local reader takes or it was not sure.
LEMMA HardPagesAreHard ==
  ASSUME NEW pages, NEW brief, NEW chosen, chosen = Selected(pages, brief), NEW last \in Nat, Once(chosen, last),
         NEW ocr, NEW plan, plan = PlanExtraction(pages, brief, ocr),
         NEW i \in DOMAIN plan, HardPage(plan[i], pages, brief)
  PROVE  /\ ~HasText(pages[plan[i].page])
         /\ \/ ~ocr
            \/ Late(plan[i].page, pages, chosen)
            \/ ~Assess(ReadLocally(pages[plan[i].page].passes), brief.math)
<1> DEFINE T == Scanned(pages, chosen)
<1>1. i \in 1 .. Len(chosen) /\ Len(chosen) \in Nat /\ T \in SUBSET (1 .. Len(chosen)) /\ i \in DOMAIN chosen
  <2>1. i \in 1 .. Len(chosen)
    BY PlannedPages
  <2> QED BY <2>1 DEF Once, Scanned
<1>2. /\ plan[i].page = chosen[i]
      /\ HasText(pages[chosen[i]]) => plan[i].method = "DIGITAL_TEXT"
      /\ ocr /\ plan[i].method = "VISION" => ~(ScansBefore(pages, chosen, i) < MaxOcrPages)
  BY <1>1, PlannedPages
<1>3. plan[i].method = "LOCAL_OCR" => ~Assess(ReadLocally(pages[plan[i].page].passes), brief.math)
  BY DEF HardPage
<1>4. ~HasText(pages[chosen[i]]) /\ plan[i].page = chosen[i]
  BY <1>2 DEF HardPage
<1>5. CASE ocr /\ plan[i].method = "VISION"
  <2>1. ~(ScansBefore(pages, chosen, i) < MaxOcrPages)
    BY <1>2, <1>4, <1>5
  <2> DEFINE low == {j \in T : j < i}
  <2>2. IsFiniteSet(low)
    <3>1. IsFiniteSet(1 .. Len(chosen)) /\ low \in SUBSET (1 .. Len(chosen))
      BY <1>1, FS_Interval
    <3> QED BY <3>1, FS_Subset
  <2>3. PICK n \in Nat : n = Cardinality(low)
    BY <2>2, FS_CardinalityType
  <2>4. ScansBefore(pages, chosen, i) = n
    BY <1>1, <2>3, ScansByPlace
  <2>5. ScansBefore(pages, chosen, i) >= MaxOcrPages
    BY <2>1, <2>4 DEF MaxOcrPages
  <2> QED BY <1>1, <1>4, <2>5 DEF Late
<1>6. CASE plan[i].method = "LOCAL_OCR"
  BY <1>3, <1>4, <1>6
<1>7. CASE ~ocr
  BY <1>4, <1>7
<1> QED BY <1>5, <1>6, <1>7 DEF HardPage

\* One reading to a page that was chosen.
OneToAPage(read, chosen) ==
  /\ \A x \in read : x.page \in ToSet(chosen)
  /\ \A x, y \in read : x.page = y.page => x = y

Tidy(seq, chosen) ==
  /\ Len(seq) <= Len(chosen)
  /\ \A i \in 1 .. Len(seq) - 1 : seq[i].page < seq[i + 1].page
  /\ \A i \in DOMAIN seq : seq[i].page \in ToSet(chosen)

LEMMA ReadingsInPageOrder ==
  ASSUME NEW last \in Nat, NEW chosen, Once(chosen, last), NEW read, OneToAPage(read, chosen)
  PROVE  Tidy(InPageOrder(read), chosen)
<1> DEFINE ahead == [x \in read |-> {y \in read : y.page < x.page}]
           seq == InPageOrder(read)
           nth(i) == CHOOSE x \in read : Cardinality({y \in read : y.page < x.page}) = i - 1
<1>1. seq = [i \in 1 .. Cardinality(read) |-> nth(i)]
  BY DEF InPageOrder, Sorted
<1> HIDE DEF seq
<1>2. Len(chosen) \in Nat /\ IsFiniteSet(1 .. Len(chosen)) /\ Cardinality(1 .. Len(chosen)) = Len(chosen)
  <2>1. Len(chosen) \in Nat
    BY DEF Once
  <2>2. PICK n \in Nat : n = Len(chosen)
    BY <2>1
  <2>3. IsFiniteSet(1 .. n) /\ Cardinality(1 .. n) = IF 1 > n THEN 0 ELSE n - 1 + 1
    BY FS_Interval
  <2>4. Cardinality(1 .. n) = n
    BY <2>3
  <2> QED BY <2>1, <2>2, <2>3, <2>4
<1>3. ToSet(chosen) \in SUBSET Int /\ IsFiniteSet(ToSet(chosen)) /\ Cardinality(ToSet(chosen)) <= Len(chosen)
  <2>1. [j \in 1 .. Len(chosen) |-> chosen[j]] \in Surjection(1 .. Len(chosen), ToSet(chosen))
    <3>1. DOMAIN chosen = 1 .. Len(chosen)
      BY DEF Once
    <3>2. ToSet(chosen) = {chosen[j] : j \in 1 .. Len(chosen)}
      BY <3>1 DEF ToSet
    <3> QED BY <3>2 DEF Surjection
  <2>2. ToSet(chosen) \in SUBSET Int
    BY DEF ToSet, Once
  <2> QED BY <1>2, <2>1, <2>2, FS_Surjection
<1>4. IsFiniteSet(read) /\ Cardinality(read) <= Len(chosen)
  <2>1. [x \in read |-> x.page] \in Injection(read, ToSet(chosen))
    BY DEF OneToAPage, Injection, IsInjective
  <2>2. IsFiniteSet(read) /\ Cardinality(read) <= Cardinality(ToSet(chosen))
    BY <1>3, <2>1, FS_Injection
  <2>3. Cardinality(read) \in Nat /\ Cardinality(ToSet(chosen)) \in Nat
    BY <1>3, <2>2, FS_CardinalityType
  <2> QED BY <1>2, <1>3, <2>2, <2>3
<1>5. \A x \in read : x.page \in Int
  BY <1>3 DEF OneToAPage
<1>6. Ranks(ahead, read)
  <2>1. ahead \in [read -> SUBSET read]
    OBVIOUS
  <2>2. \A q, r \in read : q \in ahead[r] <=> q.page < r.page
    OBVIOUS
  <2> HIDE DEF ahead
  <2>3. \A q, r \in read : q \in ahead[r] => ahead[q] \subseteq ahead[r]
    <3> SUFFICES ASSUME NEW q \in read, NEW r \in read, q \in ahead[r], NEW s \in ahead[q] PROVE s \in ahead[r]
      OBVIOUS
    <3>1. s \in read
      BY <2>1
    <3>2. s.page \in Int /\ q.page \in Int /\ r.page \in Int /\ s.page < q.page /\ q.page < r.page
      BY <1>5, <2>2, <3>1
    <3>3. s.page < r.page
      BY <3>2
    <3> QED BY <2>2, <3>1, <3>3
  <2>4. \A q, r \in read : q # r => q \in ahead[r] \/ r \in ahead[q]
    <3> SUFFICES ASSUME NEW q \in read, NEW r \in read, q # r PROVE q \in ahead[r] \/ r \in ahead[q]
      OBVIOUS
    <3>1. q.page \in Int /\ r.page \in Int /\ q.page # r.page
      BY <1>5 DEF OneToAPage
    <3>2. q.page < r.page \/ r.page < q.page
      BY <3>1
    <3> QED BY <2>2, <3>2
  <2>5. ASSUME NEW r \in read PROVE r \notin ahead[r]
    BY <1>5, <2>2
  <2> QED BY <2>1, <2>3, <2>4, <2>5 DEF Ranks
<1>7. Placed(seq, read, ahead)
  <2>1. ASSUME NEW x \in read
        PROVE  ahead[x] = {y \in read : y.page < x.page}
    OBVIOUS
  <2> HIDE DEF ahead
  <2>2. seq = [i \in 1 .. Cardinality(read) |-> seq[i]]
    <3> HIDE DEF nth
    <3> QED BY <1>1
  <2>3. ASSUME NEW i \in 1 .. Cardinality(read), NEW x \in read, Cardinality(ahead[x]) = i - 1
        PROVE  seq[i] \in read /\ Cardinality(ahead[seq[i]]) = i - 1
    <3> DEFINE Is(z) == Cardinality({y \in read : y.page < z.page}) = i - 1
    <3>1. nth(i) = CHOOSE z \in read : Is(z)
      OBVIOUS
    <3> HIDE DEF nth
    <3>2. seq[i] = nth(i)
      BY <1>1
    <3>3. Is(x)
      BY <2>1, <2>3
    <3> HIDE DEF Is
    <3>4. seq[i] \in read /\ Is(seq[i])
      BY <3>1, <3>2, <3>3
    <3> QED BY <2>1, <3>4 DEF Is
  <2> QED BY <2>2, <2>3 DEF Placed
<1>8. \A q, r \in read : q \in ahead[r] => q.page < r.page
  OBVIOUS
<1> HIDE DEF ahead, nth
<1>9. InOrder(seq, read, ahead)
  BY <1>4, <1>6, <1>7, SortedInOrder
<1>10. seq \in Seq(read) /\ Len(seq) = Cardinality(read) /\ Len(seq) \in Nat
  BY <1>4, <1>9, FS_CardinalityType DEF InOrder
<1>11. ASSUME NEW i \in 1 .. Len(seq) - 1 PROVE seq[i].page < seq[i + 1].page
  <2>1. i \in 1 .. Len(seq) /\ i + 1 \in 1 .. Len(seq) /\ i < i + 1
    BY <1>10
  <2>2. seq[i] \in read /\ seq[i + 1] \in read
    BY <1>10, <2>1
  <2>3. seq[i] \in ahead[seq[i + 1]]
    BY <1>9, <1>10, <2>1 DEF InOrder
  <2> QED BY <1>8, <2>2, <2>3
<1>12. ASSUME NEW i \in DOMAIN seq PROVE seq[i].page \in ToSet(chosen)
  <2>1. seq[i] \in read
    BY <1>10
  <2> QED BY <2>1 DEF OneToAPage
<1>13. Tidy(seq, chosen)
  BY <1>4, <1>10, <1>11, <1>12 DEF Tidy
<1> QED BY <1>13 DEF seq

\* Each step of a plan that is done comes to one reading of its page.
AsRead(planned, pages, brief) ==
  IF HardPage(planned, pages, brief) THEN [page |-> planned.page, method |-> "VISION"] ELSE planned

ComesOf(x, plan, todo, pages, brief) == \E i \in todo : x = AsRead(plan[i], pages, brief)

LEMMA StepsRead ==
  ASSUME NEW plan, NEW todo, NEW pages, NEW brief, NEW env, NEW x \in RunPlan(plan, todo, pages, brief, env).pages
  PROVE  ComesOf(x, plan, todo, pages, brief)
<1> DEFINE hard == {i \in todo : HardPage(plan[i], pages, brief)}
           paid == VisionPages(hard, env)
<1>1. RunPlan(plan, todo, pages, brief, env).pages =
        {plan[i] : i \in todo \ hard} \cup {[page |-> plan[i].page, method |-> "VISION"] : i \in {k \in paid : env.answers}}
  BY DEF RunPlan
<1>2. paid \subseteq hard
  BY DEF VisionPages
<1> HIDE DEF paid
<1>3. CASE x \in {plan[i] : i \in todo \ hard}
  BY <1>3 DEF AsRead, ComesOf
<1>4. CASE x \in {[page |-> plan[i].page, method |-> "VISION"] : i \in {k \in paid : env.answers}}
  BY <1>2, <1>4 DEF AsRead, ComesOf
<1> QED BY <1>1, <1>3, <1>4

Plans(plan, chosen) == DOMAIN plan = 1 .. Len(chosen) /\ \A i \in 1 .. Len(chosen) : plan[i].page = chosen[i]

FromSteps(read, todo, chosen) == \A x \in read : \E i \in todo : x.page = chosen[i]

LEMMA StepsReadOnce ==
  ASSUME NEW chosen, NEW last, Once(chosen, last), NEW plan, Plans(plan, chosen),
         NEW todo \in SUBSET (1 .. Len(chosen)), NEW pages, NEW brief, NEW env
  PROVE  /\ OneToAPage(RunPlan(plan, todo, pages, brief, env).pages, chosen)
         /\ FromSteps(RunPlan(plan, todo, pages, brief, env).pages, todo, chosen)
<1> DEFINE read == RunPlan(plan, todo, pages, brief, env).pages
           h == [i \in todo |-> AsRead(plan[i], pages, brief)]
<1>1. ASSUME NEW x \in read PROVE \E i \in todo : x = h[i]
  <2>1. PICK i \in todo : x = AsRead(plan[i], pages, brief)
    <3>1. ComesOf(x, plan, todo, pages, brief)
      BY StepsRead
    <3> QED BY <3>1 DEF ComesOf
  <2> QED BY <2>1
<1>2. \A i \in todo : h[i].page = chosen[i]
  BY DEF AsRead, Plans
<1> HIDE DEF read, h
<1>3. \A x \in read : \E i \in todo : x.page = chosen[i]
  BY <1>1, <1>2
<1>4. \A x \in read : x.page \in ToSet(chosen)
  BY <1>3 DEF ToSet, Once
<1>5. ASSUME NEW x \in read, NEW y \in read, x.page = y.page PROVE x = y
  <2>1. PICK i \in todo : x = h[i]
    BY <1>1
  <2>2. PICK j \in todo : y = h[j]
    BY <1>1
  <2>3. chosen[i] = chosen[j]
    BY <1>2, <1>5, <2>1, <2>2
  <2>4. i = j
    BY <2>3 DEF Once
  <2> QED BY <2>1, <2>2, <2>4
<1> QED BY <1>3, <1>4, <1>5 DEF OneToAPage, FromSteps, read

-----------------------------------------------------------------------------
(* Each reader is frugal.                                                   *)

Frugal(result, file, brief, env, cached) ==
  LET chosen == Selected(file.pages, brief)
      named == ParseRequestedPages(file.pages, brief)
  IN  /\ Len(result.pages) <= MaxPagesProcessed /\ result.ocr <= MaxOcrPages
      /\ Cardinality(result.vision) <= MaxVisionPages
      /\ result.vision # {} => env.permits /\ result.state # "REJECTED"
      /\ \A c \in cached : c.page \notin result.vision
      /\ \A i \in 1 .. Len(result.pages) - 1 : result.pages[i].page < result.pages[i + 1].page
      /\ (file.head = "pdf" /\ named # <<>>) => \A i \in DOMAIN result.pages : result.pages[i].page \in ToSet(named)
      /\ (file.head # "audio" /\ env.ocr) =>
           \A p \in result.vision :
             /\ ~HasText(file.pages[p])
             /\ \/ Late(p, file.pages, chosen)
                \/ ~Assess(ReadLocally(file.pages[p].passes), brief.math)

\* What reads one page or none keeps the order.
OneAtMost(read) == \E x : read \subseteq {x}

LEMMA OneReading ==
  ASSUME NEW read, OneAtMost(read)
  PROVE  /\ Len(InPageOrder(read)) \in {0, 1} /\ DOMAIN InPageOrder(read) = 1 .. Len(InPageOrder(read))
         /\ read = {} => Len(InPageOrder(read)) = 0
<1> DEFINE nth(i) == CHOOSE y \in read : Cardinality({z \in read : z.page < y.page}) = i - 1
           seq == InPageOrder(read)
<1>1. seq = [i \in 1 .. Cardinality(read) |-> nth(i)]
  BY DEF InPageOrder, Sorted
<1>2. PICK n \in {0, 1} : n = Cardinality(read) /\ (read = {} => n = 0)
  <2>1. PICK x : read = {} \/ read = {x}
    BY DEF OneAtMost
  <2> QED BY <2>1, FS_EmptySet, FS_Singleton
<1> HIDE DEF nth, seq
<1>3. seq \in Seq({nth(i) : i \in 1 .. n}) /\ Len(seq) = n /\ DOMAIN seq = 1 .. n
  BY <1>1, <1>2
<1> QED BY <1>2, <1>3 DEF seq

LEMMA QuietIsFrugal ==
  ASSUME NEW state, NEW reason, NEW read, OneAtMost(read), NEW yield,
         yield = [pages |-> read, ocr |-> 0, vision |-> {}], NEW hits,
         NEW file, file.head = "pdf" => read = {}, NEW brief, NEW env, NEW cached
  PROVE  Frugal(Result(state, reason, yield, hits), file, brief, env, cached)
<1> DEFINE result == Result(state, reason, yield, hits)
<1>1. result.pages = InPageOrder(read) /\ result.ocr = 0 /\ result.vision = {}
  BY DEF Result
<1> HIDE DEF result
<1>2. /\ Len(result.pages) \in {0, 1} /\ DOMAIN result.pages = 1 .. Len(result.pages)
      /\ read = {} => Len(result.pages) = 0
  BY <1>1, OneReading
<1>3. 1 .. Len(result.pages) - 1 = {}
  <2>1. PICK n \in {0, 1} : n = Len(result.pages)
    BY <1>2
  <2>2. 1 .. n - 1 = {}
    OBVIOUS
  <2> QED BY <2>1, <2>2
<1>4. ASSUME file.head = "pdf" PROVE DOMAIN result.pages = {}
  <2>1. Len(result.pages) = 0
    BY <1>2, <1>4
  <2>2. DOMAIN result.pages = 1 .. 0
    BY <1>2, <2>1
  <2> QED BY <2>2
<1>5. Cardinality(result.vision) = 0
  BY <1>1, FS_EmptySet
<1>6. Frugal(result, file, brief, env, cached)
  BY <1>1, <1>2, <1>3, <1>4, <1>5 DEF Frugal, MaxPagesProcessed, MaxOcrPages, MaxVisionPages
<1> QED BY <1>6 DEF result

LEMMA VoiceIsFrugal ==
  ASSUME NEW file, file.head = "audio", NEW brief, NEW env, NEW cached
  PROVE  Frugal(ReadVoice(file, env, cached), file, brief, env, cached)
<1>1. CASE cached # {}
  <2>1. ReadVoice(file, env, cached) = Result("READY_FOR_CAPABILITY", "OK", [Unread EXCEPT !.pages = {Served(cached, 1)}], 1)
    BY <1>1 DEF ReadVoice, Ready
  <2>2. [Unread EXCEPT !.pages = {Served(cached, 1)}] = [pages |-> {Served(cached, 1)}, ocr |-> 0, vision |-> {}]
    BY DEF Unread
  <2>3. OneAtMost({Served(cached, 1)})
    BY DEF OneAtMost
  <2> QED BY <2>1, <2>2, <2>3, QuietIsFrugal
<1>2. CASE cached = {} /\ env.permits /\ file.seconds <= MaxAudioSeconds /\ env.gateway
  <2> DEFINE heard == IF env.answers THEN {[page |-> 1, method |-> "TRANSCRIPTION"]} ELSE {}
             result == ReadVoice(file, env, cached)
  <2>1. result = Result("READY_FOR_CAPABILITY", "OK", [Unread EXCEPT !.vision = {1}, !.pages = heard], 0)
    BY <1>2 DEF ReadVoice, Ready
  <2>2. /\ result.pages = InPageOrder(heard) /\ result.ocr = 0 /\ result.vision = {1}
        /\ result.state = "READY_FOR_CAPABILITY"
    BY <2>1 DEF Result, Unread
  <2>3. OneAtMost(heard)
    BY DEF OneAtMost
  <2> HIDE DEF heard, result
  <2>4. PICK n \in {0, 1} : n = Len(result.pages)
    BY <2>2, <2>3, OneReading
  <2>5. 1 .. n - 1 = {}
    OBVIOUS
  <2>6. Cardinality(result.vision) = 1
    BY <2>2, FS_Singleton
  <2>7. Frugal(result, file, brief, env, cached)
    BY <1>2, <2>2, <2>4, <2>5, <2>6 DEF Frugal, MaxPagesProcessed, MaxOcrPages, MaxVisionPages
  <2> QED BY <2>7 DEF result
<1>3. CASE ~(cached # {}) /\ ~(cached = {} /\ env.permits /\ file.seconds <= MaxAudioSeconds /\ env.gateway)
  <2>1. ReadVoice(file, env, cached) = Result("READY_FOR_CAPABILITY", "OK", Unread, 0)
    BY <1>3 DEF ReadVoice, Ready
  <2>2. Unread = [pages |-> {}, ocr |-> 0, vision |-> {}] /\ OneAtMost({})
    BY DEF Unread, OneAtMost
  <2> QED BY <2>1, <2>2, QuietIsFrugal
<1> QED BY <1>1, <1>2, <1>3

\* A served page is the page it was served for.
LEMMA ServedPages ==
  ASSUME NEW cached, NEW p, \E c \in cached : c.page = p
  PROVE  Served(cached, p).page = p
  BY DEF Served

HitsOf(plan, cached) == {p \in {planned.page : planned \in ToSet(plan)} : \E c \in cached : c.page = p}

AndServed(read, hits, cached) == read \cup {Served(cached, p) : p \in hits}

LEMMA PdfReadings ==
  ASSUME NEW chosen, NEW last, Once(chosen, last), NEW plan, Plans(plan, chosen),
         NEW pages, NEW brief, NEW env, NEW cached, NEW hits, hits = HitsOf(plan, cached)
  PROVE  OneToAPage(AndServed(RunPlan(plan, Remaining(plan, cached), pages, brief, env).pages, hits, cached), chosen)
<1> DEFINE todo == Remaining(plan, cached)
           read == RunPlan(plan, todo, pages, brief, env).pages
           served == {Served(cached, p) : p \in hits}
<1>1. todo \in SUBSET (1 .. Len(chosen)) /\ \A i \in todo, c \in cached : c.page # plan[i].page
  BY DEF Remaining, Plans
<1> HIDE DEF todo
<1>2. OneToAPage(read, chosen) /\ \A x \in read : \E i \in todo : x.page = chosen[i]
  <2>1. OneToAPage(read, chosen) /\ FromSteps(read, todo, chosen)
    BY <1>1, StepsReadOnce
  <2> QED BY <2>1 DEF FromSteps
<1> HIDE DEF read
<1>3. ASSUME NEW p \in hits PROVE p \in ToSet(chosen) /\ (\E c \in cached : c.page = p) /\ Served(cached, p).page = p
  <2>1. PICK planned \in ToSet(plan) : planned.page = p
    BY DEF HitsOf
  <2>2. PICK i \in 1 .. Len(chosen) : planned = plan[i]
    BY <2>1 DEF ToSet, Plans
  <2>3. p = chosen[i]
    BY <2>1, <2>2 DEF Plans
  <2>4. p \in ToSet(chosen)
    BY <2>3 DEF ToSet, Once
  <2>5. \E c \in cached : c.page = p
    BY DEF HitsOf
  <2> QED BY <2>4, <2>5, ServedPages
<1>4. \A x \in read \cup served : x.page \in ToSet(chosen)
  BY <1>2, <1>3 DEF OneToAPage
<1>5. ASSUME NEW x \in served PROVE \E p \in hits : x = Served(cached, p) /\ x.page = p
  BY <1>3
<1>6. ASSUME NEW x \in served, NEW y \in read PROVE x.page # y.page
  <2>1. PICK c \in cached : c.page = x.page
    BY <1>3, <1>5
  <2>2. PICK i \in todo : y.page = chosen[i]
    BY <1>2
  <2>3. y.page = plan[i].page
    BY <1>1, <2>2 DEF Plans
  <2> QED BY <1>1, <2>1, <2>2, <2>3
<1>7. \A x, y \in served : x.page = y.page => x = y
  BY <1>5
<1> HIDE DEF served
<1>8. \A x, y \in read \cup served : x.page = y.page => x = y
  BY <1>2, <1>6, <1>7 DEF OneToAPage
<1> QED BY <1>4, <1>8 DEF OneToAPage, AndServed, read, served, todo

\* What a plan comes to, whichever of its steps are taken.
LEMMA RunsAreFrugal ==
  ASSUME NEW pages, NEW brief, NEW env, NEW chosen, chosen = Selected(pages, brief), NEW last \in Nat, Once(chosen, last),
         NEW plan, plan = PlanExtraction(pages, brief, env.ocr), NEW todo \in SUBSET (DOMAIN plan),
         NEW run, run = RunPlan(plan, todo, pages, brief, env)
  PROVE  /\ run.ocr <= MaxOcrPages /\ Cardinality(run.vision) <= MaxVisionPages
         /\ run.vision # {} => env.permits
         /\ \A p \in run.vision :
              /\ ~HasText(pages[p])
              /\ \/ ~env.ocr
                 \/ Late(p, pages, chosen)
                 \/ ~Assess(ReadLocally(pages[p].passes), brief.math)
<1> DEFINE hard == {i \in todo : HardPage(plan[i], pages, brief)}
           paid == VisionPages(hard, env)
<1>1. DOMAIN plan = 1 .. Len(chosen) /\ Len(chosen) \in Nat
  BY PlannedPages DEF Once
<1>2. run.ocr = Cardinality({i \in todo : plan[i].method = "LOCAL_OCR"}) /\ run.vision = {plan[i].page : i \in paid}
  BY DEF RunPlan
<1>3. run.ocr <= MaxOcrPages
  BY <1>2, LocalReadsAreFew
<1>4. hard \in SUBSET (1 .. Len(chosen))
  BY <1>1
<1>5. Cardinality(run.vision) <= MaxVisionPages
  <2>1. paid = VisionPages(hard, env)
    OBVIOUS
  <2>2. PICK n \in Nat : n = Len(chosen)
    BY <1>1
  <2>3. hard \in SUBSET (1 .. n)
    BY <1>4, <2>2
  <2> HIDE DEF hard, paid
  <2>4. PICK paper : paper = run.vision /\ paper = PagesOf(plan, paid)
    BY <1>2 DEF PagesOf
  <2>5. Cardinality(paper) <= MaxVisionPages
    BY <2>1, <2>3, <2>4, PaidPagesAreFew
  <2> QED BY <2>4, <2>5
<1>6. paid \subseteq hard /\ (paid # {} => env.permits)
  BY DEF VisionPages
<1> HIDE DEF paid
<1>7. run.vision # {} => env.permits
  BY <1>2, <1>6
<1>8. ASSUME NEW p \in run.vision
      PROVE  /\ ~HasText(pages[p])
             /\ \/ ~env.ocr
                \/ Late(p, pages, chosen)
                \/ ~Assess(ReadLocally(pages[p].passes), brief.math)
  <2>1. PICK i \in paid : p = plan[i].page
    BY <1>2
  <2>2. i \in DOMAIN plan /\ HardPage(plan[i], pages, brief)
    BY <1>6
  <2> HIDE DEF hard
  <2>3. /\ ~HasText(pages[plan[i].page])
        /\ \/ ~env.ocr
           \/ Late(plan[i].page, pages, chosen)
           \/ ~Assess(ReadLocally(pages[plan[i].page].passes), brief.math)
    BY <2>2, HardPagesAreHard
  <2> QED BY <2>1, <2>3
<1> QED BY <1>3, <1>5, <1>7, <1>8

LEMMA PdfIsFrugal ==
  ASSUME NEW file, file.head = "pdf", IsASequence(file.pages), NEW brief, brief.matches \in Seq(Nat),
         IsFiniteSet(brief.questions), NEW env, NEW cached
  PROVE  Frugal(ReadPdf(file, brief, env, cached), file, brief, env, cached)
<1>1. CASE Inspect(file) # "OK"
  <2>1. ReadPdf(file, brief, env, cached) = Result("REJECTED", Inspect(file), Unread, 0)
    BY <1>1 DEF ReadPdf
  <2>2. Unread = [pages |-> {}, ocr |-> 0, vision |-> {}] /\ OneAtMost({})
    BY DEF Unread, OneAtMost
  <2> QED BY <2>1, <2>2, QuietIsFrugal
<1>2. CASE Inspect(file) = "OK"
  <2>1. PICK chosen : chosen = Selected(file.pages, brief)
    OBVIOUS
  <2>2. PICK last \in Nat : last = Len(file.pages)
    BY SequenceIndices
  <2>3. /\ Once(chosen, last) /\ Len(chosen) <= MaxPagesProcessed
        /\ ParseRequestedPages(file.pages, brief) # <<>> =>
             ToSet(chosen) \subseteq ToSet(ParseRequestedPages(file.pages, brief))
    BY <2>1, <2>2, ChosenOnce
  <2>4. PICK plan : plan = PlanExtraction(file.pages, brief, env.ocr)
    OBVIOUS
  <2>5. Plans(plan, chosen)
    BY <2>1, <2>3, <2>4, PlannedPages DEF Plans
  <2>6. PICK todo : todo = Remaining(plan, cached) /\ todo \in SUBSET (DOMAIN plan)
    BY DEF Remaining
  <2>7. PICK hits : hits = HitsOf(plan, cached)
    OBVIOUS
  <2>8. PICK run : run = RunPlan(plan, todo, file.pages, brief, env)
    OBVIOUS
  <2> DEFINE read == AndServed(run.pages, hits, cached)
             result == ReadPdf(file, brief, env, cached)
  <2>9. OneToAPage(read, chosen)
    BY <2>3, <2>5, <2>6, <2>7, <2>8, PdfReadings
  <2>10. /\ result.pages = InPageOrder(read) /\ result.ocr = run.ocr /\ result.vision = run.vision
         /\ result.state = "READY_FOR_CAPABILITY"
    <3> DEFINE whole == [run EXCEPT !.pages = @ \cup {Served(cached, p) : p \in hits}]
    <3>1. result = Ready(whole, Cardinality(hits))
      BY <1>2, <2>4, <2>6, <2>7, <2>8 DEF ReadPdf, HitsOf
    <3>2. whole.pages = read /\ whole.ocr = run.ocr /\ whole.vision = run.vision
      <4>1. run = [pages |-> run.pages, ocr |-> run.ocr, vision |-> run.vision]
        BY <2>8 DEF RunPlan
      <4> QED BY <4>1 DEF AndServed
    <3> HIDE DEF whole, result, read
    <3> QED BY <3>1, <3>2 DEF Ready, Result
  <2>11. \A p \in result.vision : \A c \in cached : c.page # p
    BY ReadPdfPaysForTheRest
  <2> HIDE DEF read, result
  <2>12. Tidy(result.pages, chosen)
    BY <2>3, <2>9, <2>10, ReadingsInPageOrder
  <2>13. Len(result.pages) <= MaxPagesProcessed
    <3>1. Len(chosen) \in Nat
      BY <2>3 DEF Once
    <3>2. Len(result.pages) <= Len(chosen) /\ Len(chosen) <= MaxPagesProcessed
      BY <2>3, <2>12 DEF Tidy
    <3> QED BY <3>1, <3>2 DEF MaxPagesProcessed
  <2>14. /\ run.ocr <= MaxOcrPages /\ Cardinality(run.vision) <= MaxVisionPages
         /\ run.vision # {} => env.permits
         /\ \A p \in run.vision :
              /\ ~HasText(file.pages[p])
              /\ \/ ~env.ocr
                 \/ Late(p, file.pages, chosen)
                 \/ ~Assess(ReadLocally(file.pages[p].passes), brief.math)
    BY <2>1, <2>3, <2>4, <2>6, <2>8, RunsAreFrugal
  <2>15. \A i \in 1 .. Len(result.pages) - 1 : result.pages[i].page < result.pages[i + 1].page
    BY <2>12 DEF Tidy
  <2>16. ParseRequestedPages(file.pages, brief) # <<>> =>
           \A i \in DOMAIN result.pages : result.pages[i].page \in ToSet(ParseRequestedPages(file.pages, brief))
    BY <2>3, <2>12 DEF Tidy
  <2>17. Frugal(result, file, brief, env, cached)
    BY <2>1, <2>10, <2>11, <2>13, <2>14, <2>15, <2>16 DEF Frugal
  <2> QED BY <2>17 DEF result
<1> QED BY <1>1, <1>2

LEMMA ImageIsFrugal ==
  ASSUME NEW file, file.head = "image", ~HasText(file.pages[1]), NEW brief, NEW env, NEW cached
  PROVE  Frugal(ReadImage(file, brief, env, cached), file, brief, env, cached)
<1> DEFINE cleans == WantsEnhancement(brief) /\ file.filters
<1>1. CASE cleans
  <2>1. ReadImage(file, brief, env, cached) = Result("READY_FOR_CAPABILITY", "OK", Unread, 0)
    BY <1>1 DEF ReadImage
  <2>2. Unread = [pages |-> {}, ocr |-> 0, vision |-> {}] /\ OneAtMost({})
    BY DEF Unread, OneAtMost
  <2> QED BY <2>1, <2>2, QuietIsFrugal
<1>2. CASE ~cleans /\ cached # {}
  <2>1. ReadImage(file, brief, env, cached)
          = Result("READY_FOR_CAPABILITY", "OK", [Unread EXCEPT !.pages = {Served(cached, 1)}], 1)
    BY <1>2 DEF ReadImage, Ready
  <2>2. [Unread EXCEPT !.pages = {Served(cached, 1)}] = [pages |-> {Served(cached, 1)}, ocr |-> 0, vision |-> {}]
    BY DEF Unread
  <2>3. OneAtMost({Served(cached, 1)}) /\ file.head # "pdf"
    BY DEF OneAtMost
  <2> QED BY <2>1, <2>2, <2>3, QuietIsFrugal
<1>3. CASE ~cleans /\ cached = {}
  <2>1. PICK whole : whole = <<[page |-> 1, method |-> IF env.ocr THEN "LOCAL_OCR" ELSE "VISION"]>>
    OBVIOUS
  <2>2. PICK run : run = RunPlan(whole, {1}, file.pages, brief, env)
    OBVIOUS
  <2>3. DOMAIN whole = {1} /\ whole[1].page = 1 /\ (env.ocr => whole[1].method = "LOCAL_OCR")
    BY <2>1
  <2> DEFINE result == ReadImage(file, brief, env, cached)
             hard   == {i \in {1} : HardPage(whole[i], file.pages, brief)}
             paid   == VisionPages(hard, env)
             local  == {i \in {1} : whole[i].method = "LOCAL_OCR"}
  <2>4. result = Ready(run, 0)
    BY <1>3, <2>1, <2>2 DEF ReadImage
  <2>5. /\ result.pages = InPageOrder(run.pages) /\ result.ocr = run.ocr /\ result.vision = run.vision
        /\ result.state = "READY_FOR_CAPABILITY"
    <3> HIDE DEF result
    <3> QED BY <2>4 DEF Ready, Result
  <2> HIDE DEF result
  <2>6. run.ocr = Cardinality(local) /\ run.vision = {whole[i].page : i \in paid}
    BY <2>2 DEF RunPlan
  <2>7. PICK n \in {0, 1} : n = Len(result.pages)
    <3> DEFINE one == <<1>>
    <3>1. one \in Seq(1 .. 1) /\ Len(one) = 1 /\ one[1] = 1
      OBVIOUS
    <3>2. 1 .. 1 = {1}
      OBVIOUS
    <3> HIDE DEF one
    <3>3. Once(one, 1)
      BY <3>1, <3>2 DEF Once
    <3>4. Plans(whole, one)
      BY <2>3, <3>1, <3>2 DEF Plans
    <3>5. {1} \in SUBSET (1 .. Len(one))
      BY <3>1, <3>2
    <3>6. OneToAPage(run.pages, one)
      BY <2>2, <3>3, <3>4, <3>5, StepsReadOnce
    <3>7. ToSet(one) = {1}
      BY <3>1, <3>2 DEF ToSet
    <3>8. OneAtMost(run.pages)
      BY <3>6, <3>7 DEF OneToAPage, OneAtMost
    <3> QED BY <2>5, <3>8, OneReading
  <2>8. paid \subseteq hard /\ (paid # {} => env.permits) /\ hard \subseteq {1}
    BY DEF VisionPages
  <2>9. env.ocr /\ paid # {} => ~Assess(ReadLocally(file.pages[1].passes), brief.math)
    BY <2>3, <2>8 DEF HardPage
  <2>10. run.ocr \in {0, 1}
    <3>1. local = {} \/ local = {1}
      OBVIOUS
    <3>2. Cardinality({}) = 0 /\ Cardinality({1}) = 1
      BY FS_EmptySet, FS_Singleton
    <3> HIDE DEF local
    <3> QED BY <2>6, <3>1, <3>2
  <2> HIDE DEF paid, hard
  <2>11. run.vision \subseteq {1} /\ (run.vision # {} => paid # {})
    BY <2>3, <2>6, <2>8
  <2>12. Cardinality(run.vision) \in {0, 1}
    <3>1. run.vision = {} \/ run.vision = {1}
      BY <2>11
    <3>2. Cardinality({}) = 0 /\ Cardinality({1}) = 1
      BY FS_EmptySet, FS_Singleton
    <3> QED BY <3>1, <3>2
  <2>13. /\ 1 .. n - 1 = {} /\ n <= MaxPagesProcessed /\ run.ocr <= MaxOcrPages
         /\ Cardinality(run.vision) <= MaxVisionPages
    BY <2>10, <2>12 DEF MaxPagesProcessed, MaxOcrPages, MaxVisionPages
  <2>14. Frugal(result, file, brief, env, cached)
    BY <1>3, <2>5, <2>7, <2>8, <2>9, <2>11, <2>13 DEF Frugal
  <2> QED BY <2>14 DEF result
<1> QED BY <1>1, <1>2, <1>3

LEMMA FilesAreReadFrugally ==
  ASSUME NEW file, IsASequence(file.pages), file.head = "image" => ~HasText(file.pages[1]),
         NEW brief, brief.matches \in Seq(Nat), IsFiniteSet(brief.questions), NEW env, NEW cached
  PROVE  Frugal(ReadFile(file, brief, env, cached), file, brief, env, cached)
<1>1. CASE Refusal(file) # "OK"
  <2>1. ReadFile(file, brief, env, cached) = Result("REJECTED", Refusal(file), Unread, 0)
    BY <1>1 DEF ReadFile
  <2>2. Unread = [pages |-> {}, ocr |-> 0, vision |-> {}] /\ OneAtMost({})
    BY DEF Unread, OneAtMost
  <2> QED BY <2>1, <2>2, QuietIsFrugal
<1>2. CASE Refusal(file) = "OK"
  <2>1. file.head \in DOMAIN Category
    BY <1>2 DEF Refusal, Validate
  <2>2. CASE file.head = "pdf"
    <3>1. ReadFile(file, brief, env, cached) = ReadPdf(file, brief, env, cached)
      BY <1>2, <2>2 DEF ReadFile
    <3> QED BY <2>2, <3>1, PdfIsFrugal
  <2>3. CASE file.head = "audio"
    <3>1. ReadFile(file, brief, env, cached) = ReadVoice(file, env, cached)
      BY <1>2, <2>3 DEF ReadFile
    <3> QED BY <2>3, <3>1, VoiceIsFrugal
  <2>4. CASE file.head = "image"
    <3>1. ReadFile(file, brief, env, cached) = ReadImage(file, brief, env, cached)
      BY <1>2, <2>4 DEF ReadFile
    <3> QED BY <2>4, <3>1, ImageIsFrugal
  <2> QED BY <2>1, <2>2, <2>3, <2>4 DEF Category
<1> QED BY <1>1, <1>2

LEMMA ToldReadFrugally == ASSUME ToldInv PROVE ReadFrugally
<1> SUFFICES ASSUME shown.kind = "file" PROVE ReadFrugally
  BY DEF ReadFrugally
<1>1. PICK sheet \in Sheets : sheet.kind = "file" /\ SheetOK(sheet) /\ shown = Outcome(sheet)
  BY AnswersHaveASheet DEF Exercises
<1>2. shown = [kind |-> "file", sheet |-> sheet, result |-> ReadFile(sheet.file, sheet.brief, sheet.env, sheet.cached)]
  BY <1>1 DEF Outcome
<1>3. /\ IsASequence(sheet.file.pages) /\ sheet.brief.matches \in Seq(Nat) /\ IsFiniteSet(sheet.brief.questions)
      /\ sheet.file.head = "image" => ~HasText(sheet.file.pages[1])
  BY <1>1 DEF SheetOK
<1>4. Frugal(ReadFile(sheet.file, sheet.brief, sheet.env, sheet.cached), sheet.file, sheet.brief, sheet.env, sheet.cached)
  BY <1>3, FilesAreReadFrugally
<1>5. shown.sheet = sheet /\ shown.result = ReadFile(sheet.file, sheet.brief, sheet.env, sheet.cached)
  BY <1>2
<1> QED BY <1>4, <1>5, Zenon DEF ReadFrugally, Frugal, Late

-----------------------------------------------------------------------------
(* Sequences one after the other.                                           *)

\* flat[k] is what the first k of them come to.
Flattens(flat, seqs, S) ==
  /\ flat[0] = <<>>
  /\ \A k \in 1 .. Len(seqs) : flat[k] = flat[k - 1] \o seqs[k]
  /\ \A k \in 0 .. Len(seqs) : flat[k] \in Seq(S)

LEMMA FlattenedByIndex ==
  ASSUME NEW S, NEW seqs \in Seq(Seq(S))
  PROVE  \E flat : Flattens(flat, seqs, S) /\ FlattenSeq(seqs) = flat[Len(seqs)]
<1> DEFINE N == Len(seqs)
           D == Seq(S)
           step == [k \in 1 .. N |-> [sofar \in D |-> sofar \o seqs[k]]]
           Is(f) == f = [i \in 1 .. N |-> IF i = 1 THEN seqs[i] ELSE f[i - 1] \o seqs[i]]
<1>1. N \in Nat /\ \A k \in 1 .. N : seqs[k] \in D
  OBVIOUS
<1>2. FlattenSeq(seqs) = IF N = 0 THEN seqs ELSE (CHOOSE f : Is(f))[N]
  BY DEF FlattenSeq
<1> HIDE DEF N
<1>3. step \in [1 .. N -> [D -> D]] /\ <<>> \in D
  <2>1. ASSUME NEW k \in 1 .. N, NEW sofar \in D PROVE sofar \o seqs[k] \in D
    BY <1>1
  <2>2. <<>> \in D
    OBVIOUS
  <2> HIDE DEF D
  <2> QED BY <2>1, <2>2
<1>4. PICK f : f \in [SUBSET (1 .. N) -> D] /\ Stepwise(f, N, D, <<>>, step)
  <2> HIDE DEF step, D
  <2> QED BY <1>1, <1>3, FoldExistsStepwise, Zenon
<1>5. f[{}] = <<>> /\ \A k \in 1 .. N : f[1 .. k] = f[1 .. k - 1] \o seqs[k]
  <2>1. f[{}] = <<>>
    BY <1>4 DEF Stepwise
  <2>2. ASSUME NEW k \in 1 .. N PROVE f[1 .. k] = f[1 .. k - 1] \o seqs[k]
    <3>1. Max(1 .. k) = k /\ (1 .. k) \ {k} = 1 .. k - 1
      BY <1>1, LastIndex
    <3>2. 1 .. k \in SUBSET (1 .. N) /\ 1 .. k # {} /\ 1 .. k - 1 \in SUBSET (1 .. N)
      <4>1. k \in Nat /\ k <= N /\ k \in 1 .. k
        BY <1>1
      <4>2. \A i \in 1 .. k : i \in 1 .. N
        BY <1>1, <4>1
      <4>3. \A i \in 1 .. k - 1 : i \in 1 .. N
        BY <1>1, <4>1
      <4> QED BY <4>1, <4>2, <4>3
    <3> HIDE DEF step, D
    <3>3. f[1 .. k - 1] \in D
      BY <1>4, <3>2
    <3>4. f[1 .. k] = step[k][f[1 .. k - 1]]
      BY <1>4, <3>1, <3>2 DEF Stepwise
    <3>5. step[k][f[1 .. k - 1]] = f[1 .. k - 1] \o seqs[k]
      BY <3>3 DEF step
    <3> QED BY <3>4, <3>5
  <2> QED BY <2>1, <2>2
<1> DEFINE flat == [k \in 0 .. N |-> f[1 .. k]]
<1>6. flat[0] = <<>> /\ \A k \in 1 .. N : flat[k] = flat[k - 1] \o seqs[k]
  <2>1. flat[0] = <<>>
    <3>1. 1 .. 0 = {} /\ 0 \in 0 .. N
      BY <1>1
    <3> QED BY <1>5, <3>1
  <2>2. ASSUME NEW k \in 1 .. N PROVE flat[k] = flat[k - 1] \o seqs[k]
    <3>1. k \in 0 .. N /\ k - 1 \in 0 .. N
      BY <1>1
    <3> QED BY <1>5, <3>1
  <2> QED BY <2>1, <2>2
<1>7. \A k \in 0 .. N : flat[k] \in D
  <2> SUFFICES ASSUME NEW k \in 0 .. N PROVE f[1 .. k] \in D
    OBVIOUS
  <2>1. 1 .. k \in SUBSET (1 .. N)
    BY <1>1
  <2> QED BY <1>4, <2>1
<1>8. FlattenSeq(seqs) = flat[N]
  <2>1. CASE N = 0
    <3>1. seqs = <<>>
      BY <2>1 DEF N
    <3> QED BY <1>2, <1>6, <2>1, <3>1
  <2>2. CASE N # 0
    <3> DEFINE given == [i \in 1 .. N |-> flat[i]]
    <3>1. Is(given)
      <4>1. ASSUME NEW i \in 1 .. N PROVE flat[i] = IF i = 1 THEN seqs[i] ELSE given[i - 1] \o seqs[i]
        <5>1. CASE i = 1
          <6>5. 1 \in 1 .. N /\ 1 - 1 = 0
            BY <5>1
          <6>1. flat[1] = flat[0] \o seqs[1]
            <7> HIDE DEF flat
            <7> QED BY <1>6, <6>5
          <6>2. flat[0] = <<>>
            BY <1>6
          <6>3. seqs[1] \in Seq(S)
            BY <1>1, <5>1
          <6>4. <<>> \o seqs[1] = seqs[1]
            BY <6>3
          <6> HIDE DEF flat
          <6> QED BY <5>1, <6>1, <6>2, <6>4
        <5>2. CASE i # 1
          <6>1. i - 1 \in 1 .. N
            BY <1>1, <5>2
          <6>2. flat[i] = flat[i - 1] \o seqs[i]
            BY <1>6
          <6> HIDE DEF flat
          <6> QED BY <5>2, <6>1, <6>2
        <5> QED BY <5>1, <5>2
      <4> HIDE DEF flat
      <4> QED BY <4>1
    <3> DEFINE all == CHOOSE g : Is(g)
    <3>2. Is(all)
      <4> HIDE DEF Is, given
      <4> QED BY <3>1
    <3> HIDE DEF all, flat
    <3> DEFINE G == {k \in 0 .. N : k # 0 => all[k] = flat[k]}
    <3>3. 0 \in G
      BY <1>1
    <3>4. ASSUME NEW k \in 1 .. N, k - 1 \in G PROVE k \in G
      <4>1. all[k] = IF k = 1 THEN seqs[k] ELSE all[k - 1] \o seqs[k]
        BY <3>2
      <4>2. flat[k] = flat[k - 1] \o seqs[k]
        BY <1>6 DEF flat
      <4>5. k \in 0 .. N
        BY <1>1
      <4>3. CASE k = 1
        <5>1. flat[0] = <<>>
          BY <1>6 DEF flat
        <5>3. seqs[1] \in Seq(S)
          BY <1>1, <4>3
        <5>4. <<>> \o seqs[1] = seqs[1]
          BY <5>3
        <5>5. 1 - 1 = 0
          OBVIOUS
        <5>6. flat[1] = flat[0] \o seqs[1]
          BY <4>2, <4>3, <5>5
        <5>2. flat[1] = seqs[1]
          BY <5>1, <5>4, <5>6
        <5> QED BY <4>1, <4>2, <4>3, <4>5, <5>2
      <4>4. CASE k # 1
        <5>1. all[k - 1] = flat[k - 1]
          BY <1>1, <3>4, <4>4
        <5> QED BY <4>1, <4>2, <4>4, <4>5, <5>1
      <4> QED BY <4>3, <4>4
    <3>5. N \in G
      <4> HIDE DEF G
      <4>1. \A k \in 0 .. N : k \in G
        BY <1>1, <3>3, <3>4, UpToIndex
      <4> QED BY <1>1, <4>1
    <3> QED BY <1>2, <2>2, <3>5 DEF all
  <2> QED BY <2>1, <2>2
<1> HIDE DEF flat
<1> QED BY <1>6, <1>7, <1>8 DEF Flattens, N

LEMMA FlattenedIn ==
  ASSUME NEW S, NEW seqs \in Seq(Seq(S))
  PROVE  FlattenSeq(seqs) \in Seq(S)
<1>1. PICK flat : Flattens(flat, seqs, S) /\ FlattenSeq(seqs) = flat[Len(seqs)]
  BY FlattenedByIndex
<1>2. Len(seqs) \in 0 .. Len(seqs)
  OBVIOUS
<1> QED BY <1>1, <1>2 DEF Flattens

\* The sum of all of them is the sum of their sums.
LEMMA FlattenedSums ==
  ASSUME NEW seqs \in Seq(Seq(Nat)), NEW sums \in Seq(Nat), Len(sums) = Len(seqs),
         \A i \in 1 .. Len(seqs) : sums[i] = SumOf(seqs[i])
  PROVE  FlattenSeq(seqs) \in Seq(Nat) /\ SumOf(FlattenSeq(seqs)) = SumOf(sums)
<1> DEFINE N == Len(seqs)
<1>1. N \in Nat /\ \A k \in 1 .. N : seqs[k] \in Seq(Nat)
  OBVIOUS
<1>2. PICK flat : Flattens(flat, seqs, Nat) /\ FlattenSeq(seqs) = flat[N]
  BY FlattenedByIndex
<1>3. PICK p : Sums(p, sums) /\ SumOf(sums) = p[N]
  BY SumOfByIndex
<1> DEFINE G == {k \in 0 .. N : SumOf(flat[k]) = p[k]}
<1>4. 0 \in G
  BY <1>1, <1>2, <1>3, SumOfNothing DEF Flattens, Sums
<1>5. ASSUME NEW k \in 1 .. N, k - 1 \in G PROVE k \in G
  <2>1. flat[k] = flat[k - 1] \o seqs[k]
    BY <1>2 DEF Flattens
  <2>5. k - 1 \in 0 .. N /\ k \in 0 .. N
    BY <1>1
  <2>2. flat[k - 1] \in Seq(Nat)
    BY <1>2, <2>5 DEF Flattens
  <2>3. SumOf(flat[k - 1] \o seqs[k]) = SumOf(flat[k - 1]) + SumOf(seqs[k])
    BY <1>1, <2>2, SumOfBoth
  <2>4. p[k] = p[k - 1] + SumOf(seqs[k])
    BY <1>3 DEF Sums
  <2> QED BY <1>5, <2>1, <2>3, <2>4, <2>5
<1>6. N \in G
  <2> HIDE DEF G, N
  <2>1. \A k \in 0 .. N : k \in G
    BY <1>1, <1>4, <1>5, UpToIndex
  <2> QED BY <1>1, <2>1
<1>7. FlattenSeq(seqs) \in Seq(Nat)
  BY FlattenedIn
<1> QED BY <1>2, <1>3, <1>6, <1>7

\* Larger terms have a larger sum.
LEMMA SumOfMore ==
  ASSUME NEW s \in Seq(Nat), NEW t \in Seq(Nat), Len(s) = Len(t), \A i \in 1 .. Len(s) : s[i] <= t[i]
  PROVE  SumOf(s) <= SumOf(t)
<1> DEFINE N == Len(s)
<1>1. N \in Nat /\ \A k \in 1 .. N : s[k] \in Nat /\ t[k] \in Nat
  OBVIOUS
<1>2. PICK p : Sums(p, s) /\ SumOf(s) = p[N]
  BY SumOfByIndex
<1>3. PICK q : Sums(q, t) /\ SumOf(t) = q[N]
  BY SumOfByIndex
<1> DEFINE G == {k \in 0 .. N : p[k] <= q[k]}
<1>4. 0 \in G
  BY <1>1, <1>2, <1>3 DEF Sums
<1>5. ASSUME NEW k \in 1 .. N, k - 1 \in G PROVE k \in G
  <2>1. p[k] = p[k - 1] + s[k] /\ q[k] = q[k - 1] + t[k] /\ s[k] <= t[k]
    BY <1>2, <1>3 DEF Sums
  <2>2. k - 1 \in 0 .. N /\ k \in 0 .. N
    BY <1>1
  <2>3. p[k - 1] \in Nat /\ q[k - 1] \in Nat
    BY <1>2, <1>3, <2>2 DEF Sums
  <2> QED BY <1>1, <1>5, <2>1, <2>2, <2>3
<1>6. N \in G
  <2> HIDE DEF G, N
  <2>1. \A k \in 0 .. N : k \in G
    BY <1>1, <1>4, <1>5, UpToIndex
  <2> QED BY <1>1, <2>1
<1> QED BY <1>2, <1>3, <1>6

-----------------------------------------------------------------------------
(* The splitter of documents: what paragraphs and pieces are long.          *)

Paragraphs == Seq(Nat) \ {<<>>}
Pieces     == Seq(Paragraphs) \ {<<>>}

LEMMA ParagraphLength ==
  ASSUME NEW s \in Paragraphs
  PROVE  ParagraphChars(s) = SumOf(s) + Len(s) - 1 /\ SumOf(s) \in Nat /\ ParagraphChars(s) \in Nat
<1>1. s \in Seq(Nat) /\ Len(s) \in Nat /\ Len(s) # 0
  BY DEF Paragraphs
<1>2. SumOf(s) \in Nat
  BY <1>1, SumOfIsNat
<1>3. ParagraphChars(s) = SumOf(s) + 1 * (Len(s) - 1)
  BY DEF ParagraphChars, Joined, SentenceGap, SumOf
<1> QED BY <1>1, <1>2, <1>3

Lengths(g) == [i \in DOMAIN g |-> ParagraphChars(g[i])]

LEMMA PieceLength ==
  ASSUME NEW g \in Pieces
  PROVE  /\ Lengths(g) \in Seq(Nat) /\ Len(Lengths(g)) = Len(g) /\ SumOf(Lengths(g)) \in Nat
         /\ PieceChars(g) = SumOf(Lengths(g)) + 2 * (Len(g) - 1) /\ PieceChars(g) \in Nat
<1>1. g \in Seq(Paragraphs) /\ Len(g) \in Nat /\ Len(g) # 0
  BY DEF Pieces
<1>2. DOMAIN g = 1 .. Len(g) /\ \A i \in 1 .. Len(g) : ParagraphChars(g[i]) \in Nat
  BY <1>1, ParagraphLength
<1>3. Lengths(g) \in Seq(Nat) /\ Len(Lengths(g)) = Len(g)
  BY <1>1, <1>2 DEF Lengths
<1>4. SumOf(Lengths(g)) \in Nat
  BY <1>3, SumOfIsNat
<1>5. PieceChars(g) = SumOf(Lengths(g)) + 2 * (Len(Lengths(g)) - 1)
  BY DEF PieceChars, Joined, ParagraphGap, SumOf, Lengths
<1> QED BY <1>1, <1>3, <1>4, <1>5

\* What the paragraphs of a piece come to, without and with its gaps.
LEMMA FlattenedLength ==
  ASSUME NEW g \in Pieces
  PROVE  /\ FlattenSeq(g) \in Paragraphs
         /\ SumOf(FlattenSeq(g)) + Len(FlattenSeq(g)) = SumOf(Lengths(g)) + Len(g)
         /\ Len(FlattenSeq(g)) >= Len(g)
<1> DEFINE N == Len(g)
<1>1. /\ g \in Seq(Seq(Nat)) /\ N \in Nat /\ N # 0
      /\ \A k \in 1 .. N : g[k] \in Paragraphs /\ g[k] \in Seq(Nat) /\ Len(g[k]) \in Nat \ {0}
  BY DEF Pieces, Paragraphs
<1>2. PICK flat : Flattens(flat, g, Nat) /\ FlattenSeq(g) = flat[N]
  BY <1>1, FlattenedByIndex
<1>3. Lengths(g) \in Seq(Nat) /\ Len(Lengths(g)) = N
  BY PieceLength
<1>4. PICK p : Sums(p, Lengths(g)) /\ SumOf(Lengths(g)) = p[N]
  BY <1>3, SumOfByIndex
<1> DEFINE G == {k \in 0 .. N : SumOf(flat[k]) + Len(flat[k]) = p[k] + k /\ Len(flat[k]) >= k}
<1>5. 0 \in G
  <2>1. flat[0] = <<>> /\ p[0] = 0 /\ Len(<<>>) = 0 /\ 0 \in 0 .. N
    BY <1>1, <1>2, <1>4 DEF Flattens, Sums
  <2> QED BY <2>1, SumOfNothing
<1>6. ASSUME NEW k \in 1 .. N, k - 1 \in G PROVE k \in G
  <2>1. k - 1 \in 0 .. N /\ k \in 0 .. N /\ k \in Nat
    BY <1>1
  <2>2. flat[k] = flat[k - 1] \o g[k] /\ flat[k - 1] \in Seq(Nat)
    BY <1>2, <2>1 DEF Flattens
  <2>3. SumOf(flat[k]) = SumOf(flat[k - 1]) + SumOf(g[k]) /\ Len(flat[k]) = Len(flat[k - 1]) + Len(g[k])
    BY <1>1, <2>2, SumOfBoth
  <2>4. p[k] = p[k - 1] + ParagraphChars(g[k]) /\ p[k - 1] \in Nat
    <3>1. p[k] = p[k - 1] + Lengths(g)[k] /\ p[k - 1] \in Nat
      BY <1>3, <1>4, <2>1 DEF Sums
    <3>2. Lengths(g)[k] = ParagraphChars(g[k])
      BY <1>1 DEF Lengths
    <3> QED BY <3>1, <3>2
  <2>5. ParagraphChars(g[k]) = SumOf(g[k]) + Len(g[k]) - 1 /\ SumOf(g[k]) \in Nat
    BY <1>1, ParagraphLength
  <2>6. SumOf(flat[k - 1]) \in Nat /\ Len(flat[k - 1]) \in Nat
    BY <2>2, SumOfIsNat
  <2>7. SumOf(flat[k - 1]) + Len(flat[k - 1]) = p[k - 1] + (k - 1) /\ Len(flat[k - 1]) >= k - 1
    BY <1>6
  <2>8. Len(g[k]) \in Nat \ {0}
    BY <1>1
  <2>9. SumOf(flat[k]) + Len(flat[k]) = p[k] + k /\ Len(flat[k]) >= k
    <3>1. PICK a \in Nat : a = SumOf(flat[k - 1])
      BY <2>6
    <3>2. PICK b \in Nat : b = Len(flat[k - 1])
      BY <2>6
    <3>3. PICK c \in Nat : c = SumOf(g[k])
      BY <2>5
    <3>4. PICK d \in Nat \ {0} : d = Len(g[k])
      BY <2>8
    <3>5. PICK e \in Nat : e = p[k - 1]
      BY <2>4
    <3>6. a + b = e + (k - 1) /\ b >= k - 1
      BY <2>7, <3>1, <3>2, <3>5
    <3>7. SumOf(flat[k]) = a + c /\ Len(flat[k]) = b + d /\ p[k] = e + (c + d - 1)
      BY <2>3, <2>4, <2>5, <3>1, <3>2, <3>3, <3>4, <3>5
    <3>8. (a + c) + (b + d) = (e + (c + d - 1)) + k /\ b + d >= k
      BY <2>1, <3>6
    <3> QED BY <3>7, <3>8
  <2> QED BY <2>1, <2>9
<1>7. N \in G
  <2> HIDE DEF G, N
  <2>1. \A k \in 0 .. N : k \in G
    BY <1>1, <1>5, <1>6, UpToIndex
  <2> QED BY <1>1, <2>1
<1>8. FlattenSeq(g) \in Seq(Nat)
  BY <1>1, FlattenedIn
<1>9. Len(FlattenSeq(g)) >= N
  BY <1>2, <1>7
<1>10. FlattenSeq(g) # <<>>
  BY <1>1, <1>9
<1> QED BY <1>2, <1>4, <1>7, <1>8, <1>9, <1>10 DEF Paragraphs

-----------------------------------------------------------------------------
(* The splitter of documents: how units are packed.                         *)

Packing(D) == Seq(Seq(D) \ {<<>>})

\* One unit more: it opens a group or closes the last one.
WithOne(groups, u, opens) ==
  IF groups = <<>> THEN <<<<u>>>>
  ELSE IF opens THEN Append(groups, <<u>>)
  ELSE Append(Front(groups), Append(Last(groups), u))

\* run[k] is how the first k units are packed, wherever a group was opened.
Packs(run, units, D) ==
  /\ run[0] = <<>>
  /\ \A k \in 1 .. Len(units) : \E opens \in BOOLEAN : run[k] = WithOne(run[k - 1], units[k], opens)
  /\ \A k \in 0 .. Len(units) : run[k] \in Packing(D)

LEMMA PackedWithOne ==
  ASSUME NEW D, NEW groups \in Packing(D), NEW u \in D, NEW opens
  PROVE  WithOne(groups, u, opens) \in Packing(D)
<1> DEFINE NE == Seq(D) \ {<<>>}
<1>1. <<u>> \in NE
  OBVIOUS
<1>2. CASE groups = <<>>
  <2>1. WithOne(groups, u, opens) = <<<<u>>>>
    BY <1>2 DEF WithOne
  <2>2. <<<<u>>>> \in Seq(NE)
    <3> HIDE DEF NE
    <3> QED BY <1>1
  <2> QED BY <2>1, <2>2 DEF Packing
<1>3. CASE groups # <<>> /\ opens
  <2>1. WithOne(groups, u, opens) = Append(groups, <<u>>)
    BY <1>3 DEF WithOne
  <2>2. groups \in Seq(NE)
    BY DEF Packing
  <2>3. Append(groups, <<u>>) \in Seq(NE)
    <3> HIDE DEF NE
    <3> QED BY <1>1, <2>2
  <2> QED BY <2>1, <2>3 DEF Packing
<1>4. CASE groups # <<>> /\ ~opens
  <2>1. WithOne(groups, u, opens) = Append(Front(groups), Append(Last(groups), u))
    BY <1>4 DEF WithOne
  <2>2. groups \in Seq(NE)
    BY DEF Packing
  <2>3. Front(groups) \in Seq(NE) /\ Last(groups) \in NE
    <3> HIDE DEF NE
    <3> QED BY <1>4, <2>2 DEF Front, Last
  <2>4. Append(Last(groups), u) \in NE
    <3>1. Last(groups) \in Seq(D)
      BY <2>3
    <3>2. ASSUME NEW s \in Seq(D) PROVE Append(s, u) \in Seq(D) /\ Append(s, u) # <<>>
      <4>1. Len(Append(s, u)) = Len(s) + 1 /\ Len(s) \in Nat
        OBVIOUS
      <4>2. Append(s, u) # <<>>
        BY <4>1
      <4> QED BY <4>2
    <3> QED BY <3>1, <3>2
  <2>5. Append(Front(groups), Append(Last(groups), u)) \in Seq(NE)
    <3> HIDE DEF NE
    <3> QED BY <2>3, <2>4
  <2> QED BY <2>1, <2>5 DEF Packing
<1> QED BY <1>2, <1>3, <1>4

LEMMA PiecesPacked ==
  ASSUME NEW units \in Seq(Paragraphs)
  PROVE  \E run : Packs(run, units, Paragraphs) /\ Packed(units, PieceChars) = run[Len(units)]
<1> DEFINE N == Len(units)
           D == Packing(Paragraphs)
           opens(groups, u) == EstimateTokens(PieceChars(Append(Last(groups), u))) > TargetTokens
           step == [k \in 1 .. N |-> [groups \in D |-> WithOne(groups, units[k], opens(groups, units[k]))]]
           Is(f) == f = [t \in SUBSET DOMAIN units |->
                           IF t = {} THEN <<>>
                           ELSE WithOne(f[t \ {Max(t)}], units[Max(t)], opens(f[t \ {Max(t)}], units[Max(t)]))]
<1>1. N \in Nat /\ DOMAIN units = 1 .. N /\ \A k \in 1 .. N : units[k] \in Paragraphs
  OBVIOUS
<1>2. Packed(units, PieceChars) = (CHOOSE f : Is(f))[DOMAIN units]
  BY DEF Packed, FoldLeft, MapThenFoldSet, WithOne
<1> HIDE DEF N
<1>3. step \in [1 .. N -> [D -> D]] /\ <<>> \in D
  <2>1. ASSUME NEW k \in 1 .. N, NEW groups \in D
        PROVE  WithOne(groups, units[k], opens(groups, units[k])) \in D
    <3> HIDE DEF opens
    <3> QED BY <1>1, PackedWithOne
  <2>2. <<>> \in D
    BY DEF Packing
  <2> HIDE DEF D, opens
  <2> QED BY <2>1, <2>2
<1>4. PICK f : f \in [SUBSET (1 .. N) -> D] /\ Stepwise(f, N, D, <<>>, step)
  <2> HIDE DEF step, D
  <2> QED BY <1>1, <1>3, FoldExistsStepwise, Zenon
<1> HIDE DEF D, opens
<1>5. Is(f)
  <2>1. f = [t \in SUBSET (1 .. N) |-> f[t]]
    BY <1>4
  <2>2. ASSUME NEW t \in SUBSET (1 .. N)
        PROVE  f[t] = IF t = {} THEN <<>>
                      ELSE WithOne(f[t \ {Max(t)}], units[Max(t)], opens(f[t \ {Max(t)}], units[Max(t)]))
    BY <1>4 DEF Stepwise
  <2> QED BY <1>1, <2>1, <2>2
<1> DEFINE all == CHOOSE g : Is(g)
<1>6. Is(all)
  <2> HIDE DEF Is
  <2> QED BY <1>5
<1> HIDE DEF all
<1>7. all[{}] = <<>>
  BY <1>1, <1>6
<1>8. ASSUME NEW k \in 1 .. N
      PROVE  all[1 .. k] = WithOne(all[1 .. k - 1], units[k], opens(all[1 .. k - 1], units[k]))
  <2>1. Max(1 .. k) = k /\ (1 .. k) \ {k} = 1 .. k - 1
    BY <1>1, LastIndex
  <2>2. 1 .. k \in SUBSET DOMAIN units /\ k \in 1 .. k
    BY <1>1
  <2> QED BY <1>6, <2>1, <2>2
<1> DEFINE run == [k \in 0 .. N |-> all[1 .. k]]
<1>9. run[0] = <<>>
  <2>1. 1 .. 0 = {} /\ 0 \in 0 .. N
    BY <1>1
  <2> QED BY <1>7, <2>1
<1>10. ASSUME NEW k \in 1 .. N
       PROVE  run[k] = WithOne(run[k - 1], units[k], opens(run[k - 1], units[k]))
  <2>1. k \in 0 .. N /\ k - 1 \in 0 .. N
    BY <1>1
  <2>2. run[k] = all[1 .. k] /\ run[k - 1] = all[1 .. k - 1]
    BY <2>1
  <2> HIDE DEF run
  <2> QED BY <1>8, <2>2
<1>11. Packed(units, PieceChars) = run[N]
  BY <1>1, <1>2 DEF all
<1> HIDE DEF run
<1>12. \A k \in 0 .. N : run[k] \in D
  <2> DEFINE G == {k \in 0 .. N : run[k] \in D}
  <2>1. 0 \in G
    BY <1>1, <1>3, <1>9
  <2>2. ASSUME NEW k \in 1 .. N, k - 1 \in G PROVE k \in G
    <3>1. run[k - 1] \in D /\ k \in 0 .. N
      BY <1>1, <2>2
    <3>2. WithOne(run[k - 1], units[k], opens(run[k - 1], units[k])) \in D
      BY <1>1, <3>1, PackedWithOne DEF D
    <3> QED BY <1>10, <3>1, <3>2
  <2>3. \A k \in 0 .. N : k \in G
    <3> HIDE DEF G
    <3> QED BY <1>1, <2>1, <2>2, UpToIndex
  <2> QED BY <2>3
<1>13. ASSUME NEW k \in 1 .. N
       PROVE  \E o \in BOOLEAN : run[k] = WithOne(run[k - 1], units[k], o)
  <2>1. opens(run[k - 1], units[k]) \in BOOLEAN
    BY DEF opens
  <2> QED BY <1>10, <2>1
<1> QED BY <1>9, <1>11, <1>12, <1>13 DEF D, N, Packs

LEMMA SentencesPacked ==
  ASSUME NEW units \in Seq(Nat)
  PROVE  \E run : Packs(run, units, Nat) /\ Packed(units, ParagraphChars) = run[Len(units)]
<1> DEFINE N == Len(units)
           D == Packing(Nat)
           opens(groups, u) == EstimateTokens(ParagraphChars(Append(Last(groups), u))) > TargetTokens
           step == [k \in 1 .. N |-> [groups \in D |-> WithOne(groups, units[k], opens(groups, units[k]))]]
           Is(f) == f = [t \in SUBSET DOMAIN units |->
                           IF t = {} THEN <<>>
                           ELSE WithOne(f[t \ {Max(t)}], units[Max(t)], opens(f[t \ {Max(t)}], units[Max(t)]))]
<1>1. N \in Nat /\ DOMAIN units = 1 .. N /\ \A k \in 1 .. N : units[k] \in Nat
  OBVIOUS
<1>2. Packed(units, ParagraphChars) = (CHOOSE f : Is(f))[DOMAIN units]
  BY DEF Packed, FoldLeft, MapThenFoldSet, WithOne
<1> HIDE DEF N
<1>3. step \in [1 .. N -> [D -> D]] /\ <<>> \in D
  <2>1. ASSUME NEW k \in 1 .. N, NEW groups \in D
        PROVE  WithOne(groups, units[k], opens(groups, units[k])) \in D
    <3> HIDE DEF opens
    <3> QED BY <1>1, PackedWithOne
  <2>2. <<>> \in D
    BY DEF Packing
  <2> HIDE DEF D, opens
  <2> QED BY <2>1, <2>2
<1>4. PICK f : f \in [SUBSET (1 .. N) -> D] /\ Stepwise(f, N, D, <<>>, step)
  <2> HIDE DEF step, D
  <2> QED BY <1>1, <1>3, FoldExistsStepwise, Zenon
<1> HIDE DEF D, opens
<1>5. Is(f)
  <2>1. f = [t \in SUBSET (1 .. N) |-> f[t]]
    BY <1>4
  <2>2. ASSUME NEW t \in SUBSET (1 .. N)
        PROVE  f[t] = IF t = {} THEN <<>>
                      ELSE WithOne(f[t \ {Max(t)}], units[Max(t)], opens(f[t \ {Max(t)}], units[Max(t)]))
    BY <1>4 DEF Stepwise
  <2> QED BY <1>1, <2>1, <2>2
<1> DEFINE all == CHOOSE g : Is(g)
<1>6. Is(all)
  <2> HIDE DEF Is
  <2> QED BY <1>5
<1> HIDE DEF all
<1>7. all[{}] = <<>>
  BY <1>1, <1>6
<1>8. ASSUME NEW k \in 1 .. N
      PROVE  all[1 .. k] = WithOne(all[1 .. k - 1], units[k], opens(all[1 .. k - 1], units[k]))
  <2>1. Max(1 .. k) = k /\ (1 .. k) \ {k} = 1 .. k - 1
    BY <1>1, LastIndex
  <2>2. 1 .. k \in SUBSET DOMAIN units /\ k \in 1 .. k
    BY <1>1
  <2> QED BY <1>6, <2>1, <2>2
<1> DEFINE run == [k \in 0 .. N |-> all[1 .. k]]
<1>9. run[0] = <<>>
  <2>1. 1 .. 0 = {} /\ 0 \in 0 .. N
    BY <1>1
  <2> QED BY <1>7, <2>1
<1>10. ASSUME NEW k \in 1 .. N
       PROVE  run[k] = WithOne(run[k - 1], units[k], opens(run[k - 1], units[k]))
  <2>1. k \in 0 .. N /\ k - 1 \in 0 .. N
    BY <1>1
  <2>2. run[k] = all[1 .. k] /\ run[k - 1] = all[1 .. k - 1]
    BY <2>1
  <2> HIDE DEF run
  <2> QED BY <1>8, <2>2
<1>11. Packed(units, ParagraphChars) = run[N]
  BY <1>1, <1>2 DEF all
<1> HIDE DEF run
<1>12. \A k \in 0 .. N : run[k] \in D
  <2> DEFINE G == {k \in 0 .. N : run[k] \in D}
  <2>1. 0 \in G
    BY <1>1, <1>3, <1>9
  <2>2. ASSUME NEW k \in 1 .. N, k - 1 \in G PROVE k \in G
    <3>1. run[k - 1] \in D /\ k \in 0 .. N
      BY <1>1, <2>2
    <3>2. WithOne(run[k - 1], units[k], opens(run[k - 1], units[k])) \in D
      BY <1>1, <3>1, PackedWithOne DEF D
    <3> QED BY <1>10, <3>1, <3>2
  <2>3. \A k \in 0 .. N : k \in G
    <3> HIDE DEF G
    <3> QED BY <1>1, <2>1, <2>2, UpToIndex
  <2> QED BY <2>3
<1>13. ASSUME NEW k \in 1 .. N
       PROVE  \E o \in BOOLEAN : run[k] = WithOne(run[k - 1], units[k], o)
  <2>1. opens(run[k - 1], units[k]) \in BOOLEAN
    BY DEF opens
  <2> QED BY <1>10, <2>1
<1> QED BY <1>9, <1>11, <1>12, <1>13 DEF D, N, Packs

LEMMA AppendedIsSome ==
  ASSUME NEW D, NEW s \in Seq(D), NEW u \in D
  PROVE  Append(s, u) \in Seq(D) \ {<<>>}
<1>1. Append(s, u) \in Seq(D) /\ Len(Append(s, u)) = Len(s) + 1 /\ Len(s) \in Nat
  OBVIOUS
<1>2. Append(s, u) # <<>>
  BY <1>1
<1> QED BY <1>1, <1>2

\* What a group comes to: one unit as itself, one more with a gap before it.
Measures(m, c, gap, D) ==
  /\ \A u \in D : c[u] \in Nat /\ m[<<u>>] = c[u]
  /\ \A g \in Seq(D) \ {<<>>} : m[g] \in Nat
  /\ \A g \in Seq(D) \ {<<>>}, u \in D : m[Append(g, u)] = m[g] + gap + c[u]

Of(m, groups) == [i \in DOMAIN groups |-> m[groups[i]]]

LEMMA OfGroups ==
  ASSUME NEW D, NEW m, NEW c, NEW gap, Measures(m, c, gap, D), NEW groups \in Packing(D)
  PROVE  /\ Of(m, groups) \in Seq(Nat) /\ Len(Of(m, groups)) = Len(groups) /\ SumOf(Of(m, groups)) \in Nat
         /\ \A g \in Seq(D) \ {<<>>} : Of(m, Append(groups, g)) = Append(Of(m, groups), m[g])
<1> DEFINE NE == Seq(D) \ {<<>>}
<1>1. groups \in Seq(NE) /\ \A g \in NE : m[g] \in Nat
  BY DEF Packing, Measures
<1> HIDE DEF NE
<1>2. Of(m, groups) \in Seq(Nat) /\ Len(Of(m, groups)) = Len(groups)
  BY <1>1 DEF Of
<1>3. ASSUME NEW g \in NE PROVE Of(m, Append(groups, g)) = Append(Of(m, groups), m[g])
  BY <1>1 DEF Of
<1>4. SumOf(Of(m, groups)) \in Nat
  BY <1>2, SumOfIsNat
<1> QED BY <1>2, <1>3, <1>4 DEF NE

LEMMA OneMore ==
  ASSUME NEW D, NEW m, NEW c, NEW gap \in Nat, Measures(m, c, gap, D),
         NEW groups \in Packing(D), NEW u \in D, NEW opens \in BOOLEAN,
         NEW after, after = WithOne(groups, u, opens)
  PROVE  /\ after # <<>>
         /\ groups = <<>> => SumOf(Of(m, after)) = c[u]
         /\ groups # <<>> => \E d \in {0, gap} : SumOf(Of(m, after)) = SumOf(Of(m, groups)) + d + c[u]
<1> DEFINE NE == Seq(D) \ {<<>>}
<1>1. /\ groups \in Seq(NE) /\ <<u>> \in NE /\ c[u] \in Nat /\ m[<<u>>] = c[u]
      /\ \A g \in NE : m[g] \in Nat /\ m[Append(g, u)] = m[g] + gap + c[u]
  BY DEF Packing, Measures
<1>2. SumOf(Of(m, groups)) \in Nat /\ Of(m, groups) \in Seq(Nat)
  BY OfGroups
<1>3. CASE groups = <<>>
  <2>1. after = <<<<u>>>>
    BY <1>3 DEF WithOne
  <2>2. Of(m, after) = <<c[u]>>
    BY <1>1, <2>1 DEF Of
  <2>3. after # <<>>
    BY <2>1
  <2> QED BY <1>1, <1>3, <2>2, <2>3, SumOfOne
<1>4. CASE groups # <<>> /\ opens
  <2>1. after = Append(groups, <<u>>)
    BY <1>4 DEF WithOne
  <2>2. Of(m, after) = Append(Of(m, groups), c[u])
    <3>1. \A g \in NE : Of(m, Append(groups, g)) = Append(Of(m, groups), m[g])
      BY OfGroups
    <3> HIDE DEF NE
    <3> QED BY <1>1, <2>1, <3>1
  <2>3. SumOf(Of(m, after)) = SumOf(Of(m, groups)) + c[u]
    BY <1>1, <1>2, <2>2, SumOfAppend
  <2>4. after # <<>>
    <3> HIDE DEF NE
    <3> QED BY <1>1, <2>1
  <2>5. SumOf(Of(m, after)) = SumOf(Of(m, groups)) + 0 + c[u]
    BY <1>1, <1>2, <2>3
  <2> QED BY <1>4, <2>4, <2>5
<1>5. CASE groups # <<>> /\ ~opens
  <2> DEFINE most == Front(groups)
             last == Last(groups)
  <2>1. after = Append(most, Append(last, u))
    BY <1>5 DEF WithOne
  <2>2. most \in Seq(NE) /\ last \in NE /\ groups = Append(most, last)
    <3> HIDE DEF NE
    <3> QED BY <1>1, <1>5 DEF Front, Last
  <2>3. Append(last, u) \in NE
    <3>1. last \in Seq(D)
      BY <2>2
    <3> HIDE DEF last
    <3> QED BY <3>1, AppendedIsSome
  <2> HIDE DEF most, last
  <2>4. most \in Packing(D)
    BY <2>2 DEF Packing
  <2>5. Of(m, groups) = Append(Of(m, most), m[last]) /\ Of(m, after) = Append(Of(m, most), m[Append(last, u)])
    <3>1. \A h \in NE : Of(m, Append(most, h)) = Append(Of(m, most), m[h])
      BY <2>4, OfGroups
    <3> HIDE DEF NE
    <3> QED BY <2>1, <2>2, <2>3, <3>1
  <2>6. Of(m, most) \in Seq(Nat) /\ SumOf(Of(m, most)) \in Nat
    BY <2>4, OfGroups
  <2>7. m[last] \in Nat /\ m[Append(last, u)] = m[last] + gap + c[u] /\ m[Append(last, u)] \in Nat
    BY <1>1, <2>2, <2>3
  <2>8. SumOf(Of(m, groups)) = SumOf(Of(m, most)) + m[last]
    BY <2>5, <2>6, <2>7, SumOfAppend
  <2>9. SumOf(Of(m, after)) = SumOf(Of(m, most)) + m[Append(last, u)]
    BY <2>5, <2>6, <2>7, SumOfAppend
  <2>10. SumOf(Of(m, after)) = SumOf(Of(m, groups)) + gap + c[u]
    BY <1>1, <2>6, <2>7, <2>8, <2>9
  <2>11. after # <<>>
    <3> HIDE DEF NE
    <3> QED BY <2>1, <2>2, <2>3
  <2> QED BY <1>5, <2>10, <2>11
<1> QED BY <1>3, <1>4, <1>5

LEMMA PackedMeasure ==
  ASSUME NEW D, NEW m, NEW c, NEW gap \in Nat, Measures(m, c, gap, D),
         NEW units \in Seq(D), units # <<>>, NEW run, Packs(run, units, D),
         NEW groups, groups = run[Len(units)]
  PROVE  /\ groups \in Packing(D) /\ groups # <<>>
         /\ SumOf(Of(m, groups)) <= m[units] /\ (gap = 0 => SumOf(Of(m, groups)) = m[units])
<1> DEFINE N == Len(units)
           upto(k) == SubSeq(units, 1, k)
           sum(k) == SumOf(Of(m, run[k]))
           G == {k \in 0 .. N : k # 0 => /\ run[k] # <<>> /\ upto(k) \in Seq(D) \ {<<>>}
                                         /\ sum(k) <= m[upto(k)] /\ (gap = 0 => sum(k) = m[upto(k)])}
<1>1. N \in Nat /\ N # 0 /\ \A k \in 1 .. N : units[k] \in D
  OBVIOUS
<1>2. 0 \in G
  BY <1>1
<1>3. ASSUME NEW k \in 1 .. N, k - 1 \in G PROVE k \in G
  <2>1. k - 1 \in 0 .. N /\ k \in 0 .. N /\ k \in Nat
    BY <1>1
  <2>2. run[k - 1] \in Packing(D)
    BY <2>1 DEF Packs
  <2>3. PICK opens \in BOOLEAN : run[k] = WithOne(run[k - 1], units[k], opens)
    BY DEF Packs
  <2>4. units[k] \in D /\ c[units[k]] \in Nat
    BY <1>1 DEF Measures
  <2>5. CASE k = 1
    <3>1. run[k - 1] = <<>>
      BY <2>5 DEF Packs
    <3>2. run[k] # <<>> /\ sum(k) = c[units[k]]
      BY <2>2, <2>3, <2>4, <3>1, OneMore
    <3>3. upto(k) = <<units[k]>>
      <4>1. Len(units) >= 1 /\ upto(1) \in Seq(D) /\ Len(upto(1)) = 1 /\ upto(1)[1] = units[1]
        BY <1>1
      <4>2. upto(1) = <<units[1]>>
        <5> HIDE DEF upto
        <5> QED BY <4>1
      <4> QED BY <2>5, <4>2
    <3>4. <<units[k]>> \in Seq(D) \ {<<>>} /\ m[<<units[k]>>] = c[units[k]]
      BY <2>4 DEF Measures
    <3> HIDE DEF upto, sum
    <3>5. upto(k) \in Seq(D) \ {<<>>} /\ sum(k) = m[upto(k)] /\ sum(k) \in Nat
      BY <2>4, <3>2, <3>3, <3>4
    <3>6. sum(k) <= m[upto(k)]
      BY <3>5
    <3> QED BY <2>1, <3>2, <3>5, <3>6
  <2>6. CASE k # 1
    <3>1. k - 1 # 0
      BY <2>1, <2>6
    <3>2. /\ run[k - 1] # <<>> /\ upto(k - 1) \in Seq(D) \ {<<>>}
          /\ sum(k - 1) <= m[upto(k - 1)] /\ (gap = 0 => sum(k - 1) = m[upto(k - 1)])
      BY <1>3, <3>1
    <3>3. run[k] # <<>> /\ \E d \in {0, gap} : sum(k) = sum(k - 1) + d + c[units[k]]
      BY <2>2, <2>3, <2>4, <3>2, OneMore
    <3>4. upto(k) = Append(upto(k - 1), units[k])
      BY <1>1, <2>1, <3>1
    <3>5. sum(k - 1) \in Nat
      BY <2>2, OfGroups
    <3> HIDE DEF upto, sum
    <3>6. m[upto(k)] = m[upto(k - 1)] + gap + c[units[k]] /\ m[upto(k - 1)] \in Nat
      BY <2>4, <3>2, <3>4 DEF Measures
    <3>7. sum(k) <= m[upto(k)] /\ (gap = 0 => sum(k) = m[upto(k)])
      <4>1. PICK d \in {0, gap} : sum(k) = sum(k - 1) + d + c[units[k]]
        BY <3>3
      <4>2. PICK a \in Nat : a = sum(k - 1)
        BY <3>5
      <4>3. PICK b \in Nat : b = m[upto(k - 1)]
        BY <3>6
      <4>4. PICK e \in Nat : e = c[units[k]]
        BY <2>4
      <4>5. a <= b /\ (gap = 0 => a = b)
        BY <3>2, <4>2, <4>3
      <4>6. a + d + e <= b + gap + e /\ (gap = 0 => a + d + e = b + gap + e)
        BY <4>1, <4>5
      <4>7. sum(k) = a + d + e /\ m[upto(k)] = b + gap + e
        BY <3>6, <4>1, <4>2, <4>3, <4>4
      <4> QED BY <4>6, <4>7
    <3>8. upto(k) \in Seq(D) \ {<<>>}
      <4>1. upto(k - 1) \in Seq(D)
        BY <3>2
      <4> QED BY <2>4, <3>4, <4>1, AppendedIsSome
    <3> QED BY <2>1, <3>3, <3>7, <3>8
  <2> QED BY <2>5, <2>6
<1>4. N \in G
  <2> HIDE DEF G, N
  <2>1. \A k \in 0 .. N : k \in G
    BY <1>1, <1>2, <1>3, UpToIndex
  <2> QED BY <1>1, <2>1
<1>5. upto(N) = units
  OBVIOUS
<1>6. run[N] \in Packing(D)
  BY <1>1 DEF Packs
<1> HIDE DEF upto
<1> QED BY <1>1, <1>4, <1>5, <1>6

LEMMA ParagraphMeasures ==
  /\ Measures([s \in Paragraphs |-> ParagraphChars(s)], [u \in Nat |-> u], 1, Nat)
  /\ Measures([s \in Paragraphs |-> SumOf(s)], [u \in Nat |-> u], 0, Nat)
<1>1. ASSUME NEW u \in Nat PROVE <<u>> \in Paragraphs /\ SumOf(<<u>>) = u /\ ParagraphChars(<<u>>) = u
  <2>1. <<u>> \in Paragraphs /\ Len(<<u>>) = 1
    BY DEF Paragraphs
  <2>2. SumOf(<<u>>) = u
    BY SumOfOne
  <2>3. ParagraphChars(<<u>>) = SumOf(<<u>>) + Len(<<u>>) - 1
    BY <2>1, ParagraphLength
  <2> QED BY <2>1, <2>2, <2>3
<1>2. ASSUME NEW s \in Paragraphs PROVE SumOf(s) \in Nat /\ ParagraphChars(s) \in Nat
  BY ParagraphLength
<1>3. ASSUME NEW s \in Paragraphs, NEW u \in Nat
      PROVE  /\ Append(s, u) \in Paragraphs /\ SumOf(Append(s, u)) = SumOf(s) + u
             /\ ParagraphChars(Append(s, u)) = ParagraphChars(s) + 1 + u
  <2>1. s \in Seq(Nat) /\ Len(Append(s, u)) = Len(s) + 1 /\ Len(s) \in Nat
    BY DEF Paragraphs
  <2>2. Append(s, u) \in Paragraphs
    BY <2>1, AppendedIsSome DEF Paragraphs
  <2>3. SumOf(Append(s, u)) = SumOf(s) + u
    BY <2>1, SumOfAppend
  <2>4. ParagraphChars(Append(s, u)) = SumOf(Append(s, u)) + Len(Append(s, u)) - 1
    BY <2>2, ParagraphLength
  <2>5. ParagraphChars(s) = SumOf(s) + Len(s) - 1 /\ SumOf(s) \in Nat
    BY ParagraphLength
  <2> QED BY <2>1, <2>2, <2>3, <2>4, <2>5
<1>4. Paragraphs = Seq(Nat) \ {<<>>}
  BY DEF Paragraphs
<1>5. ASSUME NEW s \in Paragraphs, NEW u \in Nat PROVE SumOf(Append(s, u)) = SumOf(s) + 0 + u
  BY <1>2, <1>3
<1>6. Measures([s \in Paragraphs |-> ParagraphChars(s)], [u \in Nat |-> u], 1, Nat)
  BY <1>1, <1>2, <1>3, <1>4 DEF Measures
<1>7. Measures([s \in Paragraphs |-> SumOf(s)], [u \in Nat |-> u], 0, Nat)
  BY <1>1, <1>2, <1>3, <1>4, <1>5 DEF Measures
<1> QED BY <1>6, <1>7

\* What a piece says, without its white space.
Written(g) == SumOf(FlattenSeq(g))

\* A piece between what is written in it and all its characters.
Within(parts, g) ==
  /\ parts \in Seq(Nat)
  /\ Written(g) <= SumOf(parts) /\ SumOf(parts) <= PieceChars(g)

LEMMA WrittenFits ==
  ASSUME NEW g \in Pieces
  PROVE  /\ Written(g) \in Nat /\ Written(g) <= PieceChars(g) /\ PieceChars(g) \in Nat
         /\ FlattenSeq(g) \in Paragraphs /\ ParagraphChars(FlattenSeq(g)) <= PieceChars(g)
<1>1. /\ FlattenSeq(g) \in Paragraphs
      /\ SumOf(FlattenSeq(g)) + Len(FlattenSeq(g)) = SumOf(Lengths(g)) + Len(g)
      /\ Len(FlattenSeq(g)) >= Len(g)
  BY FlattenedLength
<1>2. PieceChars(g) = SumOf(Lengths(g)) + 2 * (Len(g) - 1) /\ PieceChars(g) \in Nat /\ SumOf(Lengths(g)) \in Nat
  BY PieceLength
<1>3. ParagraphChars(FlattenSeq(g)) = SumOf(FlattenSeq(g)) + Len(FlattenSeq(g)) - 1 /\ SumOf(FlattenSeq(g)) \in Nat
  BY <1>1, ParagraphLength
<1>4. Len(g) \in Nat /\ Len(g) # 0
  BY DEF Pieces
<1>5. Len(FlattenSeq(g)) \in Nat
  BY <1>1 DEF Paragraphs
<1>6. PICK n \in Nat : n = Len(g)
  BY <1>4
<1>7. PICK k \in Nat : k = Len(FlattenSeq(g))
  BY <1>5
<1>8. PICK s \in Nat : s = SumOf(FlattenSeq(g))
  BY <1>3
<1>9. PICK p \in Nat : p = SumOf(Lengths(g))
  BY <1>2
<1>10. s + k = p + n /\ k >= n /\ n # 0
  BY <1>1, <1>4, <1>6, <1>7, <1>8, <1>9
<1>11. s <= p + 2 * (n - 1) /\ s + k - 1 <= p + 2 * (n - 1)
  BY <1>10
<1>12. PieceChars(g) = p + 2 * (n - 1) /\ ParagraphChars(FlattenSeq(g)) = s + k - 1
  BY <1>2, <1>3, <1>6, <1>7, <1>8, <1>9
<1> QED BY <1>1, <1>2, <1>8, <1>11, <1>12 DEF Written

LEMMA BySentenceWithin ==
  ASSUME NEW g \in Pieces
  PROVE  Within(BySentence(g), g)
<1> DEFINE units == FlattenSeq(g)
           high == [s \in Paragraphs |-> ParagraphChars(s)]
           low  == [s \in Paragraphs |-> SumOf(s)]
           own  == [u \in Nat |-> u]
           groups == Packed(units, ParagraphChars)
<1>1. units \in Paragraphs /\ ParagraphChars(units) <= PieceChars(g) /\ PieceChars(g) \in Nat
  BY WrittenFits
<1> HIDE DEF units
<1>2. units \in Seq(Nat) /\ units # <<>>
  BY <1>1 DEF Paragraphs
<1>3. PICK run : Packs(run, units, Nat) /\ groups = run[Len(units)]
  BY <1>2, SentencesPacked
<1>4. BySentence(g) = [i \in DOMAIN groups |-> ParagraphChars(groups[i])]
  BY DEF BySentence, units
<1> HIDE DEF groups
<1>5. Measures(high, own, 1, Nat) /\ Measures(low, own, 0, Nat)
  BY ParagraphMeasures
<1>6. groups \in Packing(Nat) /\ SumOf(Of(high, groups)) <= high[units]
  <2> HIDE DEF high, own
  <2> QED BY <1>2, <1>3, <1>5, PackedMeasure
<1>7. SumOf(Of(low, groups)) = low[units]
  <2> HIDE DEF low, own
  <2> QED BY <1>2, <1>3, <1>5, PackedMeasure
<1>8. groups \in Seq(Paragraphs)
  BY <1>6 DEF Packing, Paragraphs
<1>9. Of(high, groups) = BySentence(g)
  BY <1>4, <1>8 DEF Of
<1>10. /\ Of(high, groups) \in Seq(Nat) /\ Len(Of(high, groups)) = Len(groups)
       /\ Of(low, groups) \in Seq(Nat) /\ Len(Of(low, groups)) = Len(groups)
  <2>1. Of(high, groups) \in Seq(Nat) /\ Len(Of(high, groups)) = Len(groups)
    <3> HIDE DEF high, own
    <3> QED BY <1>5, <1>6, OfGroups
  <2>2. Of(low, groups) \in Seq(Nat) /\ Len(Of(low, groups)) = Len(groups)
    <3> HIDE DEF low, own
    <3> QED BY <1>5, <1>6, OfGroups
  <2> QED BY <2>1, <2>2
<1>11. \A i \in 1 .. Len(Of(low, groups)) : Of(low, groups)[i] <= Of(high, groups)[i]
  <2> SUFFICES ASSUME NEW i \in 1 .. Len(groups) PROVE Of(low, groups)[i] <= Of(high, groups)[i]
    BY <1>10
  <2>1. groups[i] \in Paragraphs /\ i \in DOMAIN groups
    BY <1>8
  <2>2. Of(low, groups)[i] = SumOf(groups[i]) /\ Of(high, groups)[i] = ParagraphChars(groups[i])
    BY <2>1 DEF Of
  <2>3. ParagraphChars(groups[i]) = SumOf(groups[i]) + Len(groups[i]) - 1 /\ SumOf(groups[i]) \in Nat
    BY <2>1, ParagraphLength
  <2>4. Len(groups[i]) \in Nat /\ Len(groups[i]) # 0
    BY <2>1 DEF Paragraphs
  <2> QED BY <2>2, <2>3, <2>4
<1>12. SumOf(Of(low, groups)) <= SumOf(Of(high, groups))
  <2> HIDE DEF low, high
  <2> QED BY <1>10, <1>11, SumOfMore
<1>13. low[units] = Written(g) /\ high[units] = ParagraphChars(units)
  BY <1>1 DEF Written, units
<1>14. SumOf(Of(high, groups)) \in Nat /\ SumOf(Of(low, groups)) \in Nat
  BY <1>10, SumOfIsNat
<1>15. ParagraphChars(units) \in Nat
  BY <1>1, ParagraphLength
<1>16. Written(g) <= SumOf(BySentence(g)) /\ SumOf(BySentence(g)) <= PieceChars(g)
  <2>1. Written(g) <= SumOf(BySentence(g))
    BY <1>7, <1>9, <1>12, <1>13
  <2>2. SumOf(BySentence(g)) <= ParagraphChars(units)
    BY <1>6, <1>9, <1>13
  <2>3. SumOf(BySentence(g)) \in Nat
    BY <1>9, <1>14
  <2> QED BY <1>1, <1>15, <2>1, <2>2, <2>3
<1> QED BY <1>9, <1>10, <1>16 DEF Within

LEMMA PieceMeasures ==
  /\ Measures([g \in Pieces |-> PieceChars(g)], [s \in Paragraphs |-> ParagraphChars(s)], 2, Paragraphs)
  /\ Measures([g \in Pieces |-> Written(g)], [s \in Paragraphs |-> SumOf(s)], 0, Paragraphs)
<1>1. ASSUME NEW s \in Paragraphs
      PROVE  /\ <<s>> \in Pieces /\ SumOf(s) \in Nat /\ ParagraphChars(s) \in Nat
             /\ PieceChars(<<s>>) = ParagraphChars(s) /\ Written(<<s>>) = SumOf(s)
  <2>1. <<s>> \in Pieces /\ Len(<<s>>) = 1 /\ s \in Seq(Nat)
    BY DEF Pieces, Paragraphs
  <2>2. SumOf(s) \in Nat /\ ParagraphChars(s) \in Nat
    BY ParagraphLength
  <2>3. Lengths(<<s>>) = <<ParagraphChars(s)>>
    BY DEF Lengths
  <2>4. SumOf(Lengths(<<s>>)) = ParagraphChars(s)
    BY <2>2, <2>3, SumOfOne
  <2>5. PieceChars(<<s>>) = ParagraphChars(s)
    <3>1. PieceChars(<<s>>) = SumOf(Lengths(<<s>>)) + 2 * (Len(<<s>>) - 1)
      BY <2>1, PieceLength
    <3> QED BY <2>1, <2>2, <2>4, <3>1
  <2>6. FlattenSeq(<<s>>) \in Seq(Nat) /\ SumOf(FlattenSeq(<<s>>)) = SumOf(<<SumOf(s)>>)
    <3>1. <<s>> \in Seq(Seq(Nat)) /\ <<SumOf(s)>> \in Seq(Nat) /\ Len(<<SumOf(s)>>) = Len(<<s>>)
      BY <2>1, <2>2
    <3>2. \A i \in 1 .. Len(<<s>>) : <<SumOf(s)>>[i] = SumOf(<<s>>[i])
      OBVIOUS
    <3> QED BY <3>1, <3>2, FlattenedSums
  <2>7. Written(<<s>>) = SumOf(s)
    BY <2>2, <2>6, SumOfOne DEF Written
  <2> QED BY <2>1, <2>2, <2>5, <2>7
<1>2. ASSUME NEW g \in Pieces PROVE PieceChars(g) \in Nat /\ Written(g) \in Nat
  BY WrittenFits
<1>3. ASSUME NEW g \in Pieces, NEW s \in Paragraphs
      PROVE  /\ PieceChars(Append(g, s)) = PieceChars(g) + 2 + ParagraphChars(s)
             /\ Written(Append(g, s)) = Written(g) + 0 + SumOf(s)
  <2> DEFINE h == Append(g, s)
             sums(k) == [i \in DOMAIN k |-> SumOf(k[i])]
  <2>1. g \in Seq(Paragraphs) /\ Len(g) \in Nat /\ Len(g) # 0 /\ Len(h) = Len(g) + 1
    BY DEF Pieces
  <2>2. h \in Pieces
    BY <2>1, AppendedIsSome DEF Pieces
  <2>3. SumOf(s) \in Nat /\ ParagraphChars(s) \in Nat
    BY ParagraphLength
  <2>4. Lengths(h) = Append(Lengths(g), ParagraphChars(s))
    BY <2>1 DEF Lengths
  <2>5. Lengths(g) \in Seq(Nat) /\ SumOf(Lengths(g)) \in Nat /\ PieceChars(g) = SumOf(Lengths(g)) + 2 * (Len(g) - 1)
    BY PieceLength
  <2>6. PieceChars(h) = SumOf(Lengths(h)) + 2 * (Len(h) - 1)
    <3> HIDE DEF h
    <3> QED BY <2>2, PieceLength
  <2>7. SumOf(Lengths(h)) = SumOf(Lengths(g)) + ParagraphChars(s)
    <3> HIDE DEF h
    <3> QED BY <2>3, <2>4, <2>5, SumOfAppend
  <2>8. PieceChars(h) = PieceChars(g) + 2 + ParagraphChars(s)
    <3> HIDE DEF h
    <3> QED BY <2>1, <2>3, <2>5, <2>6, <2>7
  <2>9. ASSUME NEW k \in Pieces
        PROVE  sums(k) \in Seq(Nat) /\ Written(k) = SumOf(sums(k))
    <3>1. k \in Seq(Paragraphs) /\ DOMAIN k = 1 .. Len(k) /\ Len(k) \in Nat
      BY DEF Pieces
    <3>2. k \in Seq(Seq(Nat))
      BY <3>1 DEF Paragraphs
    <3>3. \A i \in 1 .. Len(k) : SumOf(k[i]) \in Nat
      BY <3>1, ParagraphLength
    <3>4. sums(k) \in Seq(Nat) /\ Len(sums(k)) = Len(k) /\ \A i \in 1 .. Len(k) : sums(k)[i] = SumOf(k[i])
      BY <3>1, <3>3
    <3>5. SumOf(FlattenSeq(k)) = SumOf(sums(k))
      <4> HIDE DEF sums
      <4> QED BY <3>2, <3>4, FlattenedSums
    <3> QED BY <3>4, <3>5 DEF Written
  <2>10. sums(h) = Append(sums(g), SumOf(s))
    BY <2>1
  <2> HIDE DEF h, sums
  <2>11. SumOf(sums(h)) = SumOf(sums(g)) + SumOf(s) /\ SumOf(sums(g)) \in Nat
    BY <2>3, <2>9, <2>10, SumOfAppend, SumOfIsNat
  <2>12. Written(h) = Written(g) + 0 + SumOf(s)
    BY <2>2, <2>3, <2>9, <2>11
  <2> QED BY <2>8, <2>12 DEF h
<1>4. ASSUME NEW g \in Pieces, NEW s \in Paragraphs PROVE Append(g, s) \in Pieces
  <2>1. g \in Seq(Paragraphs)
    BY DEF Pieces
  <2> QED BY <2>1, AppendedIsSome DEF Pieces
<1>5. Pieces = Seq(Paragraphs) \ {<<>>}
  BY DEF Pieces
<1>6. Measures([g \in Pieces |-> PieceChars(g)], [s \in Paragraphs |-> ParagraphChars(s)], 2, Paragraphs)
  BY <1>1, <1>2, <1>3, <1>4, <1>5 DEF Measures
<1>7. Measures([g \in Pieces |-> Written(g)], [s \in Paragraphs |-> SumOf(s)], 0, Paragraphs)
  BY <1>1, <1>2, <1>3, <1>4, <1>5 DEF Measures
<1> QED BY <1>6, <1>7

-----------------------------------------------------------------------------
(* The splitter of documents: the last resort.                              *)

\* The most characters of MaxTokens.
Limit == 1600

LEMMA SumOfSame ==
  ASSUME NEW n \in Nat, NEW s \in Seq(Nat), Len(s) = n, \A i \in 1 .. n : s[i] = Limit
  PROVE  SumOf(s) = Limit * n
<1>1. PICK p : Sums(p, s) /\ SumOf(s) = p[n]
  BY SumOfByIndex
<1> DEFINE G == {k \in 0 .. n : p[k] = 1600 * k}
<1>2. 0 \in G
  BY <1>1 DEF Sums
<1>3. ASSUME NEW k \in 1 .. n, k - 1 \in G PROVE k \in G
  <2>1. p[k] = p[k - 1] + s[k] /\ s[k] = 1600
    BY <1>1 DEF Sums, Limit
  <2>2. p[k - 1] = 1600 * (k - 1) /\ k \in 0 .. n /\ k \in Nat
    BY <1>3
  <2> QED BY <2>1, <2>2
<1>4. n \in G
  <2> HIDE DEF G
  <2>1. \A k \in 0 .. n : k \in G
    BY <1>2, <1>3, UpToIndex
  <2> QED BY <2>1
<1> QED BY <1>1, <1>4 DEF Limit

LEMMA CutAddsUp ==
  ASSUME NEW chars \in Nat
  PROVE  Cut(chars) \in Seq(0 .. Limit) /\ Cut(chars) \in Seq(Nat) /\ SumOf(Cut(chars)) = chars
<1> DEFINE whole == chars \div 1600
           rest  == chars % 1600
           full  == [i \in 1 .. whole |-> 1600]
           last  == IF rest = 0 THEN <<>> ELSE <<rest>>
<1>1. whole \in Nat /\ rest \in 0 .. 1599 /\ chars = 1600 * whole + rest
  OBVIOUS
<1>2. Cut(chars) = IF chars <= 1600 THEN <<chars>> ELSE full \o last
  BY DEF Cut, MaxTokens, CharsPerToken
<1>3. CASE chars <= 1600
  <2>1. chars \in 0 .. Limit
    BY <1>3 DEF Limit
  <2>2. SumOf(<<chars>>) = chars
    BY SumOfOne
  <2> QED BY <1>2, <1>3, <2>1, <2>2
<1>4. CASE ~(chars <= 1600)
  <2> HIDE DEF whole, rest
  <2>1. full \in Seq(0 .. Limit) /\ full \in Seq(Nat) /\ Len(full) = whole /\ \A i \in 1 .. whole : full[i] = Limit
    <3>1. 1600 \in 0 .. Limit /\ 1600 \in Nat
      BY DEF Limit
    <3>2. ASSUME NEW S, 1600 \in S PROVE full \in Seq(S) /\ Len(full) = whole
      BY <1>1, <3>2
    <3>3. \A i \in 1 .. whole : full[i] = Limit
      BY DEF Limit
    <3> HIDE DEF full
    <3> QED BY <3>1, <3>2, <3>3
  <2>2. last \in Seq(0 .. Limit) /\ last \in Seq(Nat)
    <3>1. rest \in 0 .. Limit /\ rest \in Nat
      BY <1>1 DEF Limit
    <3>2. ASSUME NEW S, rest \in S PROVE last \in Seq(S)
      BY <3>2
    <3> HIDE DEF last
    <3> QED BY <3>1, <3>2
  <2>3. SumOf(last) = rest
    <3>1. CASE rest = 0
      BY <3>1, SumOfNothing
    <3>2. CASE rest # 0
      BY <1>1, <3>2, SumOfOne
    <3> QED BY <3>1, <3>2
  <2> HIDE DEF full, last
  <2>4. SumOf(full) = Limit * whole
    BY <1>1, <2>1, SumOfSame
  <2>5. full \o last \in Seq(0 .. Limit)
    BY <2>1, <2>2
  <2>6. full \o last \in Seq(Nat) /\ SumOf(full \o last) = SumOf(full) + SumOf(last)
    BY <2>1, <2>2, SumOfBoth
  <2>7. SumOf(full \o last) = chars
    BY <1>1, <2>3, <2>4, <2>6 DEF Limit
  <2> QED BY <1>2, <1>4, <2>5, <2>6, <2>7
<1> QED BY <1>3, <1>4

LEMMA LimitIsMaxTokens ==
  ASSUME NEW chars \in 0 .. Limit
  PROVE  EstimateTokens(chars) <= MaxTokens
BY DEF Limit, EstimateTokens, MaxTokens, CharsPerToken

-----------------------------------------------------------------------------
(* The splitter of documents: a piece is split, nothing written is lost.    *)

\* Every group of a piece split within it, the piece is split within.
LEMMA GroupsWithin ==
  ASSUME NEW g \in Pieces, NEW groups, groups = Packed(g, PieceChars),
         NEW parts, DOMAIN parts = DOMAIN groups, \A i \in DOMAIN groups : Within(parts[i], groups[i]),
         NEW final, final = FlattenSeq([i \in DOMAIN groups |-> parts[i]])
  PROVE  Within(final, g)
<1> DEFINE high == [h \in Pieces |-> PieceChars(h)]
           low  == [h \in Pieces |-> Written(h)]
           ofHigh == [s \in Paragraphs |-> ParagraphChars(s)]
           ofLow  == [s \in Paragraphs |-> SumOf(s)]
           seqs == [i \in DOMAIN groups |-> parts[i]]
           sums == [i \in DOMAIN groups |-> SumOf(parts[i])]
<1>1. g \in Seq(Paragraphs) /\ g # <<>>
  BY DEF Pieces
<1>2. PICK run : Packs(run, g, Paragraphs) /\ groups = run[Len(g)]
  BY <1>1, PiecesPacked
<1>3. Measures(high, ofHigh, 2, Paragraphs) /\ Measures(low, ofLow, 0, Paragraphs)
  BY PieceMeasures
<1>4. groups \in Packing(Paragraphs) /\ SumOf(Of(high, groups)) <= high[g]
  <2> HIDE DEF high, ofHigh
  <2> QED BY <1>1, <1>2, <1>3, PackedMeasure
<1>5. SumOf(Of(low, groups)) = low[g]
  <2> HIDE DEF low, ofLow
  <2> QED BY <1>1, <1>2, <1>3, PackedMeasure
<1>6. groups \in Seq(Pieces) /\ DOMAIN groups = 1 .. Len(groups) /\ Len(groups) \in Nat
  BY <1>4 DEF Packing, Pieces
<1>7. Of(high, groups) \in Seq(Nat) /\ Len(Of(high, groups)) = Len(groups)
  <2> HIDE DEF high, ofHigh
  <2> QED BY <1>3, <1>4, OfGroups
<1>8. Of(low, groups) \in Seq(Nat) /\ Len(Of(low, groups)) = Len(groups)
  <2> HIDE DEF low, ofLow
  <2> QED BY <1>3, <1>4, OfGroups
<1>9. ASSUME NEW i \in 1 .. Len(groups)
      PROVE  /\ parts[i] \in Seq(Nat) /\ SumOf(parts[i]) \in Nat
             /\ Of(low, groups)[i] <= SumOf(parts[i]) /\ SumOf(parts[i]) <= Of(high, groups)[i]
  <2>1. groups[i] \in Pieces /\ i \in DOMAIN groups
    BY <1>6
  <2>2. Within(parts[i], groups[i])
    BY <2>1
  <2>3. Of(low, groups)[i] = Written(groups[i]) /\ Of(high, groups)[i] = PieceChars(groups[i])
    BY <2>1 DEF Of
  <2> HIDE DEF low, high
  <2> QED BY <2>2, <2>3, SumOfIsNat DEF Within
<1>10. seqs \in Seq(Seq(Nat)) /\ Len(seqs) = Len(groups)
  <2>1. ASSUME NEW S, \A i \in 1 .. Len(groups) : parts[i] \in S PROVE seqs \in Seq(S) /\ Len(seqs) = Len(groups)
    BY <1>6, <2>1
  <2> HIDE DEF seqs
  <2> QED BY <1>9, <2>1
<1>11. sums \in Seq(Nat) /\ Len(sums) = Len(groups)
  <2>1. \A i \in 1 .. Len(groups) : SumOf(parts[i]) \in Nat
    BY <1>9
  <2> QED BY <1>6, <2>1
<1>12. \A i \in 1 .. Len(groups) : sums[i] = SumOf(seqs[i]) /\ sums[i] = SumOf(parts[i])
  BY <1>6
<1>13. final = FlattenSeq(seqs)
  OBVIOUS
<1> HIDE DEF seqs, sums, low, high
<1>14. FlattenSeq(seqs) \in Seq(Nat) /\ SumOf(FlattenSeq(seqs)) = SumOf(sums)
  BY <1>10, <1>11, <1>12, FlattenedSums
<1>15. SumOf(Of(low, groups)) <= SumOf(sums)
  BY <1>8, <1>9, <1>11, <1>12, SumOfMore
<1>16. SumOf(sums) <= SumOf(Of(high, groups))
  BY <1>7, <1>9, <1>11, <1>12, SumOfMore
<1>17. /\ SumOf(Of(low, groups)) \in Nat /\ SumOf(sums) \in Nat /\ SumOf(Of(high, groups)) \in Nat
       /\ PieceChars(g) \in Nat
  BY <1>7, <1>8, <1>11, SumOfIsNat, WrittenFits
<1>18. low[g] = Written(g) /\ high[g] = PieceChars(g)
  BY DEF low, high
<1>19. Written(g) <= SumOf(final) /\ SumOf(final) <= PieceChars(g)
  <2>1. Written(g) = SumOf(Of(low, groups)) /\ SumOf(Of(high, groups)) <= PieceChars(g) /\ SumOf(final) = SumOf(sums)
    BY <1>4, <1>5, <1>13, <1>14, <1>18
  <2>2. SumOf(sums) <= PieceChars(g)
    <3>1. PICK a \in Nat : a = SumOf(sums)
      BY <1>17
    <3>2. PICK b \in Nat : b = SumOf(Of(high, groups))
      BY <1>17
    <3>3. PICK c \in Nat : c = PieceChars(g)
      BY <1>17
    <3>4. a <= b
      BY <1>16, <3>1, <3>2
    <3>5. b <= c
      BY <2>1, <3>2, <3>3
    <3>6. a <= c
      BY <3>4, <3>5
    <3> QED BY <3>1, <3>3, <3>6
  <2> QED BY <1>15, <2>1, <2>2
<1> QED BY <1>13, <1>14, <1>19 DEF Within

LEMMA OneWithin ==
  ASSUME NEW g \in Pieces
  PROVE  Within(<<PieceChars(g)>>, g)
<1>1. Written(g) <= PieceChars(g) /\ PieceChars(g) \in Nat
  BY WrittenFits
<1>2. SumOf(<<PieceChars(g)>>) = PieceChars(g) /\ <<PieceChars(g)>> \in Seq(Nat)
  BY <1>1, SumOfOne
<1> QED BY <1>1, <1>2 DEF Within

\* Cutting what is too long adds up to the same.
LEMMA CutsAddUp ==
  ASSUME NEW final \in Seq(Nat), NEW cut, cut = FlattenSeq([i \in DOMAIN final |-> Cut(final[i])])
  PROVE  cut \in Seq(Nat) /\ cut \in Seq(0 .. Limit) /\ SumOf(cut) = SumOf(final)
<1> DEFINE seqs == [i \in DOMAIN final |-> Cut(final[i])]
<1>1. DOMAIN final = 1 .. Len(final) /\ Len(final) \in Nat /\ \A i \in 1 .. Len(final) : final[i] \in Nat
  OBVIOUS
<1>2. \A i \in 1 .. Len(final) : /\ Cut(final[i]) \in Seq(0 .. Limit) /\ Cut(final[i]) \in Seq(Nat)
                                 /\ SumOf(Cut(final[i])) = final[i]
  BY <1>1, CutAddsUp
<1>3. seqs \in Seq(Seq(0 .. Limit)) /\ Len(seqs) = Len(final)
  BY <1>1, <1>2
<1>4. seqs \in Seq(Seq(Nat))
  BY <1>1, <1>2
<1>5. \A i \in 1 .. Len(seqs) : final[i] = SumOf(seqs[i])
  BY <1>1, <1>2, <1>3
<1>6. cut = FlattenSeq(seqs)
  OBVIOUS
<1> HIDE DEF seqs
<1>7. FlattenSeq(seqs) \in Seq(0 .. Limit)
  BY <1>3, FlattenedIn
<1>8. FlattenSeq(seqs) \in Seq(Nat) /\ SumOf(FlattenSeq(seqs)) = SumOf(final)
  BY <1>3, <1>4, <1>5, FlattenedSums
<1> QED BY <1>6, <1>7, <1>8

\* Only the white space between sentences is lost, and no part is too long.
LEMMA SplitIsWhole ==
  ASSUME NEW g \in Pieces, NEW split, split = SplitOversized(g)
  PROVE  Within(split, g) /\ \A i \in DOMAIN split : EstimateTokens(split[i]) <= MaxTokens
<1> DEFINE groups == Packed(g, PieceChars)
           small(h) == EstimateTokens(PieceChars(h)) <= MaxTokens
           part(h) == IF small(h) THEN <<PieceChars(h)>> ELSE BySentence(h)
           parts == [i \in DOMAIN groups |-> part(groups[i])]
           final == FlattenSeq([i \in DOMAIN groups |-> part(groups[i])])
           cut   == FlattenSeq([i \in DOMAIN final |-> Cut(final[i])])
<1>1. split = IF small(g) THEN <<PieceChars(g)>> ELSE cut
  BY DEF SplitOversized
<1>2. CASE small(g)
  <2>1. split = <<PieceChars(g)>>
    BY <1>1, <1>2
  <2>2. \A i \in DOMAIN split : EstimateTokens(split[i]) <= MaxTokens
    BY <1>2, <2>1
  <2> QED BY <2>1, <2>2, OneWithin
<1>3. CASE ~small(g)
  <2>1. g \in Seq(Paragraphs)
    BY DEF Pieces
  <2>2. groups \in Seq(Pieces)
    <3>1. PICK run : Packs(run, g, Paragraphs) /\ groups = run[Len(g)]
      BY <2>1, PiecesPacked
    <3>2. Len(g) \in 0 .. Len(g)
      BY <2>1
    <3>3. groups \in Packing(Paragraphs)
      BY <3>1, <3>2 DEF Packs
    <3> HIDE DEF groups
    <3> QED BY <3>3 DEF Packing, Pieces
  <2>3. ASSUME NEW i \in DOMAIN groups PROVE Within(parts[i], groups[i])
    <3>1. groups[i] \in Pieces
      <4> HIDE DEF groups
      <4> QED BY <2>2
    <3>2. parts[i] = part(groups[i])
      OBVIOUS
    <3>3. CASE small(groups[i])
      BY <3>1, <3>2, <3>3, OneWithin
    <3>4. CASE ~small(groups[i])
      BY <3>1, <3>2, <3>4, BySentenceWithin
    <3> QED BY <3>3, <3>4
  <2>4. DOMAIN parts = DOMAIN groups /\ final = FlattenSeq([i \in DOMAIN groups |-> parts[i]])
    <3>1. [i \in DOMAIN groups |-> parts[i]] = [i \in DOMAIN groups |-> part(groups[i])]
      <4> HIDE DEF groups, part
      <4> QED OBVIOUS
    <3> HIDE DEF groups, part
    <3> QED BY <3>1
  <2>5. Within(final, g)
    <3>1. ASSUME NEW gs, gs = groups, NEW ps, ps = parts, NEW f, f = final PROVE Within(f, g)
      <4>1. gs = Packed(g, PieceChars)
        BY <3>1
      <4>2. DOMAIN ps = DOMAIN gs /\ (\A i \in DOMAIN gs : Within(ps[i], gs[i]))
        BY <2>3, <2>4, <3>1, Zenon
      <4>3. f = FlattenSeq([i \in DOMAIN gs |-> ps[i]])
        BY <2>4, <3>1, Zenon
      <4> HIDE DEF groups, parts, final
      <4> QED BY <4>1, <4>2, <4>3, GroupsWithin
    <3> HIDE DEF groups, parts, final
    <3> QED BY <3>1
  <2> HIDE DEF final
  <2>6. final \in Seq(Nat)
    BY <2>5 DEF Within
  <2>7. cut \in Seq(Nat) /\ cut \in Seq(0 .. Limit) /\ SumOf(cut) = SumOf(final)
    BY <2>6, CutsAddUp
  <2> HIDE DEF cut
  <2>8. split = cut
    BY <1>1, <1>3
  <2>9. Within(split, g)
    BY <2>5, <2>7, <2>8 DEF Within
  <2>10. \A i \in DOMAIN split : split[i] \in 0 .. Limit
    <3>1. ASSUME NEW S, NEW s \in Seq(S) PROVE \A i \in DOMAIN s : s[i] \in S
      OBVIOUS
    <3> QED BY <2>7, <2>8, <3>1
  <2> QED BY <2>9, <2>10, LimitIsMaxTokens
<1> QED BY <1>2, <1>3

\* run[k] is what is kept of the first k parts.
OrDropped(kept, chars) == IF EstimateTokens(chars) >= MinTokens THEN Append(kept, chars) ELSE kept

Keeps(run, parts) ==
  /\ run[0] = <<>>
  /\ \A k \in 1 .. Len(parts) : run[k] = OrDropped(run[k - 1], parts[k])
  /\ \A k \in 0 .. Len(parts) : run[k] \in Seq(Nat)

LEMMA LongEnoughOneByOne ==
  ASSUME NEW parts \in Seq(Nat)
  PROVE  \E run : Keeps(run, parts) /\ LongEnough(parts) = run[Len(parts)]
<1> DEFINE N == Len(parts)
           D == Seq(Nat)
           step == [k \in 1 .. N |-> [kept \in D |-> OrDropped(kept, parts[k])]]
           Is(f) == f = [t \in SUBSET DOMAIN parts |->
                           IF t = {} THEN <<>> ELSE OrDropped(f[t \ {Max(t)}], parts[Max(t)])]
<1>1. N \in Nat /\ DOMAIN parts = 1 .. N /\ \A k \in 1 .. N : parts[k] \in Nat
  OBVIOUS
<1>2. LongEnough(parts) = (CHOOSE f : Is(f))[DOMAIN parts]
  BY DEF LongEnough, FoldLeft, MapThenFoldSet, OrDropped
<1> HIDE DEF N
<1>3. step \in [1 .. N -> [D -> D]] /\ <<>> \in D
  <2>1. ASSUME NEW k \in 1 .. N, NEW kept \in D PROVE OrDropped(kept, parts[k]) \in D
    <3>1. parts[k] \in Nat
      BY <1>1
    <3> QED BY <3>1 DEF OrDropped
  <2>2. <<>> \in D
    OBVIOUS
  <2> HIDE DEF D
  <2> QED BY <2>1, <2>2
<1>4. PICK f : f \in [SUBSET (1 .. N) -> D] /\ Stepwise(f, N, D, <<>>, step)
  <2> HIDE DEF step, D
  <2> QED BY <1>1, <1>3, FoldExistsStepwise, Zenon
<1> HIDE DEF D
<1>5. Is(f)
  <2>1. f = [t \in SUBSET (1 .. N) |-> f[t]]
    BY <1>4
  <2>2. ASSUME NEW t \in SUBSET (1 .. N)
        PROVE  f[t] = IF t = {} THEN <<>> ELSE OrDropped(f[t \ {Max(t)}], parts[Max(t)])
    BY <1>4 DEF Stepwise
  <2> QED BY <1>1, <2>1, <2>2
<1> DEFINE all == CHOOSE g : Is(g)
<1>6. Is(all)
  <2> HIDE DEF Is
  <2> QED BY <1>5
<1> HIDE DEF all
<1>7. all[{}] = <<>>
  BY <1>1, <1>6
<1>8. ASSUME NEW k \in 1 .. N PROVE all[1 .. k] = OrDropped(all[1 .. k - 1], parts[k])
  <2>1. Max(1 .. k) = k /\ (1 .. k) \ {k} = 1 .. k - 1
    BY <1>1, LastIndex
  <2>2. 1 .. k \in SUBSET DOMAIN parts /\ k \in 1 .. k
    BY <1>1
  <2> QED BY <1>6, <2>1, <2>2
<1> DEFINE run == [k \in 0 .. N |-> all[1 .. k]]
<1>9. run[0] = <<>>
  <2>1. 1 .. 0 = {} /\ 0 \in 0 .. N
    BY <1>1
  <2> QED BY <1>7, <2>1
<1>10. ASSUME NEW k \in 1 .. N PROVE run[k] = OrDropped(run[k - 1], parts[k])
  <2>1. k \in 0 .. N /\ k - 1 \in 0 .. N
    BY <1>1
  <2>2. run[k] = all[1 .. k] /\ run[k - 1] = all[1 .. k - 1]
    BY <2>1
  <2> HIDE DEF run
  <2> QED BY <1>8, <2>2
<1>11. LongEnough(parts) = run[N]
  BY <1>1, <1>2 DEF all
<1> HIDE DEF run
<1>12. \A k \in 0 .. N : run[k] \in D
  <2> DEFINE G == {k \in 0 .. N : run[k] \in D}
  <2>1. 0 \in G
    BY <1>1, <1>3, <1>9
  <2>2. ASSUME NEW k \in 1 .. N, k - 1 \in G PROVE k \in G
    <3>1. run[k - 1] \in D /\ k \in 0 .. N /\ parts[k] \in Nat
      BY <1>1, <2>2
    <3>2. OrDropped(run[k - 1], parts[k]) \in D
      BY <3>1 DEF D, OrDropped
    <3> QED BY <1>10, <3>1, <3>2
  <2>3. \A k \in 0 .. N : k \in G
    <3> HIDE DEF G
    <3> QED BY <1>1, <2>1, <2>2, UpToIndex
  <2> QED BY <2>3
<1> QED BY <1>9, <1>10, <1>11, <1>12 DEF D, N, Keeps

LEMMA DroppedIsShort ==
  ASSUME NEW chars \in Nat, ~(EstimateTokens(chars) >= MinTokens)
  PROVE  chars <= MaxFragment
<1>1. MinTokens = 8 /\ CharsPerToken = 4 /\ MaxFragment = 28
  BY DEF MinTokens, CharsPerToken, MaxFragment
<1>2. CASE chars = 0
  BY <1>1, <1>2
<1>3. CASE chars # 0
  <2>1. EstimateTokens(chars) = (chars + 3) \div 4
    BY <1>1, <1>3 DEF EstimateTokens
  <2>2. ~((chars + 3) \div 4 >= 8)
    BY <1>1, <2>1
  <2>3. chars + 3 < 32
    BY <2>2
  <2> QED BY <1>1, <2>3
<1> QED BY <1>2, <1>3

\* What is left out is no longer than its parts may be.
LEMMA LostIsShort ==
  ASSUME NEW parts \in Seq(Nat)
  PROVE  /\ LongEnough(parts) \in Seq(Nat)
         /\ SumOf(parts) - SumOf(LongEnough(parts)) <= MaxFragment * (Len(parts) - Len(LongEnough(parts)))
<1> DEFINE N == Len(parts)
<1>1. N \in Nat /\ \A k \in 1 .. N : parts[k] \in Nat
  OBVIOUS
<1>2. PICK run : Keeps(run, parts) /\ LongEnough(parts) = run[N]
  BY LongEnoughOneByOne
<1>3. PICK p : Sums(p, parts) /\ SumOf(parts) = p[N]
  BY SumOfByIndex
<1>4. MaxFragment = 28
  BY DEF MinTokens, CharsPerToken, MaxFragment
<1> DEFINE G == {k \in 0 .. N : p[k] - SumOf(run[k]) <= 28 * (k - Len(run[k]))}
<1>5. 0 \in G
  <2>1. p[0] = 0 /\ run[0] = <<>> /\ SumOf(<<>>) = 0 /\ Len(<<>>) = 0
    BY <1>2, <1>3, SumOfNothing DEF Keeps, Sums
  <2>2. p[0] - SumOf(run[0]) <= 28 * (0 - Len(run[0]))
    BY <2>1
  <2> QED BY <1>1, <2>2
<1>6. ASSUME NEW k \in 1 .. N, k - 1 \in G PROVE k \in G
  <2>1. k - 1 \in 0 .. N /\ k \in 0 .. N /\ parts[k] \in Nat
    BY <1>1
  <2>2. PICK old \in Seq(Nat) : old = run[k - 1]
    BY <1>2, <2>1 DEF Keeps
  <2>3. PICK new \in Seq(Nat) : new = run[k]
    BY <1>2, <2>1 DEF Keeps
  <2>4. PICK x \in Nat : x = parts[k]
    BY <2>1
  <2>5. p[k] = p[k - 1] + x /\ p[k - 1] \in Nat
    BY <1>3, <2>1, <2>4 DEF Sums
  <2>6. new = OrDropped(old, x)
    BY <1>2, <2>2, <2>3, <2>4 DEF Keeps
  <2>7. p[k - 1] - SumOf(old) <= 28 * ((k - 1) - Len(old))
    BY <1>6, <2>2
  <2>8. SumOf(old) \in Nat /\ SumOf(new) \in Nat /\ Len(old) \in Nat /\ Len(new) \in Nat
    BY SumOfIsNat
  <2>9. (SumOf(new) = SumOf(old) + x /\ Len(new) = Len(old) + 1) \/ (SumOf(new) = SumOf(old) /\ Len(new) = Len(old) /\ x <= 28)
    <3>1. CASE EstimateTokens(x) >= MinTokens
      <4>1. new = Append(old, x)
        BY <2>6, <3>1 DEF OrDropped
      <4> QED BY <4>1, SumOfAppend
    <3>2. CASE ~(EstimateTokens(x) >= MinTokens)
      <4>1. new = old
        BY <2>6, <3>2 DEF OrDropped
      <4> QED BY <1>4, <3>2, <4>1, DroppedIsShort
    <3> QED BY <3>1, <3>2
  <2>10. p[k] - SumOf(new) <= 28 * (k - Len(new))
    <3>1. PICK was \in Nat, now \in Nat, n \in Nat, m \in Nat :
            was = SumOf(old) /\ now = SumOf(new) /\ n = Len(old) /\ m = Len(new)
      BY <2>8
    <3>2. PICK upto \in Nat : upto = p[k - 1]
      BY <2>5
    <3>3. upto - was <= 28 * ((k - 1) - n)
      BY <2>7, <3>1, <3>2
    <3>4. (now = was + x /\ m = n + 1) \/ (now = was /\ m = n /\ x <= 28)
      BY <2>9, <3>1
    <3>5. k \in Nat
      BY <1>1
    <3>6. (upto + x) - now <= 28 * (k - m)
      BY <3>3, <3>4, <3>5
    <3> QED BY <2>5, <3>1, <3>2, <3>6
  <2> QED BY <2>1, <2>3, <2>10
<1>7. N \in G
  <2> HIDE DEF G, N
  <2>1. \A k \in 0 .. N : k \in G
    BY <1>1, <1>5, <1>6, UpToIndex
  <2> QED BY <1>1, <2>1
<1>8. run[N] \in Seq(Nat)
  BY <1>1, <1>2 DEF Keeps
<1> QED BY <1>2, <1>3, <1>4, <1>7, <1>8

LEMMA ToldPassagesAreWhole == ASSUME ToldInv PROVE PassagesAreWhole
<1> SUFFICES ASSUME shown.kind = "split" PROVE PassagesAreWhole
  BY DEF PassagesAreWhole
<1>1. PICK sheet \in Sheets : sheet.kind = "split" /\ SheetOK(sheet) /\ shown = Outcome(sheet)
  BY AnswersHaveASheet DEF Exercises
<1>2. shown = [kind |-> "split", sheet |-> sheet, parts |-> SplitOversized(sheet.paragraphs),
               kept |-> LongEnough(SplitOversized(sheet.paragraphs))]
  BY <1>1 DEF Outcome
<1>3. sheet.paragraphs \in Pieces
  <2>1. sheet.paragraphs \in Seq(Seq(Nat \ {0}) \ {<<>>}) \ {<<>>}
    BY <1>1 DEF SheetOK
  <2>2. Seq(Nat \ {0}) \ {<<>>} \in SUBSET Paragraphs
    BY DEF Paragraphs
  <2>3. ASSUME NEW S, S \in SUBSET Paragraphs, NEW g \in Seq(S) \ {<<>>} PROVE g \in Pieces
    BY <2>3 DEF Pieces
  <2> QED BY <2>1, <2>2, <2>3
<1>4. shown.sheet = sheet /\ shown.parts = SplitOversized(sheet.paragraphs) /\ shown.kept = LongEnough(shown.parts)
  BY <1>2
<1>5. Within(shown.parts, sheet.paragraphs) /\ \A i \in DOMAIN shown.parts : EstimateTokens(shown.parts[i]) <= MaxTokens
  BY <1>3, <1>4, SplitIsWhole
<1>6. SumOf(shown.parts) \in SumOf(FlattenSeq(sheet.paragraphs)) .. PieceChars(sheet.paragraphs)
  <2>1. SumOf(shown.parts) \in Nat
    BY <1>5, SumOfIsNat DEF Within
  <2> QED BY <1>3, <1>5, <2>1, WrittenFits DEF Within, Written
<1>7. SumOf(FlattenSeq(sheet.paragraphs)) - SumOf(shown.kept) <= MaxFragment * (Len(shown.parts) - Len(shown.kept))
  <2>1. PICK parts \in Seq(Nat) : parts = shown.parts
    BY <1>5 DEF Within
  <2>2. PICK kept \in Seq(Nat) : kept = LongEnough(parts)
    BY LostIsShort
  <2>3. SumOf(parts) - SumOf(kept) <= MaxFragment * (Len(parts) - Len(kept))
    BY <2>2, LostIsShort
  <2>4. SumOf(parts) \in Nat /\ SumOf(kept) \in Nat /\ Len(parts) \in Nat /\ Len(kept) \in Nat
    BY SumOfIsNat
  <2>5. PICK written \in Int : written = SumOf(FlattenSeq(sheet.paragraphs)) /\ written <= SumOf(parts)
    BY <1>3, <1>6, <2>1, <2>4, WrittenFits DEF Written
  <2>6. MaxFragment = 28
    BY DEF MinTokens, CharsPerToken, MaxFragment
  <2>7. written - SumOf(kept) <= 28 * (Len(parts) - Len(kept))
    BY <2>3, <2>4, <2>5, <2>6
  <2> QED BY <1>4, <2>1, <2>2, <2>5, <2>6, <2>7
<1> QED BY <1>4, <1>5, <1>6, <1>7 DEF PassagesAreWhole

-----------------------------------------------------------------------------
(* What the student is told.                                                *)

\* Every practice problem that is made from a student's problem is another
\* problem, with the student's kind of answer, and what is given as its answer
\* solves it (learning/twins.py, learning/solver.py).
THEOREM PracticeIsAnotherProblem == Spec => []TwinsArePractice
<1>1. MemoryInv /\ ToldInv => TwinsArePractice
  BY ToldTwinsArePractice
<1> QED BY <1>1, ToldStaysTrue, PTL

\* Whatever a desk tells: all of it is earned.
THEOREM ToldIsEarned == Spec => []OutputsAreEarned
<1>1. MemoryInv /\ ToldInv => OutputsAreEarned
  BY ToldRecognisedHonestly, ToldVerifiedHonestly, ToldComputedInBounds, ToldCitedFromSupplied,
     ToldWrittenByTheStudent, ToldPapersFit, ToldPromptsFit, ToldPassagesAreWhole, ToldReadsWords,
     ToldReadFrugally, ToldWeakOnEvidence DEF OutputsAreEarned
<1> QED BY <1>1, ToldStaysTrue, PTL
=============================================================================
