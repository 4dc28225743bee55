------------------------------ MODULE Knowledge ------------------------------
(***************************************************************************)
(* The knowledge base (rag/ingestion.py, rag/embeddings.py, rag/service.py):*)
(* documents are ingested once, their passages embedded once, and looked up *)
(* under the scope of who asks.                                             *)
(*                                                                          *)
(* A call is one transaction; what it reads may be changed by another       *)
(* session before it commits, above all while it waits for the embedding    *)
(* provider.  A row of document_chunks is a member of its source's chunks:  *)
(* they are written with it and cascade with it.  A commit's number stands  *)
(* for its time in created_at and deleted_at.                               *)
(***************************************************************************)
EXTENDS Retrieval

CONSTANTS
  Readers,    \* concurrent sessions of the library
  Documents,  \* name -> text
  Requests,   \* IngestionRequests: [document, visibility, subject, tutor, course, conversation]
  Questions,  \* [query, scope, ctx flags, available]
  Models,     \* embedding models a deployment may be configured with
  Window,     \* tokens of the prompt the evidence goes to
  MaxCommits  \* bound on the commits

ASSUME KnowledgeAssumption == MaxCommits \in Nat /\ Window \in Nat

VARIABLES
  library,   \* id -> its row (knowledge_sources) with its chunks
  vectors,   \* <<passage, model>> in embedding_cache
  embedder,  \* the embedding model of the running deployment
  reading,   \* session -> what it has read and not committed
  commits,   \* commits so far
  told       \* what the last call returned, if it has

libraryVars == <<library, vectors, embedder, reading, commits, told>>

Live == 0

Replied(kind, about) == [kind |-> kind, about |-> about]
Silent == Replied("nothing", {})

Free(s) == reading[s] = {}

Commit == commits < MaxCommits /\ commits' = commits + 1
-----------------------------------------------------------------------------
(* Ingestion.                                                               *)

\* The passages of each document, a repeated one once.
Passages == [d \in DOMAIN Documents |-> Deduplicated(ChunkText(Documents[d]))]

Owner == [STUDENT_PRIVATE |-> "subject", TUTOR |-> "tutor", COURSE |-> "course", CONVERSATION |-> "conversation"]

ASSUME RequestsAssumption ==
  \A r \in Requests : r.document \in DOMAIN Documents /\ r.visibility \in DOMAIN Owner \cup {"GLOBAL_CURATED"}

\* A document is cut into a list of passages, each of some length, and a
\* question has a score for each.
ASSUME PassagesAssumption ==
  \A d \in DOMAIN Documents :
    /\ IsFiniteSet(DOMAIN Passages[d])
    /\ \A i \in DOMAIN Passages[d] :
         /\ i \in Nat /\ Passages[d][i].chars \in Nat
         /\ \A q \in Questions :
              /\ q.query.lexical[Passages[d][i].passage[1]] \in Nat
              /\ q.query.close[Passages[d][i].passage[1]] \in Nat

ASSUME QuestionsAssumption == \A q \in Questions : q.available \in Int

\* A visibility other than the public one needs its owner.
RequireOwner(r) == r.visibility \in DOMAIN Owner => r[Owner[r.visibility]] # NoOne

\* Mutant: a deleted document still counts as ingested.
SameContentEver(source, r) ==
  /\ source.document = r.document /\ source.visibility = r.visibility
  /\ source.subject = r.subject /\ source.tutor = r.tutor
  /\ source.model = embedder

\* Content, visibility, two of the owners and the versions, and not deleted.
SameContent(source, r) ==
  /\ source.document = r.document /\ source.visibility = r.visibility
  /\ source.subject = r.subject /\ source.tutor = r.tutor
  /\ source.model = embedder
  /\ source.deleted = Live

Existing(r) == {i \in DOMAIN library : SameContent(library[i], r)}

\* uq_source_content: a null equals nothing, so it only binds a source that
\* has both a subject and a tutor.
Clashes(r) ==
  \E i \in DOMAIN library :
    /\ library[i].document = r.document /\ library[i].visibility = r.visibility /\ library[i].model = embedder
    /\ NoOne \notin {r.subject, r.tutor}
    /\ library[i].subject = r.subject /\ library[i].tutor = r.tutor

Ingested(r, id, created, already) ==
  Replied("ingested", [request |-> r, source |-> id, created |-> created, already |-> already, at |-> commits,
                       model |-> embedder])

\* One row is what was asked for; two make scalar_one_or_none raise.
IngestReads(s, r) ==
  /\ Free(s) /\ commits < MaxCommits
  /\ \/ /\ ~RequireOwner(r) \/ Cardinality(Existing(r)) > 1
        /\ told' = Replied("error", {}) /\ UNCHANGED reading
     \/ /\ RequireOwner(r) /\ Cardinality(Existing(r)) = 1
        /\ told' = Ingested(r, CHOOSE i \in Existing(r) : TRUE, 0, TRUE) /\ UNCHANGED reading
     \/ /\ RequireOwner(r) /\ Existing(r) = {}
        /\ reading' = [reading EXCEPT ![s] = {[pc |-> "embed", request |-> r, fresh |-> {},
                                              chunks |-> Passages[r.document]]}]
        /\ told' = Silent
  /\ UNCHANGED <<library, vectors, embedder, commits>>

Uncached(chunks) == {c.passage : c \in ToSet(chunks)} \ {v[1] : v \in {w \in vectors : w[2] = embedder}}

\* The provider is asked for what the cache lacks; a failure rolls back.
EmbedWithCache(s) ==
  /\ \E job \in reading[s] :
       /\ job.pc = "embed"
       /\ \/ reading' = [reading EXCEPT ![s] = {[job EXCEPT !.pc = "commit", !.fresh = Uncached(job.chunks)]}]
             /\ told' = Silent
          \/ Uncached(job.chunks) # {} /\ reading' = [reading EXCEPT ![s] = {}] /\ told' = Replied("error", {})
  /\ UNCHANGED <<library, vectors, embedder, commits>>

Chunked(id, r, chunks) ==
  {[source |-> id, ordinal |-> i, passage |-> chunks[i].passage, page |-> chunks[i].page, chars |-> chunks[i].chars,
    section |-> chunks[i].section, model |-> embedder, visibility |-> r.visibility, subject |-> r.subject,
    tutor |-> r.tutor, course |-> r.course, conversation |-> r.conversation] : i \in DOMAIN chunks}

\* Source, chunks and vectors in one commit, or a violated constraint and none.
IngestCommits(s) ==
  /\ \E job \in reading[s] :
       LET id == commits + 1
           r  == job.request
       IN  /\ job.pc = "commit"
           /\ IF Clashes(r)
              THEN told' = Replied("error", {}) /\ UNCHANGED <<library, vectors, commits>>
              ELSE /\ Commit
                   /\ library' = [i \in DOMAIN library \cup {id} |->
                        IF i # id THEN library[i]
                        ELSE [document |-> r.document, visibility |-> r.visibility, subject |-> r.subject,
                              tutor |-> r.tutor, model |-> embedder, deleted |-> Live,
                              status |-> IF job.chunks = <<>> THEN "EMPTY" ELSE "READY",
                              chunks |-> Chunked(id, r, job.chunks)]]
                   /\ vectors' = vectors \cup (job.fresh \X {embedder})
                   /\ told' = Ingested(r, id, Len(job.chunks), FALSE)
           /\ reading' = [reading EXCEPT ![s] = {}]
  /\ UNCHANGED embedder

\* The row stays; retrieval no longer joins it.
SoftDeleteSource(id) ==
  /\ Commit
  /\ id \in DOMAIN library
  /\ library' = [library EXCEPT ![id].deleted = commits + 1, ![id].status = "DELETED"]
  /\ UNCHANGED <<vectors, embedder, reading, told>>

PurgeSource(id) ==
  /\ Commit
  /\ id \in DOMAIN library
  /\ library' = [i \in DOMAIN library \ {id} |-> library[i]]
  /\ UNCHANGED <<vectors, embedder, reading, told>>

\* A deployment with another embedding model: the processes restart.
Redeploy ==
  /\ Commit
  /\ embedder' \in Models \ {embedder}
  /\ reading' = [s \in Readers |-> {}]
  /\ told' = Silent
  /\ UNCHANGED <<library, vectors>>
-----------------------------------------------------------------------------
(* Retrieval.                                                               *)

\* Mutant: deleted sources are joined.
RowsEver(scope) == {r \in UNION {library[i].chunks : i \in DOMAIN library} : VisibleTo(scope, r)}

\* Ownership and deletion are in the statement that ranks.
Rows(scope) ==
  {r \in UNION {library[i].chunks : i \in {j \in DOMAIN library : library[j].deleted = Live}} : VisibleTo(scope, r)}

KeywordSufficientHits == 3

\* Mutant: one hit too many is asked of the words.
MoreWordsSuffice(lexical) == Len(lexical) > KeywordSufficientHits

WordsSuffice(lexical) == Len(lexical) >= KeywordSufficientHits

\* What is found goes to the prompt in whole passages; words is how many of them
\* the free search had found.
Evidence(question, k, began, words, calls, found) ==
  LET costs == [i \in DOMAIN found |-> SnippetCost(found[i].chars)]
      none  == [persona |-> 0, turns |-> <<>>, summary |-> 0, memories |-> <<>>, evidence |-> costs]
  IN  Replied("evidence",
        [question |-> question, topK |-> k, began |-> began, words |-> words, calls |-> calls, found |-> found,
         prompt |-> Allocate(Window, 0, none)])

\* The policy, and the search that is free.
DecideAndRetrieve(s, q) ==
  /\ Free(s) /\ commits < MaxCommits
  /\ LET verdict == RagDecide([query |-> q.query, hasCorpus |-> Rows(q.scope) # {}, permits |-> q.permits,
                               highStakes |-> q.highStakes, followUp |-> q.followUp,
                               activeDocument |-> q.activeDocument])
         k       == DynamicTopK(verdict.topK, q.available)
         lexical == KeywordSearch(Rows(q.scope), q.query, k)
     IN  IF ~verdict.retrieve \/ k <= 0 \/ WordsSuffice(lexical)
         THEN /\ told' = Evidence(q, k, commits, Len(lexical), 0, IF verdict.retrieve /\ k > 0 THEN lexical ELSE <<>>)
              /\ UNCHANGED reading
         ELSE /\ reading' = [reading EXCEPT ![s] = {[pc |-> "search", question |-> q, topK |-> k, lexical |-> lexical,
                                                     began |-> commits]}]
              /\ told' = Silent
  /\ UNCHANGED <<library, vectors, embedder, commits>>

\* The question is embedded, through the same cache, and the rankings fused.
Search(s) ==
  /\ \E job \in reading[s] :
       LET q     == job.question
           key   == <<q.query.text, embedder>>
           near  == SimilaritySearch(Rows(q.scope), q.query, embedder, job.topK)
           fused == ReciprocalRankFusion(near, job.lexical, job.topK)
       IN  /\ job.pc = "search"
           /\ told' = Evidence(q, job.topK, job.began, Len(job.lexical), IF key \in vectors THEN 0 ELSE 1, fused)
           /\ vectors' = vectors \cup {key}
  /\ reading' = [reading EXCEPT ![s] = {}]
  /\ UNCHANGED <<library, embedder, commits>>
-----------------------------------------------------------------------------
InitLibrary ==
  /\ library = [i \in {} |-> Silent]
  /\ vectors = {}
  /\ embedder = CHOOSE m \in Models : TRUE
  /\ reading = [s \in Readers |-> {}]
  /\ commits = 0
  /\ told = Silent

Reading ==
  \/ \E s \in Readers, r \in Requests : IngestReads(s, r)
  \/ \E s \in Readers : EmbedWithCache(s) \/ IngestCommits(s) \/ Search(s)
  \/ \E id \in 1 .. MaxCommits : SoftDeleteSource(id) \/ PurgeSource(id)
  \/ Redeploy
  \/ \E s \in Readers, q \in Questions : DecideAndRetrieve(s, q)
-----------------------------------------------------------------------------
(* Properties.                                                              *)

ScopeOf(r) ==
  [subject |-> r.subject, tutor |-> r.tutor, courses |-> {r.course} \ {NoOne}, conversation |-> r.conversation,
   includeGlobal |-> TRUE]

\* Who is told that a document is ingested finds all of it: every passage is
\* reachable in the scope of the request, under the model that embedded it,
\* unless the document was deleted later - whatever was deleted and ingested
\* again before, and by whom at the same time (ingest).  Material of a course or a
\* conversation is left out: ingest does not compare those owners.
IngestedIsFound ==
  (told.kind = "ingested" /\ told.about.request.visibility \notin {"COURSE", "CONVERSATION"}) =>
    LET promise == told.about
        rows    == {r \in Rows(ScopeOf(promise.request)) : r.model = promise.model}
    IN  promise.source \in DOMAIN library =>
          IF library[promise.source].deleted = Live
          THEN {c.passage : c \in ToSet(Passages[promise.request.document])} \subseteq {r.passage : r \in rows}
          ELSE library[promise.source].deleted > promise.at

\* The definitions of Visibility: who may read a passage.
MayRead(scope, row) ==
  CASE row.visibility = "GLOBAL_CURATED"  -> TRUE
    [] row.visibility = "STUDENT_PRIVATE" -> row.subject = scope.subject
    [] row.visibility = "TUTOR"           -> row.tutor = scope.tutor
    [] row.visibility = "COURSE"          -> row.course \in scope.courses
    [] row.visibility = "CONVERSATION"    -> row.conversation = scope.conversation

\* A student is shown what is theirs to read and was not deleted before they
\* asked, each passage of a source once, no more of it than was asked for nor
\* than the prompt has room for; and a retrieval that was skipped, or for which
\* words alone had found three passages, paid for no embedding (retrieve,
\* allocate).
EvidenceIsTheAskers ==
  told.kind = "evidence" =>
    LET given == told.about
        found  == given.found
    IN  /\ \A i \in DOMAIN found :
             /\ MayRead(given.question.scope, found[i])
             /\ found[i].source \in DOMAIN library =>
                  LET deleted == library[found[i].source].deleted IN deleted = Live \/ deleted > given.began
             /\ \A j \in DOMAIN found : found[i] = found[j] => i = j
        /\ Len(found) <= given.topK
        /\ 100 * given.prompt.used <= 35 * Window
        /\ given.topK = 0 => found = <<>> /\ given.calls = 0
        /\ given.words >= KeywordSufficientHits => given.calls = 0
=============================================================================
