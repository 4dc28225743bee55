------------------------------ MODULE Retrieval ------------------------------
(***************************************************************************)
(* When to retrieve, what a scope may see, how rankings are merged          *)
(* (policies/rag_policy.py, rag/vector_store.py), and what of it fits in a  *)
(* prompt (services/budgeter.py).  A question is its length, the signs the  *)
(* patterns find in it, and how well each text answers it, by its words     *)
(* (lexical, 0: not at all) and by its vector (close).                      *)
(***************************************************************************)
EXTENDS Chunking

NoOne == "none"

MinQueryChars == 12

Verdict(retrieve, reason, k) == [retrieve |-> retrieve, reason |-> reason, topK |-> k]
Retrieved(reason, k) == Verdict(TRUE, reason, k)
Skipped(reason)      == Verdict(FALSE, reason, 0)

\* The first rule that applies decides: cheap refusals first, and a source that
\* is asked for outranks a computation.
RagDecide(ctx) ==
  LET asks(sign) == sign \in ctx.query.signs
      rules == <<
        <<~ctx.hasCorpus,                  Skipped("NO_CORPUS_AVAILABLE")>>,
        <<~ctx.permits,                    Skipped("BUDGET_FORBIDS")>>,
        <<ctx.query.chars < MinQueryChars, Skipped("TOO_SHORT_TO_TARGET")>>,
        <<asks("source"),                  Retrieved("ASKS_FOR_SOURCE", 5)>>,
        <<asks("document"),                Retrieved("REFERS_TO_UPLOAD", 6)>>,
        <<asks("tutor"),                   Retrieved("TUTOR_SPECIFIC", 4)>>,
        <<asks("course"),                  Retrieved("COURSE_OR_SYLLABUS", 5)>>,
        <<ctx.highStakes,                  Retrieved("TEST_GENERATION", 8)>>,
        <<ctx.followUp,                    Skipped("FOLLOW_UP_USES_EXISTING_CONTEXT")>>,
        <<ctx.activeDocument,              Retrieved("ACTIVE_DOCUMENT_CONTEXT", 4)>>,
        <<asks("computation"),             Skipped("SELF_CONTAINED_COMPUTATION")>>,
        <<TRUE,                            Skipped("GENERAL_KNOWLEDGE")>> >>
  IN  rules[SelectInSeq(rules, LAMBDA rule : rule[1])][2]

AvgChunkTokens == 180

DynamicTopK(k, available) == IF available <= 0 THEN 0 ELSE Min({k, available \div AvgChunkTokens})

\* Mutant: a scope with no conversation sees every conversation.
VisibleToWildcard(scope, row) ==
  \/ row.visibility = "STUDENT_PRIVATE" /\ row.subject = scope.subject
  \/ row.visibility = "GLOBAL_CURATED" /\ scope.includeGlobal
  \/ row.visibility = "TUTOR" /\ row.tutor = scope.tutor /\ scope.tutor # NoOne
  \/ row.visibility = "COURSE" /\ row.course \in scope.courses
  \/ row.visibility = "CONVERSATION" /\ (row.conversation = scope.conversation \/ scope.conversation = NoOne)

\* Every disjunct is a grant; what a scope leaves out it does not see.
VisibleTo(scope, row) ==
  \/ row.visibility = "STUDENT_PRIVATE" /\ row.subject = scope.subject
  \/ row.visibility = "GLOBAL_CURATED" /\ scope.includeGlobal
  \/ row.visibility = "TUTOR" /\ row.tutor = scope.tutor /\ scope.tutor # NoOne
  \/ row.visibility = "COURSE" /\ row.course \in scope.courses
  \/ row.visibility = "CONVERSATION" /\ row.conversation = scope.conversation /\ scope.conversation # NoOne

\* Of rows that tie the database may choose any; here the older one is first.
Older(a, b) == a.source < b.source \/ (a.source = b.source /\ a.ordinal < b.ordinal)

\* The k best of rows, best first.
Best(rows, Better(_, _), k) ==
  LET ahead(r) == {q \in rows : Better(q, r) \/ (~Better(r, q) /\ Older(q, r))} IN
  [i \in 1 .. Min({k, Cardinality(rows)}) |-> CHOOSE r \in rows : Cardinality(ahead(r)) = i - 1]

Ranked(rows, Score(_), k) == Best(rows, LAMBDA a, b : Score(a) > Score(b), k)

KeywordSearch(rows, query, k) ==
  Ranked({r \in rows : query.lexical[r.passage[1]] > 0}, LAMBDA r : query.lexical[r.passage[1]], k)

\* Vectors of another model are not compared.
SimilaritySearch(rows, query, model, k) ==
  Ranked({r \in rows : r.model = model}, LAMBDA r : query.close[r.passage[1]], k)

RrfK == 60

PositionIn(ranking, row) == SelectInSeq(ranking, LAMBDA r : r = row)

\* The sum of 1 / (60 + rank) over the rankings a row is in, as a fraction.
FusedScore(row, left, right) ==
  LET i == RrfK + PositionIn(left, row)
      j == RrfK + PositionIn(right, row)
  IN  CASE i = RrfK -> <<1, j>>
        [] j = RrfK -> <<1, i>>
        [] OTHER    -> <<i + j, i * j>>

\* Scores of two searches cannot be compared; ranks can.
ReciprocalRankFusion(left, right, limit) ==
  LET score == [r \in ToSet(left) \cup ToSet(right) |-> FusedScore(r, left, right)]
      more(a, b) == score[a][1] * score[b][2] > score[b][1] * score[a][2]
  IN  Best(DOMAIN score, more, limit)
-----------------------------------------------------------------------------
(* What fits in a prompt.  Shares are ceilings in hundredths, not           *)
(* reservations; sizes are tokens.                                          *)

Caps == [persona |-> 15, evidence |-> 35, turns |-> 30, summary |-> 10, memories |-> 8]

CapTokens(total, section) == (total * Caps[section]) \div 100

SnippetChars     == 400
CitationOverhead == 12

\* Whole units while they fit; one that does not is passed over.
KeptWhole(costs, cap) ==
  LET kept[n \in 0 .. Len(costs)] ==
        IF n = 0 THEN [units |-> <<>>, used |-> 0]
        ELSE LET before == kept[n - 1] IN
             IF before.used + costs[n] <= cap
             THEN [units |-> Append(before.units, n), used |-> before.used + costs[n]] ELSE before
  IN  kept[Len(costs)]

\* A section that is there or not.
KeptOrNot(cost, cap) == IF cost > 0 /\ cost <= cap THEN cost ELSE 0

\* Mutant: a section is not held to what is left.
RoomUnbounded(total, section, left) == CapTokens(total, section)

Room(total, section, left) == Min({CapTokens(total, section), left})

\* Safety rules and the question come first and are never dropped.  Passages
\* are given best first, turns oldest first; both are costs.
Allocate(total, fixed, want) ==
  LET left0    == total - fixed
      persona  == KeptOrNot(want.persona, Room(total, "persona", left0))
      left1    == left0 - persona
      evidence == KeptWhole(want.evidence, Room(total, "evidence", left1))
      left2    == left1 - evidence.used
      turns    == KeptWhole(Reverse(want.turns), Room(total, "turns", left2))
      left3    == left2 - turns.used
      summary  == KeptOrNot(want.summary, Room(total, "summary", left3))
      left4    == left3 - summary
      memories == KeptWhole(want.memories, Room(total, "memories", left4))
  IN  IF left0 < 0
      THEN [used |-> fixed, persona |-> 0, evidence |-> <<>>, turns |-> <<>>, summary |-> 0, memories |-> <<>>]
      ELSE [used |-> total - (left4 - memories.used), persona |-> persona, evidence |-> evidence.units,
            turns |-> turns.units, summary |-> summary, memories |-> memories.units]

SnippetCost(chars) == EstimateTokens(Min({chars, SnippetChars})) + CitationOverhead
=============================================================================
