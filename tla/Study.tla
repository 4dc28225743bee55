-------------------------------- MODULE Study --------------------------------
(***************************************************************************)
(* The learning engine over its tables (repositories/learning.py,           *)
(* services/memory.py, learning/homework.py): the flashcards, papers,       *)
(* homework, memories and counters of one student, the answers it hands     *)
(* out, and beside it the knowledge base and the student's files.           *)
(*                                                                          *)
(* Nothing in src/ calls the learning engine or the knowledge base yet;     *)
(* their integration tests do, one transaction per call.  Two sessions of   *)
(* the student are modelled, and a session that has read a row may write it *)
(* after the other one did: no read takes a lock.  The desks share no       *)
(* table, so a behaviour stays at one of them.                              *)
(***************************************************************************)
EXTENDS Revision, Grading, Twins, Writing, Knowledge, Files

CONSTANTS
  Desks,        \* the desks to sit at
  Sessions,     \* concurrent sessions of the student
  Cards,        \* flashcards, named by their content
  FirstCards,   \* schedules an old card may have
  Paper,        \* the questions of the paper
  Submissions,  \* sequences of responses a student may hand in
  Replies,      \* replies of the grading model
  Topics,       \* topics attempts are counted under
  Candidates,   \* memories a turn may suggest: [statement, confidence, days, personal]
  Sheets,       \* exercises for the last desk
  Days,         \* bound on the days that pass
  MaxSteps      \* bound on the writes at each desk

ASSUME StudyAssumption ==
  /\ Desks \subseteq {"cards", "papers", "homework", "memory", "progress", "answers", "library", "files"}
  /\ Days \in Nat /\ (\A d \in Desks : MaxSteps[d] \in Nat)

\* uq_question_number and ck_question_marks; a line of a reply that is not a
\* number and a decimal without a sign is skipped (_RUBRIC_LINE).
ASSUME PaperAssumption ==
  /\ IsFiniteSet(Paper)
  /\ \A q \in Paper : q.marks \in Nat /\ (\A p \in Paper : p.number = q.number => p = q)
  /\ Replies \subseteq Seq([number : Nat, marks : Nat])

VARIABLES
  desk, today, steps,
  held,      \* what a session has read and not yet written
  cards,     \* card -> its schedule (flashcards)
  reviews,   \* the review log (flashcard_reviews)
  attempt,   \* the attempt at the paper (assessment_attempts)
  answers,   \* its marked responses (attempt_responses)
  tasks,     \* rows of homework_tasks of the conversation
  memory,    \* statement -> its row (student_memories)
  stats,     \* topic -> its counters (topic_stats)
  shown      \* what the student was given last

clock      == <<desk, today, steps>>
cardRows   == <<cards, reviews>>
paperRows  == <<attempt, answers>>
memoryRows == <<memory, stats>>
studyVars  == <<clock, held, cardRows, paperRows, tasks, memoryRows, shown>>
vars == <<studyVars, libraryVars, fileVars>>

Nothing == [kind |-> "nothing"]

IsASequence(s) == s \in Seq(ToSet(s))

Holds(s, row) == held' = [held EXCEPT ![s] = {row}]
Drops(s)      == held' = [held EXCEPT ![s] = {}]
Idle(s)       == held[s] = {}

\* A write: the bounded counter moves, the desk and the day stay.
Writes(d) == desk = d /\ steps < MaxSteps[d] /\ steps' = steps + 1 /\ UNCHANGED <<desk, today>>

NextDay ==
  /\ desk \in {"cards", "memory"}
  /\ today < Days
  /\ today' = today + 1
  /\ UNCHANGED <<desk, steps, held, cardRows, paperRows, tasks, memoryRows, shown, libraryVars, fileVars>>
-----------------------------------------------------------------------------
(* Flashcards.                                                              *)

\* Mutant: a regenerated card is written again.
AddedCardAnew(c) == NewCard

\* A card is known by its content: regenerating a deck leaves it alone.
AddedCard(c) == IF c \in DOMAIN cards THEN cards[c] ELSE NewCard

AddCards(new) ==
  /\ desk = "cards"
  /\ cards' = [c \in DOMAIN cards \cup new |-> IF c \in new THEN AddedCard(c) ELSE cards[c]]
  /\ UNCHANGED <<clock, held, reviews, paperRows, tasks, memoryRows, shown, libraryVars, fileVars>>

\* The queue a student is given: most overdue first, then what lapsed more.
DueCards(limit) ==
  LET due == SetToSortSeq({c \in DOMAIN cards : IsDue(cards[c], today)},
                          LAMBDA c, d : MoreUrgent(cards[c], cards[d]))
  IN  SubSeq(due, 1, Smaller(limit, Len(due)))

LoadSchedule(s) ==
  /\ desk = "cards" /\ Idle(s)
  /\ \E c \in DOMAIN cards \cap ToSet(DueCards(2)) : Holds(s, [card |-> c, schedule |-> cards[c]])
  /\ UNCHANGED <<clock, cardRows, paperRows, tasks, memoryRows, shown, libraryVars, fileVars>>

ReviewRow(c, g, schedule) ==
  [card |-> c, grade |-> g, interval |-> schedule.interval, ease |-> schedule.ease, due |-> schedule.due]

\* The new schedule and its review are written together.
ApplySchedule(s, g) ==
  /\ Writes("cards")
  /\ \E h \in held[s] :
       LET schedule == ScheduleReview(h.schedule, g, today) IN
       /\ cards' = [cards EXCEPT ![h.card] = schedule]
       /\ reviews' = Append(reviews, ReviewRow(h.card, g, schedule))
  /\ Drops(s)
  /\ UNCHANGED <<paperRows, tasks, memoryRows, shown, libraryVars, fileVars>>
-----------------------------------------------------------------------------
(* Papers: one attempt, which two sessions may mark.                        *)

NoAttempt == [state |-> "none", awarded |-> 0, possible |-> 0, review |-> FALSE, calls |-> 0]

StartAttempt ==
  /\ desk = "papers" /\ attempt = NoAttempt
  /\ attempt' = [NoAttempt EXCEPT !.state = "ASSIGNED", !.possible = Total(Paper, "marks")]
  /\ UNCHANGED <<clock, held, cardRows, answers, tasks, memoryRows, shown, libraryVars, fileVars>>

\* The key is read and what code can grade is graded.
LoadAnswerKey(s, responses) ==
  /\ desk = "papers" /\ Idle(s) /\ attempt # NoAttempt
  /\ Holds(s, PlanGrading(Paper, responses))
  /\ UNCHANGED <<clock, cardRows, paperRows, tasks, memoryRows, shown, libraryVars, fileVars>>

\* Mutant: the constraint is not there.
UnmarkedAlways(graded) == TRUE

\* uq_response_attempt_question: an answer is marked once.
Unmarked(graded) == \A g \in graded, a \in answers : g.number # a.number

\* The model is asked only when something is pending; a second marking of the
\* attempt violates the constraint and rolls back whole.
RecordGrades(s, reply) ==
  /\ Writes("papers")
  /\ \E plan \in held[s] :
       \E report \in AssembleReport(plan, reply) :
       /\ plan.pending = {} => reply = <<>>
       /\ IF Unmarked(report.graded)
          THEN /\ answers' = answers \cup report.graded
               /\ attempt' = [state |-> "GRADED", awarded |-> report.awarded, possible |-> report.possible,
                              review |-> report.review, calls |-> report.calls]
          ELSE UNCHANGED paperRows
  /\ Drops(s)
  /\ UNCHANGED <<cardRows, tasks, memoryRows, shown, libraryVars, fileVars>>
-----------------------------------------------------------------------------
(* Homework: the live task of a conversation.  "One task at a time" is kept *)
(* by save_task's own read; no constraint keeps two rows out.               *)

Stages == <<"POSED", "HINTED", "SOLVED", "CHECKED", "CLOSED">>
StageNo(stage) == CHOOSE i \in DOMAIN Stages : Stages[i] = stage

StageOf == [HINT |-> "HINTED", FULL_SOLUTION |-> "SOLVED", CHECK_MY_ANSWER |-> "CHECKED",
            ANALYSE_MISTAKE |-> "CHECKED"]

HomeworkActions == DOMAIN StageOf \cup {"EXPLAIN_STEP"}

\* A stage never moves backwards: the solution is still on the screen.
Advanced(stage, action) ==
  IF action \in DOMAIN StageOf /\ StageNo(StageOf[action]) > StageNo(stage) THEN StageOf[action] ELSE stage

\* The caller puts the steps of a solution in the task it saves.
ApplyAction(work, action) ==
  [stage |-> Advanced(work.stage, action), hints |-> work.hints + (IF action = "HINT" THEN 1 ELSE 0),
   solved |-> work.solved \/ action = "FULL_SOLUTION"]

FreshTask == [stage |-> "POSED", hints |-> 0, solved |-> FALSE]

\* Every read of the conversation's task, which a second row makes fail.
Reads(rows) == Cardinality(rows) <= 1

LoadTask(s) ==
  /\ desk = "homework" /\ Idle(s) /\ Reads(tasks)
  /\ \E action \in HomeworkActions :
       Holds(s, [pc |-> "loaded", read |-> {},
                 work |-> ApplyAction(IF tasks = {} THEN FreshTask ELSE (CHOOSE t \in tasks : TRUE).work, action)])
  /\ UNCHANGED <<clock, cardRows, paperRows, tasks, memoryRows, shown, libraryVars, fileVars>>

SaveTaskReads(s) ==
  /\ desk = "homework"
  /\ \E h \in held[s] :
       /\ h.pc = "loaded"
       /\ IF Reads(tasks) THEN Holds(s, [h EXCEPT !.pc = "read", !.read = tasks]) ELSE Drops(s)
  /\ UNCHANGED <<clock, cardRows, paperRows, tasks, memoryRows, shown, libraryVars, fileVars>>

\* The columns the save changes are written, the others left to the row.
Merged(work, read, now) == [f \in DOMAIN work |-> IF work[f] = read[f] THEN now[f] ELSE work[f]]

\* A row that was read is updated; with none, one is inserted.
TasksAfter(s, h) ==
  IF h.read = {} THEN tasks \cup {[id |-> s, work |-> h.work]}
  ELSE {IF t.id = r.id THEN [t EXCEPT !.work = Merged(h.work, r.work, t.work)] ELSE t : t \in tasks, r \in h.read}

SaveTaskWrites(s) ==
  /\ Writes("homework")
  /\ \E h \in held[s] : h.pc = "read" /\ tasks' = TasksAfter(s, h)
  /\ Drops(s)
  /\ UNCHANGED <<cardRows, paperRows, memoryRows, shown, libraryVars, fileVars>>
-----------------------------------------------------------------------------
(* Memories and counters.                                                   *)

Durable == 0
Forever == -1

MisconceptionThreshold == 2

Confidences == {"LOW", "MEDIUM", "HIGH"}

\* A misconception is earned by repetition.
MisconceptionCandidate(statement, observed) ==
  IF observed < MisconceptionThreshold THEN {}
  ELSE {[statement |-> statement, confidence |-> IF observed >= 3 THEN "HIGH" ELSE "MEDIUM",
         days |-> Durable, personal |-> FALSE]}

Remembered(c) ==
  LET expires == IF c.days = Durable THEN Forever ELSE today + c.days IN
  IF c.statement \in DOMAIN memory
  THEN [memory[c.statement] EXCEPT !.count = @ + 1, !.expires = expires,
          !.confidence = IF c.confidence = "HIGH" THEN "HIGH" ELSE @]
  ELSE [count |-> 1, expires |-> expires, confidence |-> c.confidence, superseded |-> FALSE]

\* A statement seen again is reinforced; personal data is not stored.
StoreCandidates(suggested) ==
  /\ Writes("memory")
  /\ \E c \in suggested :
       memory' = IF c.personal THEN memory
                 ELSE [st \in DOMAIN memory \cup {c.statement} |->
                         IF st = c.statement THEN Remembered(c) ELSE memory[st]]
  /\ UNCHANGED <<held, cardRows, paperRows, tasks, stats, shown, libraryVars, fileVars>>

Supersede(st) ==
  /\ desk = "memory" /\ st \in DOMAIN memory
  /\ memory' = [memory EXCEPT ![st].superseded = TRUE]
  /\ UNCHANGED <<clock, held, cardRows, paperRows, tasks, stats, shown, libraryVars, fileVars>>

\* One upsert, counted in the database.
RecordAttempt(t, correct) ==
  /\ Writes("progress")
  /\ stats' = [stats EXCEPT ![t] = [attempts |-> @.attempts + 1, correct |-> @.correct + (IF correct THEN 1 ELSE 0)]]
  /\ UNCHANGED <<held, cardRows, paperRows, tasks, memory, shown, libraryVars, fileVars>>

\* Struggling before developing, then more evidence first.
\* Topics that tie are in any order: the snapshot is the caller's.
WeakTopics(limit) ==
  LET band(t) == Signal(stats[t])
      before(t, u) == \/ band(t) = "STRUGGLING" /\ band(u) = "DEVELOPING"
                      \/ band(t) = band(u) /\ stats[t].attempts > stats[u].attempts
      sorted == {s \in SetToSeqs({t \in Topics : band(t) \in WeakBands}) :
                   \A j \in DOMAIN s : \A i \in 1 .. j - 1 : ~before(s[j], s[i])}
  IN  {SubSeq(s, 1, Smaller(limit, Len(s))) : s \in sorted}

\* What is said of a student: nothing, too little, or secure and weak topics.
DescribeProgress(weak) ==
  LET ready == {t \in Topics : Signal(stats[t]) # "INSUFFICIENT_EVIDENCE"} IN
  [kind |-> "progress", ready |-> ready, weak |-> weak,
   secure |-> {t \in ready : Signal(stats[t]) = "SECURE"}]

AskProgress ==
  /\ desk = "progress"
  /\ \E weak \in WeakTopics(3) : shown' = DescribeProgress(weak)
  /\ UNCHANGED <<clock, held, cardRows, paperRows, tasks, memoryRows, libraryVars, fileVars>>
-----------------------------------------------------------------------------
(* Answers: computed from a sheet and kept nowhere, so that one exercise to *)
(* a behaviour is enough.                                                   *)

Exercises == {"twins", "parse", "check", "calculate", "notes", "essay", "mock", "split", "prompt", "file"}

Outcome(sheet) ==
  CASE sheet.kind = "twins" ->
         [kind |-> "twins", sheet |-> sheet, one |-> GenerateTwin(sheet.problem),
          batch |-> GenerateBatch(sheet.problem, sheet.count, sheet.most)]
    [] sheet.kind = "parse" ->
         [kind |-> "parse", sheet |-> sheet, parsed |-> ParseQuadratic(sheet.b, sheet.c)]
    [] sheet.kind = "check" ->
         [kind |-> "check", sheet |-> sheet, verdict |-> VerifyAnswer(sheet.answer, sheet.problem)]
    [] sheet.kind = "calculate" ->
         [kind |-> "calculate", sheet |-> sheet, computed |-> Computed(sheet.expression)]
    [] sheet.kind = "notes" ->
         [kind |-> "notes", sheet |-> sheet, notes |-> ParseNotes(sheet.reply, sheet.evidence, sheet.most)]
    [] sheet.kind = "essay" ->
         [kind |-> "essay", sheet |-> sheet, feedback |-> ParseFeedback(sheet.reply, sheet.essay, sheet.rubric)]
    [] sheet.kind = "mock" ->
         [kind |-> "mock", sheet |-> sheet, paper |-> BuildBlueprint(sheet.minutes, sheet.count, Limits(sheet.plan))]
    [] sheet.kind = "split" ->
         [kind |-> "split", sheet |-> sheet, parts |-> SplitOversized(sheet.paragraphs),
          kept |-> LongEnough(SplitOversized(sheet.paragraphs))]
    [] sheet.kind = "prompt" ->
         [kind |-> "prompt", sheet |-> sheet, plan |-> Allocate(sheet.total, sheet.fixed, sheet.want)]
    [] sheet.kind = "file" ->
         [kind |-> "file", sheet |-> sheet, result |-> ReadFile(sheet.file, sheet.brief, sheet.env, sheet.cached)]

LinearProblem(t)    == t \in [kind : {"linear"}, a : Int \ {0}, b : Int, c : Int]
QuadraticProblem(t) == t \in [kind : {"quadratic"}, low : Int, high : Int] /\ t.low <= t.high

\* What the callers hand in: a problem as parse_template makes it and a batch
\* of no more than the attempts (nobody overrides the default of five), claims that
\* are not blank (_items), sentences that are not empty, a prompt and a paper
\* of natural sizes, an image of one page without a text layer.
SheetOK(sheet) ==
  /\ sheet.kind \in Exercises
  /\ CASE sheet.kind = "twins" ->
            /\ LinearProblem(sheet.problem) \/ QuadraticProblem(sheet.problem)
            /\ sheet.count \in Int /\ sheet.most \in 1 .. MaxRegenerationAttempts
       [] sheet.kind = "parse"     -> sheet.b \in Int /\ sheet.c \in Int
       [] sheet.kind = "check"     ->
            /\ IsASequence(sheet.answer.said)
            /\ \A st \in ToSet(sheet.answer.said) : st.form = "assignment" => st.name # Nameless
       [] sheet.kind = "calculate" -> sheet.expression.exponents \cup sheet.expression.factorials \subseteq Seq(Int)
       [] sheet.kind = "notes"     ->
            IsASequence(sheet.evidence) /\ IsASequence(sheet.reply) /\ (\A section \in ToSet(sheet.reply) : {} \notin section.claims)
       [] sheet.kind = "essay"     ->
            /\ sheet.reply.rewrites \in Seq(Nat) /\ sheet.reply.grades \in Seq(Nat)
            /\ sheet.essay.chars \in Nat /\ sheet.rubric \in Nat
       [] sheet.kind = "mock"      -> sheet.minutes \in Nat /\ sheet.count \in Nat
       [] sheet.kind = "split"     -> sheet.paragraphs \in Seq(Seq(Nat \ {0}) \ {<<>>}) \ {<<>>}
       [] sheet.kind = "prompt"    ->
            /\ sheet.total \in Nat /\ sheet.fixed \in Nat
            /\ sheet.want \in [persona : Nat, summary : Nat, turns : Seq(Nat), memories : Seq(Nat), evidence : Seq(Nat)]
       [] sheet.kind = "file"      ->
            /\ IsASequence(sheet.file.pages) /\ sheet.brief.matches \in Seq(Nat) /\ IsFiniteSet(sheet.brief.questions)
            /\ sheet.file.head = "image" => Len(sheet.file.pages) = 1 /\ ~HasText(sheet.file.pages[1])
            /\ \A page \in ToSet(sheet.file.pages) : IsASequence(page.passes)

ASSUME SheetsAssumption ==
  /\ \A sheet \in Sheets : SheetOK(sheet)
  /\ IsFiniteSet(Topics)

HandIn ==
  /\ desk = "answers" /\ shown.kind = "nothing"
  /\ \E sheet \in Sheets : shown' = Outcome(sheet)
  /\ UNCHANGED <<clock, held, cardRows, paperRows, tasks, memoryRows, libraryVars, fileVars>>
-----------------------------------------------------------------------------
Init ==
  /\ desk \in Desks
  /\ today = 0 /\ steps = 0
  /\ held = [s \in Sessions |-> {}]
  /\ cards \in IF desk = "cards" THEN UNION {[{c} -> FirstCards] : c \in Cards} ELSE {[c \in {} |-> NewCard]}
  /\ reviews = <<>>
  /\ attempt = NoAttempt /\ answers = {}
  /\ tasks = {}
  /\ memory = [st \in {} |-> Nothing]
  /\ stats = [t \in Topics |-> [attempts |-> 0, correct |-> 0]]
  /\ shown = Nothing
  /\ InitLibrary
  /\ InitFiles

Suggested == {{c} : c \in Candidates} \cup {MisconceptionCandidate("misconception", n) : n \in 1 .. 3}

Next ==
  \/ NextDay
  \/ \E c \in Cards : AddCards({c})
  \/ \E s \in Sessions : LoadSchedule(s) \/ (\E g \in Grades : ApplySchedule(s, g))
  \/ StartAttempt
  \/ \E s \in Sessions, responses \in Submissions : LoadAnswerKey(s, responses)
  \/ \E s \in Sessions, reply \in Replies : RecordGrades(s, reply)
  \/ \E s \in Sessions : LoadTask(s) \/ SaveTaskReads(s) \/ SaveTaskWrites(s)
  \/ \E suggested \in Suggested : StoreCandidates(suggested)
  \/ \E st \in DOMAIN memory : Supersede(st)
  \/ \E t \in Topics, correct \in BOOLEAN : RecordAttempt(t, correct)
  \/ AskProgress
  \/ HandIn
  \/ desk = "library" /\ Reading /\ UNCHANGED <<studyVars, fileVars>>
  \/ desk = "files" /\ Filing /\ UNCHANGED <<studyVars, libraryVars>>

Spec == Init /\ [][Next]_vars
-----------------------------------------------------------------------------
(* Properties.                                                              *)

Schedule ==
  [repetitions : Nat, interval : 0 .. MaxIntervalDays, ease : MinEase .. MaxEase,
   due : Nat \cup {Never}, lapses : Nat]

Work == [stage : ToSet(Stages), hints : Nat, solved : BOOLEAN]

\* A student comes with rows the constraints of their tables let in.
ASSUME RowsAssumption ==
  FirstCards \subseteq Schedule /\ (\A c \in Candidates : c.confidence \in Confidences)

\* The rows stay inside what the columns and their CHECKs allow: an ease that
\* left 1.3 .. 3.0 makes every later read of the card raise (CardSchedule).
TypeOK ==
  /\ today \in 0 .. Days /\ desk \in Desks /\ steps \in 0 .. MaxSteps[desk]
  /\ DOMAIN cards \subseteq Cards /\ \A c \in DOMAIN cards : cards[c] \in Schedule
  /\ \A t \in tasks : t.id \in Sessions /\ t.work \in Work
  /\ \A st \in DOMAIN memory : memory[st].confidence \in Confidences /\ memory[st].count > 0
  /\ \A t \in Topics : stats[t].correct \in 0 .. stats[t].attempts

\* "The columns are only a cache": with sessions that overwrite each other and
\* decks that are regenerated, a card that was reviewed still shows what the
\* last row of its log says (apply_schedule).
CardsFollowTheirLog ==
  \A c \in DOMAIN cards :
    LET last == SelectLastInSeq(reviews, LAMBDA r : r.card = c) IN
    last # 0 => reviews[last] = ReviewRow(c, reviews[last].grade, cards[c])

\* A marked attempt is the sum of its marked responses to within half a
\* hundredth, what rounding the total takes or adds; it has one response to a
\* question and is no more than the paper is worth, however often and by whom it
\* is marked and whatever decimals the model replies; the model was asked at most
\* once.
MarksAddUp ==
  attempt.state = "GRADED" =>
    /\ {a.number : a \in answers} = {q.number : q \in Paper}
    /\ Cardinality(answers) = Cardinality(Paper)
    /\ 2 * Absolute(attempt.awarded - Total(answers, "awarded")) <= Hundredth
    /\ attempt.possible = Total(Paper, "marks")
    /\ attempt.awarded <= Mark * attempt.possible
    /\ attempt.calls <= 1

\* Every problem of a known shape has the twins asked for, no two with one
\* answer and none with the original's; a problem solved in integers has twins
\* solved in integers, and what is called verified solves its equation.
TwinsArePractice ==
  shown.kind = "twins" =>
    LET t     == shown.sheet.problem
        twins == {shown.batch[i] : i \in DOMAIN shown.batch}
    IN  /\ Len(shown.batch) = Larger(1, Smaller(shown.sheet.count, shown.sheet.most))
        /\ \A u, v \in twins \cup {t} : u # v => ~SameAnswer(u, v)
        /\ t \notin twins
        /\ Integral(t) => \A u \in twins : Integral(u)
        /\ \A u \in twins, x \in UNION {Answer(v) : v \in twins} :
             x \in Answer(u) => Residual(Poly(u), x) = 0
        /\ shown.one # {} /\ \A g \in shown.one : g.verified

\* The roots of a quadratic that is recognised are its roots.
RecognisedHonestly ==
  shown.kind = "parse" =>
    \A t \in shown.parsed : Poly(t) = <<shown.sheet.c, shown.sheet.b, 1>>

VerifiedHonestly ==
  (shown.kind = "check" /\ shown.sheet.problem.unknown # "none" /\ shown.verdict = "VERIFIED"
     /\ shown.sheet.problem.expects = <<>> /\ shown.sheet.problem.form = Unreadable
     /\ shown.sheet.problem.unit = NoUnit) =>
    \E i \in DOMAIN shown.sheet.answer.said :
      LET st == shown.sheet.answer.said[i] IN
      /\ st.form = "final" \/ (st.form = "assignment" /\ st.name = shown.sheet.problem.unknown)
      /\ Residual(shown.sheet.problem.equation, <<st.value, 1>>) = 0

ComputedInBounds ==
  (shown.kind = "calculate" /\ shown.computed) =>
    \A x \in shown.sheet.expression.exponents \cup shown.sheet.expression.factorials :
      Absolute(FoldLeft(LAMBDA acc, n : acc * n, 1, x)) <= MaxExponent

CitedFromSupplied ==
  shown.kind = "notes" =>
    \A c \in shown.notes.sources :
      \E i \in DOMAIN shown.sheet.evidence,
         claim \in UNION {section.claims : section \in ToSet(shown.sheet.reply)} :
        LET e == shown.sheet.evidence[i] IN
        e.citation = c /\ (claim = c \/ (e.title # {} /\ e.title \subseteq claim))

WrittenByTheStudent ==
  shown.kind = "essay" =>
    /\ 4 * SumOf(shown.feedback.rewrites) <= Larger(480, shown.sheet.essay.chars) + 4 * Ellipsis
    /\ shown.sheet.rubric # 0 => \A m \in shown.feedback.marks : m <= shown.sheet.rubric

PapersFit ==
  shown.kind = "mock" =>
    LET paper == shown.paper IN
    /\ Total({[share |-> paper.mix[t], type |-> t] : t \in DOMAIN paper.mix}, "share") = paper.count
    /\ \A t \in DOMAIN paper.mix : paper.mix[t] >= 0
    /\ paper.count <= Limits(shown.sheet.plan).questions

WeakOnEvidence ==
  (shown.kind = "progress" /\ desk = "progress") =>
    \A i \in DOMAIN shown.weak : stats[shown.weak[i]].attempts >= MinAttemptsForSignal

\* Splitting loses only the white space between sentences; of the parts it makes,
\* those under the least size are left out of the index, and nothing else is.
PassagesAreWhole ==
  shown.kind = "split" =>
    LET written == SumOf(FlattenSeq(shown.sheet.paragraphs))
        dropped == Len(shown.parts) - Len(shown.kept)
    IN  /\ SumOf(shown.parts) \in written .. PieceChars(shown.sheet.paragraphs)
        /\ \A i \in DOMAIN shown.parts : EstimateTokens(shown.parts[i]) <= MaxTokens
        /\ written - SumOf(shown.kept) <= MaxFragment * dropped

PromptsFit ==
  shown.kind = "prompt" =>
    LET plan == shown.plan
        want == shown.sheet.want
        cost == [persona  |-> plan.persona, summary |-> plan.summary,
                 evidence |-> SumOf([i \in DOMAIN plan.evidence |-> want.evidence[plan.evidence[i]]]),
                 turns    |-> SumOf([i \in DOMAIN plan.turns |-> Reverse(want.turns)[plan.turns[i]]]),
                 memories |-> SumOf([i \in DOMAIN plan.memories |-> want.memories[plan.memories[i]]])]
    IN  /\ plan.used = shown.sheet.fixed + cost.persona + cost.summary + cost.evidence + cost.turns + cost.memories
        /\ plan.used <= Larger(shown.sheet.fixed, shown.sheet.total)
        /\ \A section \in DOMAIN cost : cost[section] <= CapTokens(shown.sheet.total, section)

\* Nothing is paid for without leave, nor over the limits, nor for a page that
\* a free reader had or that the local reader, on its turn within its budget,
\* would have been sure of; what a student named is what is read, once and in order.
ReadFrugally ==
  shown.kind = "file" =>
    LET result == shown.result
        file   == shown.sheet.file
        brief  == shown.sheet.brief
        chosen == Selected(file.pages, brief)
        late   == {i \in DOMAIN chosen : ScansBefore(file.pages, chosen, i) >= MaxOcrPages}
        named  == ParseRequestedPages(file.pages, brief)
    IN  /\ Len(result.pages) <= MaxPagesProcessed /\ result.ocr <= MaxOcrPages
        /\ Cardinality(result.vision) <= MaxVisionPages
        /\ result.vision # {} => shown.sheet.env.permits /\ result.state # "REJECTED"
        /\ \A c \in shown.sheet.cached : c.page \notin result.vision
        /\ \A i \in 1 .. Len(result.pages) - 1 : result.pages[i].page < result.pages[i + 1].page
        /\ (file.head = "pdf" /\ named # <<>>) => \A i \in DOMAIN result.pages : result.pages[i].page \in ToSet(named)
        /\ (file.head # "audio" /\ shown.sheet.env.ocr) =>
             \A p \in result.vision :
               /\ ~HasText(file.pages[p])
               /\ \/ \E i \in late : chosen[i] = p
                  \/ ~Assess(ReadLocally(file.pages[p].passes), brief.math)

\* Of several readings of one picture, symbols are kept only when no pass read words.
ReadsWords ==
  shown.kind = "file" =>
    \A i \in DOMAIN shown.sheet.file.pages :
      LET passes == shown.sheet.file.pages[i].passes IN
      MostlySymbols(ReadLocally(passes)) =>
        \A j \in DOMAIN passes : passes[j].chars = 0 \/ MostlySymbols(passes[j])

\* What a student is told is earned: a verified answer has a claim about the
\* unknown that solves the equation, a cited source was supplied and named by
\* the model, an accepted expression computes within the bound, rewrites and
\* marks stay within theirs, a paper's parts make up the paper, a topic is weak
\* only after five attempts, a document is split without losing a word and into
\* parts within their ceiling, of which only those too short to index are left
\* out, a prompt within its budget and each section within its share, and a
\* file is read by the cheapest reader that can, within the limits.
OutputsAreEarned ==
  /\ ReadFrugally /\ ReadsWords
  /\ PassagesAreWhole /\ PromptsFit
  /\ VerifiedHonestly /\ ComputedInBounds /\ CitedFromSupplied /\ WrittenByTheStudent
  /\ PapersFit /\ WeakOnEvidence /\ RecognisedHonestly
=============================================================================
