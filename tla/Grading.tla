------------------------------- MODULE Grading -------------------------------
(***************************************************************************)
(* Papers and their marking (learning/assessment.py).  An answer and a key  *)
(* are integers: the number of an option, 0 or 1 for a truth value, a       *)
(* quantity, or the number of a text.  A question is worth whole marks; the *)
(* marks a row was awarded are decimals, counted in parts of a hundredth.   *)
(***************************************************************************)
EXTENDS Checking

\* The parts of a hundredth of a mark that the decimals of a reply tell apart.
CONSTANT Hundredth

ASSUME HundredthAssumption == Hundredth \in Nat \ {0}

Mark == 100 * Hundredth

Objective     == {"MCQ", "TRUE_FALSE", "NUMERIC"}
QuestionTypes == Objective \cup {"SHORT_ANSWER", "STRUCTURED"}

\* No key, or no answer.
Missing == -1

Graded(spec, awarded, correct, by, review) ==
  [number |-> spec.number, awarded |-> awarded, possible |-> spec.marks, correct |-> correct,
   by |-> by, review |-> review]

Marked(spec, correct) == Graded(spec, IF correct THEN Mark * spec.marks ELSE 0, correct, "deterministic", FALSE)

GradeChoice(spec, r) == Marked(spec, spec.key # Missing /\ r.answer = spec.key)

\* Quantities are compared, not strings; units nobody can read are for a human.
GradeNumeric(spec, r) ==
  LET verdict == IF NoUnit \in {spec.unit, r.unit} THEN VerifyNumeric(r.answer, spec.key, 1)
                 ELSE CompareQuantities([value |-> r.answer, unit |-> r.unit],
                                        [value |-> spec.key, unit |-> spec.unit], 1)
  IN  CASE Missing \in {spec.key, r.answer} -> Marked(spec, FALSE)
        [] OTHER -> IF verdict = "NOT_APPLICABLE" THEN Graded(spec, 0, FALSE, "deterministic", TRUE)
                    ELSE Marked(spec, verdict = "VERIFIED")

GradeObjective(spec, r) == IF spec.type = "NUMERIC" THEN GradeNumeric(spec, r) ELSE GradeChoice(spec, r)

ExactMatch(spec, r) == Missing \notin {spec.key, r.answer} /\ spec.key = r.answer

\* The last response of that number.
ResponseTo(spec, responses) == SelectLastInSeq(responses, LAMBDA r : r.number = spec.number)

NeedsModel(spec, responses) ==
  LET i == ResponseTo(spec, responses) IN
  i # 0 /\ spec.type \notin Objective /\ ~ExactMatch(spec, responses[i])

\* What code can grade is graded before anything is spent.
GradeFreely(spec, responses) ==
  LET i == ResponseTo(spec, responses) IN
  IF i = 0 THEN Marked(spec, FALSE)
  ELSE IF spec.type \in Objective THEN GradeObjective(spec, responses[i])
  ELSE Marked(spec, TRUE)

PlanGrading(specs, responses) ==
  [deterministic |-> {GradeFreely(q, responses) : q \in {p \in specs : ~NeedsModel(p, responses)}},
   pending       |-> {q \in specs : NeedsModel(q, responses)}]

\* One batched call, or none.
ModelCallsRequired(plan) == IF plan.pending = {} THEN 0 ELSE 1

\* Mutant: marks are taken as given.
GradeByLineUncut(spec, reply) ==
  LET i == SelectLastInSeq(reply, LAMBDA line : line.number = spec.number)
  IN  IF i = 0 THEN Graded(spec, 0, FALSE, "model", TRUE)
      ELSE Graded(spec, reply[i].marks, reply[i].marks >= Mark * spec.marks, "model", FALSE)

\* A line of the grader's reply; the last line on a question counts, marks
\* beyond the question are cut, and a question it skipped is for a human.
GradeByLine(spec, reply) ==
  LET i == SelectLastInSeq(reply, LAMBDA line : line.number = spec.number)
      given == reply[i].marks
      most  == Mark * spec.marks
      kept  == IF given > most THEN most ELSE given
  IN  IF i = 0 THEN Graded(spec, 0, FALSE, "model", TRUE)
      ELSE Graded(spec, kept, kept >= most, "model", kept # given)

ParseRubricResponse(reply, pending) == {GradeByLine(q, reply) : q \in pending}

Total(rows, field) == SumFunction([row \in rows |-> row[field]])

\* What round(n, 2) may give: the nearest hundredth, and either one of a tie,
\* which the binary form of the decimals decides.
ToHundredths(n) ==
  {t \in {Hundredth * (n \div Hundredth), Hundredth * (n \div Hundredth) + Hundredth} :
     2 * Absolute(t - n) <= Hundredth}

\* The reports that may be assembled: the total is rounded, its rows are not.
AssembleReport(plan, reply) ==
  LET graded == plan.deterministic \cup ParseRubricResponse(reply, plan.pending) IN
  {[graded |-> graded, awarded |-> total, possible |-> Total(graded, "possible"),
    review |-> \E g \in graded : g.review, calls |-> ModelCallsRequired(plan)] :
     total \in ToHundredths(Total(graded, "awarded"))}
-----------------------------------------------------------------------------
(* The shape of a mock paper.                                               *)

Limits(plan) == IF plan = "PRO" THEN [questions |-> 50, minutes |-> 180] ELSE [questions |-> 10, minutes |-> 30]

\* Shares in per cent; the last type takes the remainder.
Mix(minutes) ==
  IF minutes >= 45 THEN <<[type |-> "MCQ", share |-> 40], [type |-> "NUMERIC", share |-> 25],
                          [type |-> "SHORT_ANSWER", share |-> 20], [type |-> "STRUCTURED", share |-> 0]>>
  ELSE <<[type |-> "MCQ", share |-> 60], [type |-> "TRUE_FALSE", share |-> 20], [type |-> "NUMERIC", share |-> 0]>>

Smaller(m, n) == IF m < n THEN m ELSE n
Larger(m, n)  == IF m > n THEN m ELSE n

BuildBlueprint(duration, requested, limits) ==
  LET asked   == Larger(5, duration)
      minutes == Smaller(asked, limits.minutes)
      wanted  == IF requested = 0 THEN Larger(3, minutes \div 2) ELSE requested
      count   == Smaller(wanted, limits.questions)
      mix     == Mix(minutes)
      part(i) == (count * mix[i].share) \div 100
      rest    == count - SumFunction([i \in DOMAIN mix |-> part(i)])
  IN  [minutes |-> minutes, count |-> count, marks |-> minutes,
       mix |-> [t \in {mix[i].type : i \in DOMAIN mix} |->
                  LET i == CHOOSE k \in DOMAIN mix : mix[k].type = t IN
                  IF i = Len(mix) THEN rest ELSE part(i)],
       truncated |-> asked > limits.minutes \/ wanted > limits.questions]
=============================================================================
