------------------------------ MODULE Revision ------------------------------
(***************************************************************************)
(* The arithmetic of revision (learning/practice.py, domain/learning.py):   *)
(* the SM-2 schedule of a flashcard and the bands a topic's counters may    *)
(* claim.  Ease factors are in hundredths, accuracy in thousandths, days    *)
(* are numbers.  Everything is a function of its arguments; nothing here    *)
(* asks a model.                                                            *)
(***************************************************************************)
EXTENDS Integers

Grades == {"AGAIN", "HARD", "GOOD", "EASY"}

MinEase     == 130
DefaultEase == 250
MaxEase     == 300
FirstIntervalDays  == 1
SecondIntervalDays == 6
MaxIntervalDays    == 365

\* No due date: the card was never reviewed.
Never == -1

NewCard == [repetitions |-> 0, interval |-> 0, ease |-> DefaultEase, due |-> Never, lapses |-> 0]

Quality == [AGAIN |-> 2, HARD |-> 3, GOOD |-> 4, EASY |-> 5]

Between(low, n, high) == IF n < low THEN low ELSE IF n > high THEN high ELSE n

\* n / d rounded as Python rounds: to the nearest, a half to the even one.
Nearest(n, d) ==
  LET q == n \div d
      r == 2 * (n % d)
  IN  IF r > d \/ (r = d /\ q % 2 = 1) THEN q + 1 ELSE q

\* Mutant: the ease has no ceiling.
EaseAfterUncapped(ease, g) ==
  LET miss == 5 - Quality[g] IN Between(MinEase, ease + 10 - miss * (8 + 2 * miss), ease + 10)

\* SM-2's ease update: EASY is rewarded, HARD penalised, GOOD left flat.
EaseAfter(ease, g) ==
  LET miss == 5 - Quality[g] IN Between(MinEase, ease + 10 - miss * (8 + 2 * miss), MaxEase)

IntervalAfter(card, ease) ==
  CASE card.repetitions = 0 -> FirstIntervalDays
    [] card.repetitions = 1 -> SecondIntervalDays
    [] OTHER -> Between(0, Nearest(card.interval * ease, 100), MaxIntervalDays)

\* A lapse restarts the ladder and keeps a reduced ease.
Lapsed(card, today) ==
  [repetitions |-> 0, interval |-> FirstIntervalDays,
   ease |-> Between(MinEase, card.ease - 20, MaxEase),
   due |-> today + FirstIntervalDays, lapses |-> card.lapses + 1]

Recalled(card, g, today) ==
  LET ease == EaseAfter(card.ease, g)
      days == IntervalAfter(card, ease)
  IN  [repetitions |-> card.repetitions + 1, interval |-> days, ease |-> ease,
       due |-> today + days, lapses |-> card.lapses]

ScheduleReview(card, g, today) ==
  IF Quality[g] < 3 THEN Lapsed(card, today) ELSE Recalled(card, g, today)

IsDue(card, today) == card.due = Never \/ card.due <= today

\* Most overdue first (a new card before all), then the card that lapsed more.
MoreUrgent(c, d) == c.due < d.due \/ (c.due = d.due /\ c.lapses > d.lapses)
-----------------------------------------------------------------------------
MinAttemptsForSignal == 5

Accuracy(stat) == Nearest(1000 * stat.correct, stat.attempts)

\* Below the evidence threshold there is no band.
Signal(stat) ==
  IF stat.attempts < MinAttemptsForSignal THEN "INSUFFICIENT_EVIDENCE"
  ELSE IF Accuracy(stat) < 500 THEN "STRUGGLING"
  ELSE IF Accuracy(stat) < 800 THEN "DEVELOPING"
  ELSE "SECURE"

WeakBands == {"STRUGGLING", "DEVELOPING"}
=============================================================================
