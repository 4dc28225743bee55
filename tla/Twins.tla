------------------------------- MODULE Twins -------------------------------
(***************************************************************************)
(* Parallel problems (learning/twin.py): ax + b = c, and monic quadratics   *)
(* kept by their integer roots.  A template is a record; the text it is     *)
(* recognised in and rendered to is left out.  A root is a fraction.        *)
(***************************************************************************)
EXTENDS Checking

MaxRegenerationAttempts == 8

Offsets == <<1, 2, 3, -1, -2, 4, 5, -3>>
Offset(attempt) == Offsets[1 + (attempt % Len(Offsets))]

Linear(a, b, c) == [kind |-> "linear", a |-> a, b |-> b, c |-> c]
Quadratic(low, high) == [kind |-> "quadratic", low |-> low, high |-> high]

\* The integer roots of x^2 + bx + c = 0, if it has them.
IntegerRoots(b, c) == {r \in -9 .. 9 : r * r + b * r + c = 0 /\ r * (-b - r) = c}

\* What parse_template makes of "x^2 + bx + c = 0" and of "ax + b = c".
ParseQuadratic(b, c) ==
  {Quadratic(r, -b - r) : r \in {q \in IntegerRoots(b, c) : q <= -b - q}}
ParseLinear(a, b, c) == IF a = 0 THEN {} ELSE {Linear(a, b, c)}

Poly(t) == IF t.kind = "linear" THEN <<t.b - t.c, t.a, 0>>
           ELSE <<t.low * t.high, -(t.low + t.high), 1>>

Sign(n) == IF n < 0 THEN -1 ELSE 1

Integral(t) == t.kind = "quadratic" \/ Absolute(t.c - t.b) % Absolute(t.a) = 0

\* The answer as a set of numbers, each in a common denominator.
Answer(t) == IF t.kind = "linear" THEN {<<t.c - t.b, t.a>>} ELSE {<<t.low, 1>>, <<t.high, 1>>}

SameNumber(x, y) == x[1] * y[2] = y[1] * x[2]

SameAnswer(t, u) ==
  /\ \A x \in Answer(t) : \E y \in Answer(u) : SameNumber(x, y)
  /\ \A y \in Answer(u) : \E x \in Answer(t) : SameNumber(x, y)

\* Mutant: b and c perturbed independently, as the code once did.
TwinLinearPerturbed(t, attempt) ==
  Linear(t.a, t.b + Offset(attempt), t.c + 2 * Offset(attempt))

\* The new root is chosen first and c computed from it.
TwinLinear(t, attempt) ==
  LET offset == Offset(attempt)
      b == t.b + offset
      root == ((Sign(t.a) * (t.c - t.b)) \div Absolute(t.a)) + offset
  IN  Linear(t.a, b, IF Integral(t) THEN t.a * root + b ELSE t.c + 2 * offset)

TwinQuadratic(t, attempt) ==
  LET low == t.low + Offset(attempt)
      gap == IF t.high - t.low < 1 THEN 1 ELSE t.high - t.low
  IN  Quadratic(low, low + gap + (attempt % 2))

Candidate(t, attempt) ==
  IF t.kind = "linear" THEN TwinLinear(t, attempt) ELSE TwinQuadratic(t, attempt)

\* The identical-answer trap, and a repeated root: another method.
Usable(t, twin) ==
  /\ ~SameAnswer(t, twin)
  /\ twin.kind = "quadratic" => twin.low # twin.high

\* The twins of t in the order they are found, equal answers dropped.
Twins(t) ==
  FoldLeft(LAMBDA found, attempt :
             LET twin == Candidate(t, attempt) IN
             IF Usable(t, twin) /\ \A i \in DOMAIN found : ~SameAnswer(found[i], twin)
             THEN Append(found, twin) ELSE found,
           <<>>, [i \in 1 .. MaxRegenerationAttempts |-> i - 1])

\* A batch holds at least one twin and at most "most".
GenerateBatch(t, count, most) ==
  LET wanted == IF count > most THEN most ELSE IF count < 1 THEN 1 ELSE count
      twins  == Twins(t)
  IN  SubSeq(twins, 1, IF Len(twins) < wanted THEN Len(twins) ELSE wanted)

\* One twin is the first usable one, with its own answer checked.
GenerateTwin(t) ==
  LET twins == Twins(t) IN
  IF twins = <<>> THEN {}
  ELSE {[problem |-> twins[1],
         verified |-> \A x \in Answer(twins[1]) : VerifyEquationSolution(Poly(twins[1]), x) = "VERIFIED"]}
=============================================================================
