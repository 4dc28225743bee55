------------------------------ MODULE Checking ------------------------------
(***************************************************************************)
(* Deterministic checks of an answer (learning/verification.py) and the     *)
(* comparison of two answers (learning/solver.py).                          *)
(*                                                                          *)
(* An expression is a polynomial <<c0, c1, c2>> in the unknown, or          *)
(* Unreadable: what safe_parse refuses.  A number is a fraction <<n, d>>;   *)
(* the code's float tolerance of 1e-6 is exact here.  A quantity is a       *)
(* number and a unit; relative tolerances are in per cent.                  *)
(***************************************************************************)
EXTENDS Integers, Sequences, FiniteSets, SequencesExt

Verdicts == {"VERIFIED", "REFUTED", "INCONCLUSIVE", "NOT_APPLICABLE"}
Decisive == {"VERIFIED", "REFUTED"}

Unreadable == <<>>

Absolute(n) == IF n < 0 THEN -n ELSE n

Decided(holds) == IF holds THEN "VERIFIED" ELSE "REFUTED"

\* Substitution: the residual of the equation "poly = 0" at x, times x[2]^2.
Residual(poly, x) == poly[1] * x[2] * x[2] + poly[2] * x[1] * x[2] + poly[3] * x[1] * x[1]

VerifyEquationSolution(poly, x) ==
  IF poly = Unreadable THEN "NOT_APPLICABLE" ELSE Decided(Residual(poly, x) = 0)

\* A difference that does not reduce is no proof of inequality.
VerifySymbolicEquivalence(p, q) ==
  IF Unreadable \in {p, q} THEN "NOT_APPLICABLE"
  ELSE IF p[2] # q[2] \/ p[3] # q[3] THEN "INCONCLUSIVE"
  ELSE Decided(p[1] = q[1])

VerifyNumeric(claimed, expected, percent) ==
  Decided(100 * Absolute(claimed - expected) <= percent * Absolute(expected))

\* Units the registry knows, with their dimension and their size in it.
Units == [m |-> [dimension |-> "length", size |-> 100], cm |-> [dimension |-> "length", size |-> 1],
          s |-> [dimension |-> "time", size |-> 1]]
NoUnit == ""

CompareQuantities(left, right, percent) ==
  IF {left.unit, right.unit} \cap DOMAIN Units # {left.unit, right.unit} THEN "NOT_APPLICABLE"
  ELSE IF Units[left.unit].dimension # Units[right.unit].dimension THEN "REFUTED"
  ELSE LET a == left.value * Units[left.unit].size
           b == right.value * Units[right.unit].size
       IN  Decided(100 * Absolute(a - b) <= percent * Absolute(a))

VerifyDimensions(unit, expected) ==
  IF {unit, expected} \cap DOMAIN Units # {unit, expected} THEN "NOT_APPLICABLE"
  ELSE Decided(Units[unit].dimension = Units[expected].dimension)
-----------------------------------------------------------------------------
(* What is refused before it is parsed: SymPy computes while it parses.  An *)
(* exponent, and the argument of a factorial, is a product of numbers, or   *)
(* Symbolic when a name occurs in it.                                       *)

MaxExpressionChars == 500
MaxExponent  == 1000
MaxFactorial == 1000
Symbolic == <<>>

\* Mutant: only the first factor is read.
FoldNumberBare(product) == product[1]

\* The product, which stops growing once a factor passes the bound.
FoldNumber(product) ==
  FoldLeft(LAMBDA acc, n : IF Absolute(acc) > MaxExponent \/ Absolute(n) > MaxExponent
                           THEN MaxExponent + 1 ELSE acc * n, 1, product)

Refused(e) ==
  \/ e.chars > MaxExpressionChars \/ e.illegal \/ e.chained
  \/ \E x \in e.exponents : x # Symbolic /\ Absolute(FoldNumber(x)) > MaxExponent
  \/ \E x \in e.factorials : x = Symbolic \/ Absolute(FoldNumber(x)) > MaxFactorial

\* The calculator: a closed form that is not refused.
Computed(e) == ~Refused(e) /\ ~e.symbols
-----------------------------------------------------------------------------
(* An answer is a sequence of statements: "x = 3" (an assignment), "the     *)
(* answer is 3 m" (a final number) or a number met in passing.              *)

Nameless == "nameless"

Claim(st) == [name |-> IF st.form = "assignment" THEN st.name ELSE Nameless, value |-> st.value,
              unit |-> IF st.form = "final" THEN st.unit ELSE NoUnit]

\* The members of a sequence that are in a set, in their order.
Those(seq, set) == FoldLeft(LAMBDA kept, x : IF x \in set THEN Append(kept, x) ELSE kept, <<>>, seq)

Said(answer, form) == Those(answer, {st \in ToSet(answer) : st.form = form})

\* Assignments first, then flagged finals; a number met in passing is no claim.
ExtractClaims(answer) ==
  LET claimed == Said(answer, "assignment") \o Said(answer, "final") IN
  [i \in DOMAIN claimed |-> Claim(claimed[i])]

\* Mutant: a claim about any name is taken for the unknown.
AboutAnything(c, problem) == TRUE

\* The claims that may be about the problem's unknown.
AboutUnknown(c, problem) == c.name \in {problem.unknown, Nameless}

\* The first verdict in a sequence that satisfies the test, or what follows.
FirstOf(verdicts, Test(_), otherwise) ==
  LET hit == SelectInSeq(verdicts, Test) IN IF hit = 0 THEN otherwise ELSE verdicts[hit]

Substituted(claims, problem) ==
  LET about == Those(claims, {c \in ToSet(claims) : AboutUnknown(c, problem)}) IN
  [i \in DOMAIN about |-> VerifyEquationSolution(problem.equation, <<about[i].value, 1>>)]

\* Anything a problem does not give is "none", an absent value, or no unit.
WithoutEquation(answer, claims, problem) ==
  CASE problem.expects # <<>> /\ claims # <<>> -> VerifyNumeric(claims[1].value, problem.expects[1], 1)
    [] problem.form # Unreadable -> VerifySymbolicEquivalence(answer.form, problem.form)
    [] OTHER -> LET measured == SelectInSeq(claims, LAMBDA c : c.unit # NoUnit) IN
                IF problem.unit # NoUnit /\ measured # 0
                THEN VerifyDimensions(claims[measured].unit, problem.unit) ELSE "NOT_APPLICABLE"

\* Strongest first: substitution, then value, then form, then dimension.
VerifyAnswer(answer, problem) ==
  LET claims == ExtractClaims(answer.said)
      rest   == WithoutEquation(answer, claims, problem)
  IN  IF problem.unknown = "none" THEN rest
      ELSE FirstOf(Substituted(claims, problem), LAMBDA v : v \in Decisive, rest)
=============================================================================
