---------------------------------- MODULE Sums ----------------------------------
(***************************************************************************)
(* What the sum of a function over a finite set does, for the sums the      *)
(* specifications take: of costs over the rows of a ledger, of marks over   *)
(* responses.  A fact about all finite sets is proved of a smallest set     *)
(* that would refute it.                                                    *)
(***************************************************************************)
EXTENDS Integers, FiniteSets, Functions, FiniteSetTheorems, WellFoundedInduction, NaturalsInduction, TLAPS

\* A set of natural numbers has a least one.
LEMMA LeastNumber ==
  ASSUME NEW T \in SUBSET Nat, T # {}
  PROVE  \E x \in T : \A y \in T : x <= y
<1>1. PICK x \in T : \A y \in T : <<y, x>> \notin OpToRel(<, Nat)
  BY NatLessThanWellFounded, WFMin
<1>2. \A y \in T : ~(y < x)
  BY <1>1 DEF OpToRel
<1> QED BY <1>2

\* If any subset is bad, a smallest one is: less by any element, it is not.
LEMMA SmallestBad ==
  ASSUME NEW S, IsFiniteSet(S), NEW Bad \in SUBSET (SUBSET S), Bad # {}
  PROVE  \E s \in Bad : IsFiniteSet(s) /\ \A x \in s : s \ {x} \notin Bad
<1> DEFINE sizes == {Cardinality(s) : s \in Bad}
<1>1. \A s \in Bad : IsFiniteSet(s) /\ Cardinality(s) \in Nat
  BY FS_Subset, FS_CardinalityType
<1>2. PICK n \in sizes : \A m \in sizes : n <= m
  <2>1. sizes \in SUBSET Nat /\ sizes # {}
    BY <1>1
  <2> HIDE DEF sizes
  <2> QED BY <2>1, LeastNumber
<1>3. PICK s \in Bad : Cardinality(s) = n
  BY <1>2
<1>4. ASSUME NEW x \in s, s \ {x} \in Bad PROVE FALSE
  <2>1. Cardinality(s \ {x}) = Cardinality(s) - 1
    BY <1>1, <1>3, <1>4, FS_RemoveElement
  <2>2. n <= Cardinality(s \ {x})
    BY <1>2, <1>4
  <2> QED BY <1>1, <1>3, <2>1, <2>2
<1> QED BY <1>1, <1>3, <1>4

-----------------------------------------------------------------------------
(* The definition: an element is taken away at a time.                      *)

Taken(s) == CHOOSE x \in s : TRUE

\* sum gives the sum of f over every set in dom.
AddsUp(sum, f, dom) ==
  sum = [s \in dom |-> IF s = {} THEN 0 ELSE f[Taken(s)] + sum[s \ {Taken(s)}]]

LEMMA SumsDiffer ==
  ASSUME NEW S, IsFiniteSet(S), NEW dom \in SUBSET (SUBSET S), \A s \in dom : \A x \in s : s \ {x} \in dom,
         NEW sum, NEW other, NEW f, AddsUp(sum, f, dom), NEW rest, dom \subseteq rest, AddsUp(other, f, rest)
  PROVE  \A s \in dom : sum[s] = other[s]
<1> DEFINE Bad == {s \in dom : sum[s] # other[s]}
<1>1. SUFFICES ASSUME Bad # {} PROVE FALSE
  OBVIOUS
<1>2. PICK s \in Bad : \A x \in s : s \ {x} \notin Bad
  <2>1. Bad \in SUBSET (SUBSET S)
    OBVIOUS
  <2> HIDE DEF Bad
  <2> QED BY <1>1, <2>1, SmallestBad
<1>3. s # {} => Taken(s) \in s
  BY DEF Taken
<1>4. CASE s = {}
  BY <1>2, <1>4 DEF AddsUp
<1>5. CASE s # {}
  <2>1. PICK x : x = Taken(s)
    OBVIOUS
  <2>2. x \in s /\ s \ {x} \in dom /\ s \ {x} \in rest /\ sum[s \ {x}] = other[s \ {x}]
    BY <1>2, <1>3, <1>5, <2>1
  <2>3. sum[s] = f[x] + sum[s \ {x}] /\ other[s] = f[x] + other[s \ {x}]
    BY <1>2, <1>5, <2>1 DEF AddsUp
  <2> QED BY <1>2, <2>2, <2>3
<1> QED BY <1>4, <1>5

\* There is such a function: for the subsets of up to n elements, by the least
\* n without one.
LEMMA SumExists ==
  ASSUME NEW S, IsFiniteSet(S), NEW f
  PROVE  \E sum : AddsUp(sum, f, SUBSET S)
<1> DEFINE UpTo(n) == {s \in SUBSET S : Cardinality(s) <= n}
           without == {n \in Nat : ~\E sum : AddsUp(sum, f, UpTo(n))}
<1>1. \A s \in SUBSET S : IsFiniteSet(s) /\ Cardinality(s) \in Nat /\ Cardinality(s) <= Cardinality(S)
  BY FS_Subset, FS_CardinalityType
<1>2. without = {}
  <2> SUFFICES ASSUME without # {} PROVE FALSE
    OBVIOUS
  <2>1. PICK n \in without : \A m \in without : n <= m
    <3>1. without \in SUBSET Nat
      OBVIOUS
    <3> HIDE DEF without
    <3> QED BY <3>1, LeastNumber
  <2>2. CASE n = 0
    <3>1. \A s \in UpTo(0) : s = {}
      <4>1. ASSUME NEW s \in UpTo(0) PROVE s = {}
        <5>1. IsFiniteSet(s) /\ Cardinality(s) = 0
          BY <1>1
        <5> QED BY <5>1, FS_EmptySet
      <4> QED BY <4>1
    <3>2. AddsUp([s \in UpTo(0) |-> 0], f, UpTo(0))
      BY <3>1 DEF AddsUp
    <3> QED BY <2>1, <2>2, <3>2
  <2>3. CASE n # 0
    <3>0. n \in Nat
      OBVIOUS
    <3>1. n - 1 \in Nat /\ n - 1 \notin without
      <4> HIDE DEF without
      <4> QED BY <2>1, <2>3, <3>0
    <3>2. PICK sum : AddsUp(sum, f, UpTo(n - 1))
      BY <3>1
    <3> DEFINE more == [s \in UpTo(n) |-> IF s = {} THEN 0 ELSE f[Taken(s)] + sum[s \ {Taken(s)}]]
    <3>3. ASSUME NEW s \in UpTo(n - 1) PROVE s \in UpTo(n) /\ more[s] = sum[s]
      <4>1. s \in UpTo(n)
        BY <1>1, <3>1
      <4> HIDE DEF UpTo
      <4>2. sum[s] = IF s = {} THEN 0 ELSE f[Taken(s)] + sum[s \ {Taken(s)}]
        BY <3>2 DEF AddsUp
      <4> QED BY <4>1, <4>2
    <3>4. ASSUME NEW s \in UpTo(n), s # {} PROVE s \ {Taken(s)} \in UpTo(n - 1)
      <4>1. Taken(s) \in s
        BY <3>4 DEF Taken
      <4>2. Cardinality(s \ {Taken(s)}) = Cardinality(s) - 1
        BY <1>1, <4>1, FS_RemoveElement
      <4> QED BY <1>1, <3>1, <4>2
    <3>5. AddsUp(more, f, UpTo(n))
      <4> HIDE DEF UpTo
      <4>1. \A s \in UpTo(n) : more[s] = IF s = {} THEN 0 ELSE f[Taken(s)] + more[s \ {Taken(s)}]
        BY <3>3, <3>4
      <4>2. more = [s \in UpTo(n) |-> more[s]]
        OBVIOUS
      <4> HIDE DEF more
      <4> QED BY <4>1, <4>2 DEF AddsUp
    <3> QED BY <2>1, <3>5
  <2> QED BY <2>2, <2>3
<1>3. Cardinality(S) \in Nat /\ UpTo(Cardinality(S)) = SUBSET S
  BY <1>1
<1> QED BY <1>2, <1>3

\* SumFunctionOnSet takes one element away, and adds it to the rest.
LEMMA SumTakes ==
  ASSUME NEW S, IsFiniteSet(S), NEW f
  PROVE  /\ SumFunctionOnSet(f, {}) = 0
         /\ S # {} => SumFunctionOnSet(f, S) = f[Taken(S)] + SumFunctionOnSet(f, S \ {Taken(S)})
<1> DEFINE sum(T) == CHOOSE iter : AddsUp(iter, f, SUBSET T)
<1>1. \A T : SumFunctionOnSet(f, T) = sum(T)[T]
  BY DEF SumFunctionOnSet, FoldFunctionOnSet, MapThenFoldSet, AddsUp, Taken
<1>2. ASSUME NEW T \in SUBSET S PROVE AddsUp(sum(T), f, SUBSET T)
  <2>1. IsFiniteSet(T)
    BY FS_Subset
  <2>2. \E iter : AddsUp(iter, f, SUBSET T)
    BY <2>1, SumExists
  <2> QED BY <2>2
<1> HIDE DEF sum
<1>3. SumFunctionOnSet(f, {}) = 0
  BY <1>1, <1>2 DEF AddsUp
<1>4. ASSUME S # {} PROVE SumFunctionOnSet(f, S) = f[Taken(S)] + SumFunctionOnSet(f, S \ {Taken(S)})
  <2>1. PICK T : T = S \ {Taken(S)}
    OBVIOUS
  <2>2. AddsUp(sum(S), f, SUBSET S) /\ AddsUp(sum(T), f, SUBSET T)
    BY <1>2, <2>1
  <2>3. IsFiniteSet(T) /\ SUBSET T \subseteq SUBSET S
    BY <2>1, FS_Subset
  <2>4. sum(T)[T] = sum(S)[T]
    <3>1. \A s \in SUBSET T : \A x \in s : s \ {x} \in SUBSET T
      OBVIOUS
    <3> QED BY <2>2, <2>3, <3>1, SumsDiffer
  <2>5. sum(S)[S] = f[Taken(S)] + sum(S)[T]
    BY <1>4, <2>1, <2>2 DEF AddsUp
  <2> QED BY <1>1, <2>1, <2>4, <2>5
<1> QED BY <1>3, <1>4

-----------------------------------------------------------------------------
(* Sums of natural numbers.                                                 *)

LEMMA SumIsNat ==
  ASSUME NEW S, IsFiniteSet(S), NEW f, \A x \in S : f[x] \in Nat
  PROVE  SumFunctionOnSet(f, S) \in Nat
<1> DEFINE Bad == {s \in SUBSET S : SumFunctionOnSet(f, s) \notin Nat}
<1> SUFFICES ASSUME Bad # {} PROVE FALSE
  OBVIOUS
<1>1. PICK s \in Bad : IsFiniteSet(s) /\ \A x \in s : s \ {x} \notin Bad
  <2>1. Bad \in SUBSET (SUBSET S)
    OBVIOUS
  <2> HIDE DEF Bad
  <2> QED BY <2>1, SmallestBad
<1>2. s # {}
  <2>1. SumFunctionOnSet(f, {}) = 0
    BY SumTakes, FS_EmptySet
  <2> QED BY <2>1
<1>3. PICK x \in s : SumFunctionOnSet(f, s) = f[x] + SumFunctionOnSet(f, s \ {x})
  BY <1>1, <1>2, SumTakes DEF Taken
<1>4. SumFunctionOnSet(f, s \ {x}) \in Nat
  BY <1>1
<1> QED BY <1>3, <1>4

\* Any element may be taken first.
LEMMA SumLess ==
  ASSUME NEW S, IsFiniteSet(S), NEW f, \A x \in S : f[x] \in Nat, NEW y \in S
  PROVE  SumFunctionOnSet(f, S) = f[y] + SumFunctionOnSet(f, S \ {y})
<1> DEFINE Sum(s) == SumFunctionOnSet(f, s)
           Bad == {s \in SUBSET S : \E x \in s : Sum(s) # f[x] + Sum(s \ {x})}
<1> SUFFICES ASSUME Bad # {} PROVE FALSE
  OBVIOUS
<1>1. PICK s \in Bad : IsFiniteSet(s) /\ \A x \in s : s \ {x} \notin Bad
  <2>1. Bad \in SUBSET (SUBSET S)
    OBVIOUS
  <2> HIDE DEF Bad
  <2> QED BY <2>1, SmallestBad
<1>2. PICK x \in s : Sum(s) # f[x] + Sum(s \ {x})
  OBVIOUS
<1>3. PICK z \in s : z = Taken(s) /\ Sum(s) = f[z] + Sum(s \ {z})
  BY <1>1, <1>2, SumTakes DEF Taken
<1>4. x # z
  BY <1>2, <1>3
<1>5. /\ Sum(s \ {z}) = f[x] + Sum((s \ {z}) \ {x})
      /\ Sum(s \ {x}) = f[z] + Sum((s \ {x}) \ {z})
  <2>1. x \in s \ {z} /\ z \in s \ {x} /\ s \ {z} \in SUBSET S /\ s \ {x} \in SUBSET S
    BY <1>4
  <2> QED BY <1>1, <2>1
<1>6. (s \ {z}) \ {x} = (s \ {x}) \ {z}
  OBVIOUS
<1>7. Sum((s \ {x}) \ {z}) \in Nat /\ f[x] \in Nat /\ f[z] \in Nat
  <2>1. IsFiniteSet((s \ {x}) \ {z})
    BY <1>1, FS_Subset
  <2> QED BY <2>1, SumIsNat
<1>8. PICK rest : rest = (s \ {z}) \ {x} /\ rest = (s \ {x}) \ {z}
  BY <1>6
<1>9. /\ Sum(s \ {z}) = f[x] + Sum(rest) /\ Sum(s \ {x}) = f[z] + Sum(rest)
      /\ Sum(rest) \in Nat /\ f[x] \in Nat /\ f[z] \in Nat
  BY <1>5, <1>7, <1>8
<1> HIDE DEF Sum
<1> QED BY <1>2, <1>3, <1>9

\* The sum looks at its set only.
LEMMA SumAgrees ==
  ASSUME NEW S, IsFiniteSet(S), NEW f, NEW g, \A x \in S : f[x] = g[x]
  PROVE  SumFunctionOnSet(f, S) = SumFunctionOnSet(g, S)
<1> DEFINE Bad == {s \in SUBSET S : SumFunctionOnSet(f, s) # SumFunctionOnSet(g, s)}
<1> SUFFICES ASSUME Bad # {} PROVE FALSE
  OBVIOUS
<1>1. PICK s \in Bad : IsFiniteSet(s) /\ \A x \in s : s \ {x} \notin Bad
  <2>1. Bad \in SUBSET (SUBSET S)
    OBVIOUS
  <2> HIDE DEF Bad
  <2> QED BY <2>1, SmallestBad
<1>2. s # {}
  BY <1>1, SumTakes
<1>3. PICK x \in s : /\ SumFunctionOnSet(f, s) = f[x] + SumFunctionOnSet(f, s \ {x})
                     /\ SumFunctionOnSet(g, s) = g[x] + SumFunctionOnSet(g, s \ {x})
  <2>1. PICK x : x = Taken(s)
    OBVIOUS
  <2>2. x \in s
    BY <1>2, <2>1 DEF Taken
  <2>3. SumFunctionOnSet(f, s) = f[x] + SumFunctionOnSet(f, s \ {x})
    BY <1>1, <1>2, <2>1, SumTakes
  <2>4. SumFunctionOnSet(g, s) = g[x] + SumFunctionOnSet(g, s \ {x})
    BY <1>1, <1>2, <2>1, SumTakes
  <2> QED BY <2>2, <2>3, <2>4
<1>4. SumFunctionOnSet(f, s \ {x}) = SumFunctionOnSet(g, s \ {x})
  BY <1>1
<1> QED BY <1>3, <1>4

\* Less everywhere is less altogether.
LEMMA SumIsMonotone ==
  ASSUME NEW S, IsFiniteSet(S), NEW f, NEW g, \A x \in S : f[x] \in Nat /\ g[x] \in Nat /\ f[x] <= g[x]
  PROVE  SumFunctionOnSet(f, S) <= SumFunctionOnSet(g, S)
<1> DEFINE F(s) == SumFunctionOnSet(f, s)
           G(s) == SumFunctionOnSet(g, s)
           Bad == {s \in SUBSET S : ~(F(s) <= G(s))}
<1> SUFFICES ASSUME Bad # {} PROVE FALSE
  OBVIOUS
<1>1. PICK s \in Bad : IsFiniteSet(s) /\ \A x \in s : s \ {x} \notin Bad
  <2>1. Bad \in SUBSET (SUBSET S)
    OBVIOUS
  <2> HIDE DEF Bad
  <2> QED BY <2>1, SmallestBad
<1>2. s # {}
  BY <1>1, SumTakes
<1>3. PICK x \in s : F(s) = f[x] + F(s \ {x}) /\ G(s) = g[x] + G(s \ {x})
  <2>1. PICK x : x = Taken(s)
    OBVIOUS
  <2>2. x \in s
    BY <1>2, <2>1 DEF Taken
  <2>3. F(s) = f[x] + F(s \ {x})
    BY <1>1, <1>2, <2>1, SumTakes
  <2>4. G(s) = g[x] + G(s \ {x})
    BY <1>1, <1>2, <2>1, SumTakes
  <2> QED BY <2>2, <2>3, <2>4
<1>4. F(s \ {x}) <= G(s \ {x}) /\ F(s \ {x}) \in Nat /\ G(s \ {x}) \in Nat
  <2>1. IsFiniteSet(s \ {x})
    BY <1>1, FS_Subset
  <2>2. F(s \ {x}) \in Nat /\ G(s \ {x}) \in Nat
    BY <2>1, SumIsNat
  <2> QED BY <1>1, <2>2
<1> HIDE DEF F, G
<1>5. f[x] <= g[x] /\ f[x] \in Nat /\ g[x] \in Nat
  OBVIOUS
<1>6. ~(F(s) <= G(s))
  BY <1>1
<1> QED BY <1>3, <1>4, <1>5, <1>6

\* What adds nothing may be left out.
LEMMA SumOfPart ==
  ASSUME NEW S, IsFiniteSet(S), NEW f, \A x \in S : f[x] \in Nat, NEW T \in SUBSET S, \A x \in S \ T : f[x] = 0
  PROVE  SumFunctionOnSet(f, T) = SumFunctionOnSet(f, S)
<1> DEFINE Sum(s) == SumFunctionOnSet(f, s)
           Bad == {s \in SUBSET S : T \subseteq s /\ Sum(s) # Sum(T)}
<1> SUFFICES ASSUME Bad # {} PROVE FALSE
  OBVIOUS
<1>1. PICK s \in Bad : IsFiniteSet(s) /\ \A x \in s : s \ {x} \notin Bad
  <2>1. Bad \in SUBSET (SUBSET S)
    OBVIOUS
  <2> HIDE DEF Bad
  <2> QED BY <2>1, SmallestBad
<1>2. PICK x \in s : x \notin T
  OBVIOUS
<1>3. Sum(s) = f[x] + Sum(s \ {x}) /\ f[x] = 0
  BY <1>1, <1>2, SumLess
<1>4. Sum(s \ {x}) = Sum(T)
  BY <1>1, <1>2
<1>5. Sum(T) \in Nat
  BY SumIsNat, FS_Subset
<1>6. Sum(s) # Sum(T)
  BY <1>1
<1> HIDE DEF Sum
<1> QED BY <1>3, <1>4, <1>5, <1>6

\* A part adds up to no more than the whole.
LEMMA SumOfSubset ==
  ASSUME NEW S, IsFiniteSet(S), NEW f, \A x \in S : f[x] \in Nat, NEW T \in SUBSET S
  PROVE  SumFunctionOnSet(f, T) <= SumFunctionOnSet(f, S)
<1> DEFINE Sum(s) == SumFunctionOnSet(f, s)
           Bad == {s \in SUBSET S : T \subseteq s /\ ~(Sum(T) <= Sum(s))}
<1> SUFFICES ASSUME Bad # {} PROVE FALSE
  OBVIOUS
<1>1. PICK s \in Bad : IsFiniteSet(s) /\ \A x \in s : s \ {x} \notin Bad
  <2>1. Bad \in SUBSET (SUBSET S)
    OBVIOUS
  <2> HIDE DEF Bad
  <2> QED BY <2>1, SmallestBad
<1>2. \A t \in SUBSET S : Sum(t) \in Nat
  BY SumIsNat, FS_Subset
<1>3. PICK x \in s : x \notin T
  <2>1. s # T
    <3>1. ~(Sum(T) <= Sum(s)) /\ Sum(T) \in Nat
      BY <1>1, <1>2
    <3> HIDE DEF Sum
    <3> QED BY <3>1
  <2> QED BY <1>1, <2>1
<1>4. Sum(s) = f[x] + Sum(s \ {x}) /\ f[x] \in Nat
  BY <1>1, <1>3, SumLess
<1>5. Sum(T) <= Sum(s \ {x})
  BY <1>1, <1>3
<1>6. ~(Sum(T) <= Sum(s)) /\ Sum(T) \in Nat /\ Sum(s) \in Nat /\ Sum(s \ {x}) \in Nat
  BY <1>1, <1>2
<1> HIDE DEF Sum
<1> QED BY <1>4, <1>5, <1>6

\* At most so much each is at most so much times their number.
LEMMA SumIsBounded ==
  ASSUME NEW S, IsFiniteSet(S), NEW f, NEW most \in Nat, \A x \in S : f[x] \in Nat /\ f[x] <= most
  PROVE  SumFunctionOnSet(f, S) <= most * Cardinality(S)
<1> DEFINE Sum(s) == SumFunctionOnSet(f, s)
           Bad == {s \in SUBSET S : ~(Sum(s) <= most * Cardinality(s))}
<1> SUFFICES ASSUME Bad # {} PROVE FALSE
  OBVIOUS
<1>1. PICK s \in Bad : IsFiniteSet(s) /\ \A x \in s : s \ {x} \notin Bad
  <2>1. Bad \in SUBSET (SUBSET S)
    OBVIOUS
  <2> HIDE DEF Bad
  <2> QED BY <2>1, SmallestBad
<1>2. s # {}
  <2>1. Sum({}) = 0 /\ Cardinality({}) = 0 /\ most * 0 = 0
    BY SumTakes, FS_EmptySet
  <2> QED BY <1>1, <2>1
<1>3. PICK x \in s : TRUE
  BY <1>2
<1>4. Sum(s) = f[x] + Sum(s \ {x}) /\ f[x] <= most /\ f[x] \in Nat
  BY <1>1, SumLess
<1>5. /\ Cardinality(s \ {x}) = Cardinality(s) - 1 /\ Cardinality(s) \in Nat /\ Cardinality(s \ {x}) \in Nat
      /\ IsFiniteSet(s \ {x})
  BY <1>1, FS_RemoveElement, FS_CardinalityType
<1>6. Sum(s \ {x}) \in Nat /\ Sum(s \ {x}) <= most * Cardinality(s \ {x})
  BY <1>1, <1>5, SumIsNat
<1>7. most * Cardinality(s) = most * Cardinality(s \ {x}) + most
  <2>1. PICK n \in Nat : n = Cardinality(s \ {x}) /\ Cardinality(s) = n + 1
    BY <1>5
  <2>2. most * (n + 1) = most * n + most
    OBVIOUS
  <2> QED BY <2>1, <2>2
<1>8. most * Cardinality(s \ {x}) \in Nat
  BY <1>5
<1>9. ~(Sum(s) <= most * Cardinality(s))
  BY <1>1
<1> HIDE DEF Sum
<1> QED BY <1>4, <1>6, <1>7, <1>8, <1>9

\* A sum of multiples is the multiple of the sum.
LEMMA SumScales ==
  ASSUME NEW S, IsFiniteSet(S), NEW k \in Nat, NEW f, NEW g, \A x \in S : f[x] \in Nat /\ g[x] = k * f[x]
  PROVE  SumFunctionOnSet(g, S) = k * SumFunctionOnSet(f, S)
<1> DEFINE F(s) == SumFunctionOnSet(f, s)
           G(s) == SumFunctionOnSet(g, s)
           Bad == {s \in SUBSET S : G(s) # k * F(s)}
<1> SUFFICES ASSUME Bad # {} PROVE FALSE
  OBVIOUS
<1>1. PICK s \in Bad : IsFiniteSet(s) /\ \A x \in s : s \ {x} \notin Bad
  <2>1. Bad \in SUBSET (SUBSET S)
    OBVIOUS
  <2> HIDE DEF Bad
  <2> QED BY <2>1, SmallestBad
<1>2. s # {}
  <2>1. IsFiniteSet({}) /\ k * 0 = 0
    BY FS_EmptySet
  <2>2. F({}) = 0
    BY <2>1, SumTakes
  <2>3. G({}) = 0
    BY <2>1, SumTakes
  <2> QED BY <1>1, <2>1, <2>2, <2>3
<1>3. PICK x \in s : TRUE
  BY <1>2
<1>4. \A y \in S : g[y] \in Nat
  OBVIOUS
<1>5. IsFiniteSet(s \ {x})
  BY <1>1, FS_RemoveElement
<1>6. F(s) = f[x] + F(s \ {x}) /\ f[x] \in Nat /\ F(s \ {x}) \in Nat
  BY <1>1, <1>5, SumLess, SumIsNat
<1>7. G(s) = g[x] + G(s \ {x})
  BY <1>1, <1>4, SumLess
<1>8. G(s \ {x}) = k * F(s \ {x}) /\ g[x] = k * f[x]
  BY <1>1
<1>9. \A m, n \in Nat : k * (m + n) = k * m + k * n
  OBVIOUS
<1>10. G(s) # k * F(s)
  BY <1>1
<1> HIDE DEF F, G
<1> QED BY <1>6, <1>7, <1>8, <1>9, <1>10

\* Renaming what is added changes nothing, as long as no two get one name.
LEMMA SumOfImage ==
  ASSUME NEW S, IsFiniteSet(S), NEW h, \A x, y \in S : h[x] = h[y] => x = y,
         NEW f, NEW g, \A x \in S : f[h[x]] = g[x] /\ g[x] \in Nat
  PROVE  SumFunctionOnSet(f, {h[x] : x \in S}) = SumFunctionOnSet(g, S)
<1> DEFINE Named(s) == {h[x] : x \in s}
           F(s) == SumFunctionOnSet(f, s)
           G(s) == SumFunctionOnSet(g, s)
           Bad == {s \in SUBSET S : F(Named(s)) # G(s)}
<1> SUFFICES ASSUME Bad # {} PROVE FALSE
  OBVIOUS
<1>1. PICK s \in Bad : IsFiniteSet(s) /\ \A x \in s : s \ {x} \notin Bad
  <2>1. Bad \in SUBSET (SUBSET S)
    OBVIOUS
  <2> HIDE DEF Bad
  <2> QED BY <2>1, SmallestBad
<1>2. s # {}
  <2>1. F({}) = 0 /\ G({}) = 0
    BY FS_EmptySet, SumTakes
  <2>2. s = {} => Named(s) = {}
    OBVIOUS
  <2> QED BY <2>1, <2>2
<1>3. PICK x \in s : TRUE
  BY <1>2
<1>4. G(s) = g[x] + G(s \ {x})
  <2>1. \A y \in s : g[y] \in Nat
    OBVIOUS
  <2> QED BY <1>1, <2>1, SumLess
<1>5. F(Named(s)) = f[h[x]] + F(Named(s) \ {h[x]})
  <2>1. IsFiniteSet(Named(s))
    <3>1. [z \in s |-> h[z]] \in Surjection(s, Named(s))
      BY DEF Surjection
    <3> QED BY <1>1, <3>1, FS_Surjection
  <2>2. \A z \in Named(s) : f[z] \in Nat
    OBVIOUS
  <2>3. h[x] \in Named(s)
    OBVIOUS
  <2> HIDE DEF Named
  <2> QED BY <2>1, <2>2, <2>3, SumLess
<1>6. Named(s) \ {h[x]} = Named(s \ {x})
  OBVIOUS
<1>7. F(Named(s \ {x})) = G(s \ {x})
  BY <1>1, <1>3
<1> QED BY <1>4, <1>5, <1>6, <1>7
=============================================================================
