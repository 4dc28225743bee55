---------------------------- MODULE TutorTurn_proofs ----------------------------
(***************************************************************************)
(* TutorTurn for any number of requests, students, questions and turns,     *)
(* whatever the plans, the limits and the vendors that have a key.          *)
(***************************************************************************)
EXTENDS TutorTurn, Sums, SequenceTheorems

\* The tiers select_tier may put in a decision, with what each falls back to.
Rungs == {<<"ADVANCED_REASONING", "STANDARD_TUTOR">>, <<"CHEAP_TEXT">>, <<"STANDARD_TUTOR">>}

Tiers == {"ADVANCED_REASONING", "STANDARD_TUTOR", "CHEAP_TEXT"}

Fails(call)    == ~Succeeded(call.outcome)
Repeating(call) == call.outcome \in {"refused", "bad_request"}

\* A turn that passed the gates, whichever step it is at.
Allowed(t) ==
  /\ t = [pc |-> t.pc, who |-> t.who, decision |-> t.decision, blocked |-> t.blocked,
          alias |-> t.alias, ceiling |-> t.ceiling, calls |-> t.calls]
  /\ t.decision.aliases \in Rungs
  /\ t.decision.verifier \in {"none", "VERIFIER_PRIMARY"}
  /\ \E S : t.calls \in Seq(S)

\* The first n calls were for the answer: each to an alias of the decision and
\* to a vendor that was open, and only the last may have been answered.
ForTheAnswer(t, n) ==
  /\ n \in 0 .. MaxAttempts /\ n <= Len(t.calls)
  /\ \A i \in 1 .. n :
       /\ t.calls[i].alias \in ToSet(t.decision.aliases)
       /\ Callable(t, t.calls[i].alias) /\ t.calls[i].vendor = VendorOf[t.calls[i].alias]
       /\ i < n => Fails(t.calls[i])
  /\ \A i, j \in 1 .. n : i < j /\ Repeating(t.calls[i]) => t.calls[j].alias # t.calls[i].alias

\* Alias k, if it can be called, was.
Tried(t, n, k) ==
  Callable(t, t.decision.aliases[k]) => \E i \in 1 .. n : t.calls[i].alias = t.decision.aliases[k]

\* All calls failed, and they are those of the aliases before k.
Exhausted(t, k) ==
  /\ ForTheAnswer(t, Len(t.calls))
  /\ \A i \in 1 .. Len(t.calls) : Fails(t.calls[i]) /\ \E l \in 1 .. k - 1 : t.calls[i].alias = t.decision.aliases[l]
  /\ \A l \in 1 .. k - 1 : Tried(t, Len(t.calls), l)

\* Before a call on its alias: the calls that are left are enough for the
\* aliases that are, and none was on this one but those that timed out.
Calling(t) ==
  /\ t.alias \in 1 .. Len(t.decision.aliases)
  /\ Callable(t, t.decision.aliases[t.alias])
  /\ t.ceiling = MaxAttempts - (Len(t.decision.aliases) - t.alias)
  /\ Len(t.calls) < t.ceiling
  /\ ForTheAnswer(t, Len(t.calls))
  /\ \A i \in 1 .. Len(t.calls) :
       /\ Fails(t.calls[i])
       /\ \E l \in 1 .. t.alias : t.calls[i].alias = t.decision.aliases[l]
       /\ t.calls[i].alias = t.decision.aliases[t.alias] => ~Repeating(t.calls[i])
  /\ \A l \in 1 .. t.alias - 1 : Tried(t, Len(t.calls), l)

\* Before the second opinion on an answer.
Verifying(t) ==
  /\ Len(t.calls) >= 1 /\ ForTheAnswer(t, Len(t.calls)) /\ ~Fails(t.calls[Len(t.calls)])
  /\ t.decision.verifier = "VERIFIER_PRIMARY" /\ Callable(t, t.decision.verifier)

\* The second opinion is the call after the answer, and the last.
Checked(t, n) ==
  /\ Len(t.calls) = n + 1 /\ n >= 1 /\ ~Fails(t.calls[n])
  /\ t.calls[n + 1].alias = t.decision.verifier /\ t.decision.verifier = "VERIFIER_PRIMARY"
  /\ t.calls[n + 1].vendor \notin t.blocked

\* After the calls: an answer, or every alias that could be called was.
Settling(t) ==
  \E n \in 0 .. MaxAttempts :
    /\ ForTheAnswer(t, n)
    /\ Len(t.calls) = n \/ Checked(t, n)
    /\ \/ n >= 1 /\ ~Fails(t.calls[n])
       \/ \A l \in 1 .. Len(t.decision.aliases) : Tried(t, n, l)

TurnInv(t) ==
  \/ t = Idle
  \/ /\ Allowed(t)
     /\ \/ t.pc = "call" /\ Calling(t)
        \/ t.pc = "verify" /\ Verifying(t)
        \/ t.pc = "settle" /\ Settling(t)

RationInv ==
  /\ turn = [s \in Sessions |-> turn[s]]
  /\ \A s \in Sessions : TurnInv(turn[s])

-----------------------------------------------------------------------------
(* Sequences and decisions.                                                 *)

LEMMA Appending ==
  ASSUME NEW q, \E S : q \in Seq(S), NEW c
  PROVE  /\ \E S : Append(q, c) \in Seq(S)
         /\ Len(q) \in Nat /\ DOMAIN q = 1 .. Len(q)
         /\ Len(Append(q, c)) = Len(q) + 1
         /\ Append(q, c)[Len(q) + 1] = c
         /\ \A i \in 1 .. Len(q) : Append(q, c)[i] = q[i]
<1>1. PICK S : q \in Seq(S)
  OBVIOUS
<1>2. q \in Seq(S \cup {c}) /\ c \in S \cup {c}
  BY <1>1
<1>3. /\ Append(q, c) \in Seq(S \cup {c})
      /\ Len(Append(q, c)) = Len(q) + 1
      /\ Append(q, c)[Len(q) + 1] = c
      /\ \A i \in 1 .. Len(q) : Append(q, c)[i] = q[i]
  BY <1>2, AppendProperties
<1> QED BY <1>1, <1>3, LenProperties

\* Three decisions at most are left when the gates are passed.
LEMMA Deciding ==
  ASSUME NEW ctx
  PROVE  \/ Decide(ctx).aliases = <<>>
         \/ /\ Decide(ctx).aliases \in Rungs
            /\ Decide(ctx).verifier \in {"none", "VERIFIER_PRIMARY"}
<1>1. /\ SelectTier(ctx).aliases \in Rungs
      /\ SelectTier(ctx).verifier \in {"none", "VERIFIER_PRIMARY"}
  BY DEF SelectTier, Rungs
<1>2. \A outcome : Rejected(outcome).aliases = <<>>
  BY DEF Rejected
<1>3. (\E outcome : Decide(ctx) = Rejected(outcome)) \/ Decide(ctx) = SelectTier(ctx)
  BY DEF Decide
<1> QED BY <1>1, <1>2, <1>3

LEMMA RungsAreShort ==
  ASSUME NEW q \in Rungs
  PROVE  /\ Len(q) \in {1, 2} /\ DOMAIN q = 1 .. Len(q)
         /\ \A k \in 1 .. Len(q) : q[k] \in Tiers
         /\ \A k, l \in 1 .. Len(q) : q[k] = q[l] => k = l
         /\ ToSet(q) = {q[k] : k \in 1 .. Len(q)}
         /\ "VERIFIER_PRIMARY" \notin ToSet(q) /\ q # <<>>
<1>1. CASE q = <<"ADVANCED_REASONING", "STANDARD_TUTOR">>
  <2>1. Len(q) = 2 /\ DOMAIN q = 1 .. 2 /\ q[1] = "ADVANCED_REASONING" /\ q[2] = "STANDARD_TUTOR"
    BY <1>1
  <2> HIDE <1>1
  <2> QED BY <2>1 DEF Tiers, ToSet
<1>2. ASSUME NEW only \in Tiers, q = <<only>>
      PROVE  /\ Len(q) \in {1, 2} /\ DOMAIN q = 1 .. Len(q)
             /\ \A k \in 1 .. Len(q) : q[k] \in Tiers
             /\ \A k, l \in 1 .. Len(q) : q[k] = q[l] => k = l
             /\ ToSet(q) = {q[k] : k \in 1 .. Len(q)}
             /\ "VERIFIER_PRIMARY" \notin ToSet(q) /\ q # <<>>
  <2>1. Len(q) = 1 /\ DOMAIN q = 1 .. 1 /\ q[1] = only
    BY <1>2
  <2>2. "VERIFIER_PRIMARY" # only
    BY DEF Tiers
  <2> QED BY <2>1, <2>2 DEF ToSet
<1> QED BY <1>1, <1>2 DEF Rungs, Tiers

LEMMA VendorsStay == UNCHANGED wired => VendorOf' = VendorOf
  BY DEF VendorOf, SelectInSeq

-----------------------------------------------------------------------------
(* One turn: how the gateway leaves it.                                     *)

\* What is said of a turn's calls depends on three of its fields.
LEMMA SameCalls ==
  ASSUME NEW t, NEW u, u.decision = t.decision, u.blocked = t.blocked, u.calls = t.calls
  PROVE  /\ \A alias : Callable(u, alias) <=> Callable(t, alias)
         /\ \A n : ForTheAnswer(u, n) <=> ForTheAnswer(t, n)
         /\ \A n, k : Tried(u, n, k) <=> Tried(t, n, k)
<1>1. \A alias : Callable(u, alias) <=> Callable(t, alias)
  BY DEF Callable
<1> QED BY <1>1 DEF ForTheAnswer, Tried

LEMMA SettlingWithoutAnswer ==
  ASSUME NEW t, Allowed(t), ForTheAnswer(t, Len(t.calls)),
         \A k \in 1 .. Len(t.decision.aliases) : Tried(t, Len(t.calls), k)
  PROVE  TurnInv([t EXCEPT !.pc = "settle"])
<1> DEFINE u == [t EXCEPT !.pc = "settle"]
<1>1. /\ u = [pc |-> "settle", who |-> t.who, decision |-> t.decision, blocked |-> t.blocked,
              alias |-> t.alias, ceiling |-> t.ceiling, calls |-> t.calls]
      /\ Allowed(u)
  BY DEF Allowed
<1>2. u.pc = "settle" /\ u.decision = t.decision /\ u.blocked = t.blocked /\ u.calls = t.calls
  BY <1>1
<1> HIDE DEF u
<1>3. Settling(u)
  BY <1>2, SameCalls DEF Settling, ForTheAnswer
<1> QED BY <1>1, <1>2, <1>3 DEF TurnInv, u

LEMMA Entered ==
  ASSUME NEW t, Allowed(t), NEW m, NEW e
  PROVE  [t EXCEPT !.pc = "call", !.alias = m, !.ceiling = e] =
         [pc |-> "call", who |-> t.who, decision |-> t.decision, blocked |-> t.blocked,
          alias |-> m, ceiling |-> e, calls |-> t.calls]
<1> DEFINE r == [t EXCEPT !.pc = "call"]
           w == [r EXCEPT !.alias = m]
           v == [w EXCEPT !.ceiling = e]
<1>1. r = [pc |-> "call", who |-> t.who, decision |-> t.decision, blocked |-> t.blocked,
           alias |-> t.alias, ceiling |-> t.ceiling, calls |-> t.calls]
  BY DEF Allowed
<1> HIDE DEF r
<1>2. w = [pc |-> "call", who |-> t.who, decision |-> t.decision, blocked |-> t.blocked,
           alias |-> m, ceiling |-> t.ceiling, calls |-> t.calls]
  BY <1>1
<1> HIDE DEF w
<1>3. v = [pc |-> "call", who |-> t.who, decision |-> t.decision, blocked |-> t.blocked,
           alias |-> m, ceiling |-> e, calls |-> t.calls]
  BY <1>2
<1> QED BY <1>3, Zenon DEF r, w

\* The gateway comes to alias k: what was before it has failed, and one call
\* was enough for that, or it is the last.
LEMMA Entering ==
  ASSUME NEW t, Allowed(t), NEW k \in 1 .. Len(t.decision.aliases) + 1, Exhausted(t, k),
         k <= Len(t.decision.aliases) => Len(t.calls) = k - 1
  PROVE  TurnInv(Enter(t, k))
<1> DEFINE A == t.decision.aliases
           usable == {j \in k .. Len(A) : Callable(t, A[j])}
           m == Min(usable)
           u == [t EXCEPT !.pc = "call", !.alias = m, !.ceiling = Ceiling(t, m)]
<1> HIDE DEF u
<1>1. A \in Rungs /\ Len(A) \in {1, 2} /\ k \in Nat /\ k >= 1
  BY RungsAreShort DEF Allowed
<1>2. Len(t.calls) \in Nat /\ ForTheAnswer(t, Len(t.calls))
  BY Appending DEF Allowed, Exhausted
<1>3. CASE usable = {}
  <2>1. Enter(t, k) = [t EXCEPT !.pc = "settle"]
    BY <1>3 DEF Enter
  <2>2. ASSUME NEW l \in 1 .. Len(A)
        PROVE  Tried(t, Len(t.calls), l)
    <3>1. CASE l < k
      <4>1. l \in 1 .. k - 1
        BY <3>1, <1>1
      <4> QED BY <4>1 DEF Exhausted
    <3>2. CASE l >= k
      <4>1. l \in k .. Len(A)
        BY <3>2, <1>1
      <4> QED BY <4>1, <1>3 DEF Tried
    <3> QED BY <3>1, <3>2, <1>1
  <2> QED BY <2>1, <2>2, <1>2, SettlingWithoutAnswer
<1>4. CASE usable # {}
  <2>1. usable \subseteq {1, 2} /\ \A j \in usable : k <= j /\ j <= Len(A)
    BY <1>1
  <2>2. \E j \in usable : \A i \in usable : j <= i
    BY <2>1, <1>4
  <2>3. m \in usable /\ \A i \in usable : m <= i
    BY <2>2 DEF Min
  <2>4. /\ m \in k .. Len(A) /\ m \in {1, 2} /\ Callable(t, A[m])
        /\ \A l \in k .. m - 1 : ~Callable(t, A[l])
    <3> HIDE DEF m
    <3>1. m \in k .. Len(A) /\ m \in {1, 2} /\ Callable(t, A[m])
      BY <2>1, <2>3
    <3>2. ASSUME NEW l \in k .. m - 1, Callable(t, A[l])
          PROVE  FALSE
      <4>1. l \in k .. Len(A) /\ l < m
        BY <3>1, <1>1
      <4>2. l \in usable
        BY <4>1, <3>2
      <4> QED BY <4>1, <4>2, <2>3, <3>1
    <3> QED BY <3>1, <3>2
  <2> HIDE DEF m, usable
  <2>5. Len(t.calls) = k - 1
    BY <2>4, <1>1
  <2>6. Ceiling(t, m) = MaxAttempts - (Len(A) - m) /\ Len(t.calls) < Ceiling(t, m)
    <3> DEFINE L == Len(A)
    <3>0. m \in k .. L /\ k \in Nat /\ (L = 1 \/ L = 2)
      BY <2>4, <1>1
    <3> HIDE DEF L
    <3>a. k <= m /\ m <= L /\ L <= 2 /\ m \in Int /\ L \in Int
      BY <3>0
    <3>1. MaxAttempts - (L - m) >= Len(t.calls) + 1
      BY <3>a, <2>5, <3>0 DEF MaxAttempts
    <3>2. /\ Len(t.calls) + 1 \in Int /\ MaxAttempts - (L - m) \in Int
      BY <3>a, <2>5, <3>0 DEF MaxAttempts
    <3> DEFINE T == {Len(t.calls) + 1, MaxAttempts - (L - m)}
    <3>3. \A x \in T : (\A y \in T : x >= y) <=> x = MaxAttempts - (L - m)
      BY <3>1, <3>2
    <3>4. Max(T) = MaxAttempts - (L - m)
      BY <3>3 DEF Max
    <3> QED BY <3>1, <3>2, <3>4 DEF Ceiling, L
  <2>7. /\ u = [pc |-> "call", who |-> t.who, decision |-> t.decision, blocked |-> t.blocked,
                alias |-> m, ceiling |-> Ceiling(t, m), calls |-> t.calls]
        /\ Allowed(u)
    <3> DEFINE c == Ceiling(t, m)
    <3> HIDE DEF c
    <3>1. [t EXCEPT !.pc = "call", !.alias = m, !.ceiling = c] =
            [pc |-> "call", who |-> t.who, decision |-> t.decision, blocked |-> t.blocked,
             alias |-> m, ceiling |-> c, calls |-> t.calls]
      BY Entered
    <3>2. u = [pc |-> "call", who |-> t.who, decision |-> t.decision, blocked |-> t.blocked,
               alias |-> m, ceiling |-> c, calls |-> t.calls]
      BY <3>1 DEF c, u
    <3> QED BY <3>2 DEF Allowed, c
  <2>8. /\ u.pc = "call" /\ u.decision = t.decision /\ u.blocked = t.blocked /\ u.calls = t.calls
        /\ u.alias = m /\ u.ceiling = Ceiling(t, m)
    BY <2>7
  <2>9. Enter(t, k) = u
    BY <1>4 DEF Enter, usable, m, u
  <2>10. ASSUME NEW i \in 1 .. Len(t.calls)
         PROVE  /\ Fails(t.calls[i])
                /\ \E l \in 1 .. m : t.calls[i].alias = A[l]
                /\ t.calls[i].alias = A[m] => ~Repeating(t.calls[i])
    <3>1. PICK l \in 1 .. k - 1 : t.calls[i].alias = A[l]
      BY DEF Exhausted
    <3>2. l \in 1 .. m /\ l # m /\ l \in 1 .. Len(A) /\ m \in 1 .. Len(A)
      BY <2>4, <1>1
    <3>3. A[l] # A[m]
      BY <3>2, <1>1, RungsAreShort
    <3> QED BY <3>1, <3>2, <3>3 DEF Exhausted
  <2>11. ASSUME NEW l \in 1 .. m - 1
         PROVE  Tried(t, Len(t.calls), l)
    <3>1. l \in 1 .. k - 1 \/ l \in k .. m - 1
      BY <2>4, <1>1
    <3> QED BY <3>1, <2>4 DEF Tried, Exhausted
  <2>12. Calling(u)
    BY <2>4, <2>6, <2>8, <2>10, <2>11, <1>1, <1>2, SameCalls DEF Calling
  <2> QED BY <2>7, <2>8, <2>9, <2>12 DEF TurnInv
<1> QED BY <1>3, <1>4
\* A call is added to those of a turn.
LEMMA Adding ==
  ASSUME NEW t, Allowed(t), NEW p, NEW c
  PROVE  LET u == [pc |-> p, who |-> t.who, decision |-> t.decision, blocked |-> t.blocked,
                   alias |-> t.alias, ceiling |-> t.ceiling, calls |-> Append(t.calls, c)]
         IN  Allowed(u)
<1> DEFINE u == [pc |-> p, who |-> t.who, decision |-> t.decision, blocked |-> t.blocked,
                 alias |-> t.alias, ceiling |-> t.ceiling, calls |-> Append(t.calls, c)]
<1>1. \E S : t.calls \in Seq(S)
  BY DEF Allowed
<1>2. \E S : Append(t.calls, c) \in Seq(S)
  BY <1>1, Appending
<1> QED BY <1>2 DEF Allowed

\* u is t after one more call of its alias, whatever the outcome.
OneMore(t, u, outcome) ==
  LET A == t.decision.aliases
      n == Len(u.calls)
  IN  /\ n = Len(t.calls) + 1 /\ n \in 1 .. MaxAttempts /\ n <= t.ceiling
      /\ ForTheAnswer(u, n)
      /\ u.calls[n].outcome = outcome /\ u.calls[n].alias = A[t.alias]
      /\ \A i \in 1 .. n - 1 :
           /\ Fails(u.calls[i])
           /\ \E l \in 1 .. t.alias : u.calls[i].alias = A[l]
           /\ u.calls[i].alias = A[t.alias] => ~Repeating(u.calls[i])
      /\ \A l \in 1 .. t.alias : Tried(u, n, l)

LEMMA Calls ==
  ASSUME NEW t, Allowed(t), Calling(t), NEW outcome, NEW u,
         u.decision = t.decision, u.blocked = t.blocked,
         u.calls = Append(t.calls, Call(t.decision.aliases[t.alias], outcome))
  PROVE  OneMore(t, u, outcome)
<1> DEFINE A == t.decision.aliases
           L == Len(A)
           q == t.calls
           z == Len(q)
           n == Len(u.calls)
           c == Call(A[t.alias], outcome)
<1>1. /\ A \in Rungs /\ (L = 1 \/ L = 2) /\ t.alias \in 1 .. L
      /\ t.ceiling = MaxAttempts - (L - t.alias) /\ z < t.ceiling
  BY RungsAreShort DEF Allowed, Calling
<1>2. /\ z \in Nat /\ n = z + 1 /\ u.calls[z + 1] = c
      /\ \A i \in 1 .. z : u.calls[i] = q[i]
  BY Appending DEF Allowed
<1>3. c.alias = A[t.alias] /\ c.vendor = VendorOf[A[t.alias]] /\ c.outcome = outcome
  BY DEF Call
<1>4. \A alias : Callable(u, alias) <=> Callable(t, alias)
  BY DEF Callable
<1>5. A[t.alias] \in ToSet(A) /\ Callable(t, A[t.alias])
  BY <1>1, RungsAreShort DEF Calling
<1>6. /\ ForTheAnswer(t, z)
      /\ \A i \in 1 .. z :
           /\ Fails(q[i])
           /\ \E l \in 1 .. t.alias : q[i].alias = A[l]
           /\ q[i].alias = A[t.alias] => ~Repeating(q[i])
      /\ \A l \in 1 .. t.alias - 1 : Tried(t, z, l)
  BY DEF Calling
<1> HIDE DEF c, n, z, L
<1>7. n \in 1 .. MaxAttempts /\ n <= t.ceiling /\ t.alias \in Int /\ n - 1 = z /\ n \in Nat /\ z \in Nat
  BY <1>1, <1>2 DEF MaxAttempts
<1>8. \A i \in 1 .. n : (i \in 1 .. z /\ u.calls[i] = q[i]) \/ (i = n /\ u.calls[i] = c)
  <2>1. \A i \in 1 .. n : i \in 1 .. z \/ i = z + 1
    BY <1>7
  <2> QED BY <1>2, <2>1
<1>9. ForTheAnswer(u, n)
  <2>1. n \in 0 .. MaxAttempts /\ n <= Len(u.calls)
    BY <1>7 DEF n
  <2>2. ASSUME NEW i \in 1 .. n
        PROVE  /\ u.calls[i].alias \in ToSet(u.decision.aliases)
               /\ Callable(u, u.calls[i].alias) /\ u.calls[i].vendor = VendorOf[u.calls[i].alias]
               /\ i < n => Fails(u.calls[i])
    <3>1. CASE i \in 1 .. z /\ u.calls[i] = q[i]
      BY <3>1, <1>6, <1>4 DEF ForTheAnswer
    <3>2. CASE i = n /\ u.calls[i] = c
      <4>1. ~(i < n)
        BY <3>2, <1>7
      <4> QED BY <3>2, <4>1, <1>3, <1>4, <1>5
    <3> QED BY <3>1, <3>2, <1>8
  <2>3. ASSUME NEW i \in 1 .. n, NEW j \in 1 .. n, i < j, Repeating(u.calls[i])
        PROVE  u.calls[j].alias # u.calls[i].alias
    <3>0. i # n
      BY <2>3, <1>7
    <3>1. i \in 1 .. z /\ u.calls[i] = q[i]
      BY <3>0, <1>8
    <3>2. CASE j \in 1 .. z /\ u.calls[j] = q[j]
      BY <3>1, <3>2, <2>3, <1>6 DEF ForTheAnswer
    <3>3. CASE u.calls[j] = c
      BY <3>1, <3>3, <2>3, <1>6, <1>3
    <3> QED BY <3>2, <3>3, <1>8
  <2> QED BY <2>1, <2>2, <2>3 DEF ForTheAnswer
<1>10. ASSUME NEW l \in 1 .. t.alias
       PROVE  Tried(u, n, l)
  <2>1. CASE l = t.alias
    <3>1. n \in 1 .. n /\ u.calls[n].alias = A[t.alias]
      BY <1>2, <1>3, <1>7
    <3> QED BY <3>1, <2>1 DEF Tried
  <2>2. CASE l # t.alias
    <3>1. l \in 1 .. t.alias - 1
      BY <2>2, <1>7
    <3>2. Tried(t, z, l)
      BY <3>1, <1>6
    <3>3. \A i \in 1 .. z : i \in 1 .. n
      BY <1>7
    <3>4. \A i \in 1 .. z : u.calls[i] = q[i]
      BY <1>2
    <3> QED BY <3>2, <3>3, <3>4, <1>4 DEF Tried
  <2> QED BY <2>1, <2>2
<1>11. \A i \in 1 .. n - 1 :
         /\ Fails(u.calls[i])
         /\ \E l \in 1 .. t.alias : u.calls[i].alias = A[l]
         /\ u.calls[i].alias = A[t.alias] => ~Repeating(u.calls[i])
  BY <1>2, <1>6, <1>7
<1> QED BY <1>2, <1>3, <1>7, <1>9, <1>10, <1>11 DEF OneMore, n, z
\* An answer is checked by a vendor that is open, or settled.
LEMMA Answering ==
  ASSUME NEW t, Allowed(t), Len(t.calls) >= 1, ForTheAnswer(t, Len(t.calls)), ~Fails(t.calls[Len(t.calls)])
  PROVE  TurnInv(Answered(t))
<1>1. Len(t.calls) \in Nat
  BY Appending DEF Allowed
<1>2. CASE t.decision.verifier # "none" /\ Last(t.calls).outcome = "doubtful" /\ Callable(t, t.decision.verifier)
  <2> DEFINE u == [t EXCEPT !.pc = "verify"]
  <2>1. /\ u = [pc |-> "verify", who |-> t.who, decision |-> t.decision, blocked |-> t.blocked,
                alias |-> t.alias, ceiling |-> t.ceiling, calls |-> t.calls]
        /\ Allowed(u)
    BY DEF Allowed
  <2>2. u.pc = "verify" /\ u.decision = t.decision /\ u.blocked = t.blocked /\ u.calls = t.calls
    BY <2>1
  <2>3. Answered(t) = u
    BY <1>2 DEF Answered
  <2> HIDE DEF u
  <2>4. t.decision.verifier = "VERIFIER_PRIMARY"
    BY <1>2 DEF Allowed
  <2>5. Verifying(u)
    BY <1>2, <2>2, <2>4, SameCalls DEF Verifying
  <2> QED BY <2>1, <2>2, <2>3, <2>5 DEF TurnInv
<1>3. CASE ~(t.decision.verifier # "none" /\ Last(t.calls).outcome = "doubtful" /\ Callable(t, t.decision.verifier))
  <2> DEFINE u == [t EXCEPT !.pc = "settle"]
  <2>1. /\ u = [pc |-> "settle", who |-> t.who, decision |-> t.decision, blocked |-> t.blocked,
                alias |-> t.alias, ceiling |-> t.ceiling, calls |-> t.calls]
        /\ Allowed(u)
    BY DEF Allowed
  <2>2. u.pc = "settle" /\ u.decision = t.decision /\ u.blocked = t.blocked /\ u.calls = t.calls
    BY <2>1
  <2>3. Answered(t) = u
    BY <1>3 DEF Answered
  <2> HIDE DEF u
  <2>4. ForTheAnswer(u, Len(u.calls)) /\ Len(u.calls) \in 0 .. MaxAttempts
    BY <2>2, SameCalls DEF ForTheAnswer
  <2>5. Settling(u)
    BY <2>2, <2>4 DEF Settling
  <2> QED BY <2>1, <2>2, <2>3, <2>5 DEF TurnInv
<1> QED BY <1>2, <1>3

\* A call is tried again, given up for the next alias, or the last.
LEMMA Invoking ==
  ASSUME NEW t, Allowed(t), t.pc = "call", Calling(t), NEW outcome \in Outcomes
  PROVE  TurnInv(After(t, outcome))
<1> DEFINE A == t.decision.aliases
           L == Len(A)
           c == Call(A[t.alias], outcome)
           u == [t EXCEPT !.calls = Append(@, c)]
           n == Len(u.calls)
<1> HIDE DEF c
<1>0. t = [pc |-> "call", who |-> t.who, decision |-> t.decision, blocked |-> t.blocked,
           alias |-> t.alias, ceiling |-> t.ceiling, calls |-> t.calls]
  BY DEF Allowed
<1>1. u = [pc |-> "call", who |-> t.who, decision |-> t.decision, blocked |-> t.blocked,
           alias |-> t.alias, ceiling |-> t.ceiling, calls |-> Append(t.calls, c)]
  BY <1>0
<1>2. /\ u.pc = "call" /\ u.decision = t.decision /\ u.blocked = t.blocked /\ u.alias = t.alias
      /\ u.ceiling = t.ceiling /\ u.calls = Append(t.calls, Call(t.decision.aliases[t.alias], outcome))
  BY <1>1 DEF c
<1>3. After(t, outcome) =
        IF Succeeded(outcome) THEN Answered(u)
        ELSE IF Retryable(outcome) /\ n < t.ceiling THEN u
        ELSE IF n >= MaxAttempts THEN [u EXCEPT !.pc = "settle"]
        ELSE Enter(u, t.alias + 1)
  BY DEF After, c
<1> HIDE DEF u
<1>4. Allowed(u)
  BY <1>1, Adding
<1>5. /\ n \in 1 .. MaxAttempts /\ n <= t.ceiling
      /\ ForTheAnswer(u, n)
      /\ u.calls[n].outcome = outcome /\ u.calls[n].alias = A[t.alias]
      /\ \A i \in 1 .. n - 1 :
           /\ Fails(u.calls[i])
           /\ \E l \in 1 .. t.alias : u.calls[i].alias = A[l]
           /\ u.calls[i].alias = A[t.alias] => ~Repeating(u.calls[i])
      /\ \A l \in 1 .. t.alias : Tried(u, n, l)
  <2> HIDE DEF A, n
  <2>1. OneMore(t, u, outcome)
    BY <1>2, Calls, Zenon
  <2> QED BY <2>1 DEF OneMore, A, n
<1>6. /\ L = 1 \/ L = 2
      /\ t.alias \in 1 .. L /\ t.ceiling = MaxAttempts - (L - t.alias) /\ Callable(t, A[t.alias])
  BY RungsAreShort DEF Allowed, Calling
<1> HIDE DEF n, L
<1>7. /\ n \in Nat /\ n >= 1 /\ n <= 2 /\ t.alias \in Nat /\ t.alias >= 1 /\ t.alias <= L
      /\ L \in Nat /\ t.ceiling \in Int /\ t.ceiling = 2 - (L - t.alias)
  BY <1>5, <1>6 DEF MaxAttempts
<1>8. CASE Succeeded(outcome)
  <2>1. ~Fails(u.calls[n])
    BY <1>5, <1>8 DEF Fails
  <2> QED BY <1>3, <1>4, <1>5, <1>7, <1>8, <2>1, Answering DEF n
<1>9. CASE ~Succeeded(outcome)
  <2>1. ASSUME NEW i \in 1 .. n
        PROVE  Fails(u.calls[i]) /\ \E l \in 1 .. t.alias : u.calls[i].alias = A[l]
    <3>1. CASE i = n
      <4>1. t.alias \in 1 .. t.alias
        BY <1>7
      <4> QED BY <3>1, <4>1, <1>5, <1>9 DEF Fails
    <3>2. CASE i # n
      <4>1. i \in 1 .. n - 1
        BY <3>2, <1>7
      <4> QED BY <4>1, <1>5
    <3> QED BY <3>1, <3>2
  <2>2. CASE Retryable(outcome) /\ n < t.ceiling
    <3>1. After(t, outcome) = u
      BY <1>3, <1>9, <2>2
    <3>2. ASSUME NEW i \in 1 .. n, u.calls[i].alias = A[t.alias]
          PROVE  ~Repeating(u.calls[i])
      <4>1. CASE i = n
        BY <4>1, <2>2, <1>5 DEF Repeating, Retryable
      <4>2. CASE i # n
        <5>1. i \in 1 .. n - 1
          BY <4>2, <1>7
        <5> QED BY <5>1, <1>5, <3>2
      <4> QED BY <4>1, <4>2
    <3>3. \A l \in 1 .. t.alias - 1 : Tried(u, n, l)
      BY <1>5, <1>7
    <3>4. Callable(u, A[t.alias])
      BY <1>2, <1>6 DEF Callable
    <3>5. Calling(u)
      BY <1>2, <1>5, <1>6, <2>1, <2>2, <3>2, <3>3, <3>4 DEF Calling, n, L
    <3> QED BY <1>2, <1>4, <3>1, <3>5 DEF TurnInv
  <2>3. CASE ~(Retryable(outcome) /\ n < t.ceiling) /\ n >= MaxAttempts
    <3>1. After(t, outcome) = [u EXCEPT !.pc = "settle"]
      BY <1>3, <1>9, <2>3
    <3>2. t.alias = L
      BY <1>5, <1>7, <2>3 DEF MaxAttempts
    <3>3. \A l \in 1 .. Len(u.decision.aliases) : Tried(u, Len(u.calls), l)
      BY <1>2, <1>5, <3>2 DEF n, L
    <3> QED BY <1>4, <1>5, <3>1, <3>3, SettlingWithoutAnswer DEF n
  <2>4. CASE ~(Retryable(outcome) /\ n < t.ceiling) /\ ~(n >= MaxAttempts)
    <3>1. After(t, outcome) = Enter(u, t.alias + 1)
      BY <1>3, <1>9, <2>4
    <3>2. n = 1 /\ t.alias + 1 \in 1 .. L + 1 /\ (t.alias + 1) - 1 = t.alias
      BY <1>7, <2>4 DEF MaxAttempts
    <3>3. t.alias + 1 <= L => n = t.alias
      BY <3>2, <1>7, <1>6
    <3>4. Exhausted(u, t.alias + 1)
      <4>1. 1 .. (t.alias + 1) - 1 = 1 .. t.alias
        BY <3>2
      <4>2. /\ \A i \in 1 .. n : Fails(u.calls[i]) /\ \E l \in 1 .. (t.alias + 1) - 1 : u.calls[i].alias = A[l]
            /\ \A l \in 1 .. (t.alias + 1) - 1 : Tried(u, n, l)
        BY <4>1, <2>1, <1>5, Zenon
      <4>3. /\ \A i \in 1 .. Len(u.calls) :
                 Fails(u.calls[i]) /\ \E l \in 1 .. (t.alias + 1) - 1 : u.calls[i].alias = u.decision.aliases[l]
            /\ \A l \in 1 .. (t.alias + 1) - 1 : Tried(u, Len(u.calls), l)
            /\ ForTheAnswer(u, Len(u.calls))
        BY <1>2, <1>5, <4>2 DEF n
      <4> QED BY <4>3 DEF Exhausted
    <3> QED BY <1>2, <1>4, <3>1, <3>2, <3>3, <3>4, Entering DEF n, L
  <2> QED BY <2>2, <2>3, <2>4
<1> QED BY <1>8, <1>9

\* The second opinion, whatever it says.
LEMMA Opinion ==
  ASSUME NEW t, Allowed(t), Verifying(t), NEW outcome
  PROVE  TurnInv([t EXCEPT !.pc = "settle", !.calls = Append(@, Call(t.decision.verifier, outcome))])
<1> DEFINE q == t.calls
           n == Len(q)
           c == Call(t.decision.verifier, outcome)
           w == [t EXCEPT !.pc = "settle"]
           u == [t EXCEPT !.pc = "settle", !.calls = Append(@, c)]
<1> HIDE DEF u, c
<1>1. w = [pc |-> "settle", who |-> t.who, decision |-> t.decision, blocked |-> t.blocked,
           alias |-> t.alias, ceiling |-> t.ceiling, calls |-> q]
  BY DEF Allowed
<1>2. [w EXCEPT !.calls = Append(@, c)] =
        [pc |-> "settle", who |-> t.who, decision |-> t.decision, blocked |-> t.blocked,
         alias |-> t.alias, ceiling |-> t.ceiling, calls |-> Append(q, c)]
  <2> HIDE DEF w, q, n
  <2>1. /\ DOMAIN w = {"pc", "who", "decision", "blocked", "alias", "ceiling", "calls"}
        /\ w.pc = "settle" /\ w.who = t.who /\ w.decision = t.decision /\ w.blocked = t.blocked
        /\ w.alias = t.alias /\ w.ceiling = t.ceiling /\ w.calls = q
    BY <1>1
  <2>2. PICK longer : longer = Append(q, c)
    OBVIOUS
  <2>3. [w EXCEPT !.calls = longer] =
          [pc |-> "settle", who |-> t.who, decision |-> t.decision, blocked |-> t.blocked,
           alias |-> t.alias, ceiling |-> t.ceiling, calls |-> longer]
    BY <1>1
  <2> QED BY <2>1, <2>2, <2>3
<1>3. u = [pc |-> "settle", who |-> t.who, decision |-> t.decision, blocked |-> t.blocked,
           alias |-> t.alias, ceiling |-> t.ceiling, calls |-> Append(q, c)]
  BY <1>2, Zenon DEF u
<1> HIDE DEF w
<1>4. Allowed(u)
  BY <1>3, Adding
<1>5. u.pc = "settle" /\ u.decision = t.decision /\ u.blocked = t.blocked /\ u.calls = Append(q, c)
  BY <1>3
<1>6. /\ n \in Nat /\ Len(u.calls) = n + 1 /\ u.calls[n + 1] = c
      /\ \A i \in 1 .. n : u.calls[i] = q[i]
  BY <1>5, Appending DEF Allowed
<1>7. c.alias = t.decision.verifier /\ c.vendor = VendorOf[t.decision.verifier]
  BY DEF c, Call
<1>8. /\ n >= 1 /\ ForTheAnswer(t, n) /\ ~Fails(q[n])
      /\ t.decision.verifier = "VERIFIER_PRIMARY" /\ VendorOf[t.decision.verifier] \notin t.blocked
  BY DEF Verifying, Callable
<1> HIDE DEF n
<1>9. n \in 1 .. n /\ n \in 0 .. MaxAttempts /\ n <= n + 1
  BY <1>6, <1>8 DEF ForTheAnswer
<1>10. ForTheAnswer(u, n)
  BY <1>5, <1>6, <1>8, <1>9 DEF ForTheAnswer, Callable
<1>11. Checked(u, n)
  BY <1>5, <1>6, <1>7, <1>8, <1>9 DEF Checked
<1>12. Settling(u)
  BY <1>6, <1>8, <1>9, <1>10, <1>11 DEF Settling
<1> QED BY <1>4, <1>5, <1>12 DEF TurnInv, u, c
-----------------------------------------------------------------------------
(* The steps of the service.                                                *)

LEMMA TurnsStay ==
  ASSUME NEW t, TurnInv(t), UNCHANGED wired
  PROVE  TurnInv(t)'
<1>1. VendorOf' = VendorOf
  BY VendorsStay
<1>2. \A alias : Callable(t, alias)' <=> Callable(t, alias)
  BY <1>1 DEF Callable
<1>3. \A n : ForTheAnswer(t, n)' <=> ForTheAnswer(t, n)
  BY <1>1, <1>2 DEF ForTheAnswer
<1>4. \A n, k : Tried(t, n, k)' <=> Tried(t, n, k)
  BY <1>2 DEF Tried
<1>5. Calling(t)' <=> Calling(t)
  BY <1>2, <1>3, <1>4 DEF Calling
<1>6. Verifying(t)' <=> Verifying(t)
  BY <1>2, <1>3 DEF Verifying
<1>7. Settling(t)' <=> Settling(t)
  BY <1>3, <1>4 DEF Settling
<1> QED BY <1>5, <1>6, <1>7 DEF TurnInv

LEMMA OneTurn ==
  ASSUME RationInv, UNCHANGED wired, NEW s \in Sessions, NEW v, TurnInv(v),
         turn' = [turn EXCEPT ![s] = v]
  PROVE  RationInv'
<1>1. turn' = [r \in Sessions |-> IF r = s THEN v ELSE turn[r]]
  BY DEF RationInv
<1>2. turn' = [r \in Sessions |-> turn'[r]]
  BY <1>1
<1>3. ASSUME NEW r \in Sessions
      PROVE  TurnInv(turn[r])'
  <2>1. PICK t : t = IF r = s THEN v ELSE turn[r]
    OBVIOUS
  <2>2. TurnInv(t) /\ turn'[r] = t
    BY <1>1, <2>1 DEF RationInv
  <2>3. TurnInv(t)'
    BY <2>2, TurnsStay
  <2> QED BY <2>2, <2>3
<1> QED BY <1>2, <1>3 DEF RationInv

LEMMA PlanTurnRations ==
  ASSUME RationInv, NEW s \in Sessions, NEW who, NEW ask, PlanTurn(s, who, ask)
  PROVE  RationInv'
<1>1. PICK ctx, blocked :
        LET planned == [pc |-> "plan", who |-> who, decision |-> Decide(ctx), blocked |-> blocked,
                        alias |-> 0, ceiling |-> 0, calls |-> <<>>]
        IN  /\ turn' = [turn EXCEPT ![s] = IF planned.decision.aliases = <<>> THEN Idle ELSE Enter(planned, 1)]
            /\ UNCHANGED wired
  BY DEF PlanTurn
<1>2. PICK decision : decision = Decide(ctx)
  OBVIOUS
<1> DEFINE planned == [pc |-> "plan", who |-> who, decision |-> decision, blocked |-> blocked,
                       alias |-> 0, ceiling |-> 0, calls |-> <<>>]
<1>3. PICK v : v = IF decision.aliases = <<>> THEN Idle ELSE Enter(planned, 1)
  OBVIOUS
<1>4. turn' = [turn EXCEPT ![s] = v] /\ UNCHANGED wired
  BY <1>1, <1>2, <1>3
<1>5. TurnInv(v)
  <2>1. CASE decision.aliases = <<>>
    BY <1>3, <2>1 DEF TurnInv
  <2>2. CASE decision.aliases # <<>>
    <3>1. decision.aliases \in Rungs /\ decision.verifier \in {"none", "VERIFIER_PRIMARY"}
      BY <1>2, <2>2, Deciding
    <3>2. <<>> \in Seq({}) /\ Len(<<>>) = 0
      OBVIOUS
    <3>3. planned.decision = decision /\ planned.calls = <<>>
      OBVIOUS
    <3>4. Allowed(planned)
      BY <3>1, <3>2 DEF Allowed
    <3> HIDE DEF planned
    <3>5. Exhausted(planned, 1)
      BY <3>2, <3>3 DEF Exhausted, ForTheAnswer, MaxAttempts
    <3>6. 1 \in 1 .. Len(planned.decision.aliases) + 1 /\ Len(planned.calls) = 1 - 1
      BY <3>1, <3>2, <3>3, RungsAreShort
    <3> QED BY <1>3, <2>2, <3>4, <3>5, <3>6, Entering
  <2> QED BY <2>1, <2>2
<1> QED BY <1>4, <1>5, OneTurn

LEMMA RationStep == RationInv /\ [Next]_vars => RationInv'
<1> SUFFICES ASSUME RationInv, [Next]_vars PROVE RationInv'
  OBVIOUS
<1>1. ASSUME NEW s \in Sessions, NEW who \in Students, NEW ask \in Asked, PlanTurn(s, who, ask)
      PROVE  RationInv'
  BY <1>1, PlanTurnRations
<1>2. ASSUME NEW s \in Sessions, NEW outcome \in Outcomes, Invoke(s, outcome)
      PROVE  RationInv'
  <2>1. PICK t : t = turn[s]
    OBVIOUS
  <2>2. PICK v : v = After(t, outcome)
    OBVIOUS
  <2>3. t.pc = "call" /\ turn' = [turn EXCEPT ![s] = v] /\ UNCHANGED wired
    BY <1>2, <2>1, <2>2 DEF Invoke
  <2>4. Allowed(t) /\ Calling(t)
    BY <2>1, <2>3 DEF RationInv, TurnInv, Idle
  <2>5. TurnInv(v)
    BY <2>2, <2>3, <2>4, Invoking
  <2> QED BY <2>3, <2>5, OneTurn
<1>3. ASSUME NEW s \in Sessions, NEW outcome, Verify(s, outcome)
      PROVE  RationInv'
  <2>1. PICK t : t = turn[s]
    OBVIOUS
  <2>2. PICK v : v = [t EXCEPT !.pc = "settle", !.calls = Append(@, Call(t.decision.verifier, outcome))]
    OBVIOUS
  <2>3. t.pc = "verify" /\ turn' = [turn EXCEPT ![s] = v] /\ UNCHANGED wired
    BY <1>3, <2>1, <2>2 DEF Verify
  <2>4. Allowed(t) /\ Verifying(t)
    BY <2>1, <2>3 DEF RationInv, TurnInv, Idle
  <2>5. TurnInv(v)
    BY <2>2, <2>3, <2>4, Opinion
  <2> QED BY <2>3, <2>5, OneTurn
<1>4. ASSUME NEW s \in Sessions, Settle(s) \/ Crash(s)
      PROVE  RationInv'
  <2>1. turn' = [turn EXCEPT ![s] = Idle] /\ UNCHANGED wired
    BY <1>4 DEF Settle, Crash
  <2>2. PICK v : v = Idle
    OBVIOUS
  <2> QED BY <2>1, <2>2, OneTurn DEF TurnInv
<1>5. CASE Tick \/ UNCHANGED vars
  <2>1. turn' = turn /\ UNCHANGED wired
    BY <1>5 DEF Tick, vars
  <2>2. ASSUME NEW s \in Sessions
        PROVE  TurnInv(turn[s])'
    <3>1. PICK t : t = turn[s]
      OBVIOUS
    <3>2. TurnInv(t)'
      BY <2>1, <3>1, TurnsStay DEF RationInv
    <3> QED BY <2>1, <3>1, <3>2
  <2> QED BY <2>1, <2>2 DEF RationInv
<1> QED BY <1>1, <1>2, <1>3, <1>4, <1>5 DEF Next

LEMMA RationInit == Init => RationInv
  BY DEF Init, RationInv, TurnInv

LEMMA SettledTurn ==
  ASSUME NEW t, Allowed(t), Settling(t)
  PROVE  LET calls == t.calls
             n     == Cardinality({i \in DOMAIN calls : calls[i].alias \in ToSet(t.decision.aliases)})
             won   == {i \in 1 .. n : calls[i].outcome \in {"answer", "doubtful"}}
             open  == {alias \in ToSet(t.decision.aliases) : wired # {} /\ VendorOf[alias] \notin t.blocked}
         IN  /\ n <= MaxAttempts /\ won \subseteq {n}
             /\ Len(calls) = n \/ (Len(calls) = n + 1 /\ won = {n} /\ calls[n + 1].alias = t.decision.verifier)
             /\ \A i \in DOMAIN calls : calls[i].vendor \notin t.blocked
             /\ \A i, j \in 1 .. n :
                  i < j /\ calls[i].outcome \in {"refused", "bad_request"} => calls[j].alias # calls[i].alias
             /\ won = {} => open = {calls[i].alias : i \in 1 .. n}
<1> DEFINE calls == t.calls
           A     == t.decision.aliases
<1>1. PICK n \in 0 .. MaxAttempts :
        /\ ForTheAnswer(t, n)
        /\ Len(calls) = n \/ Checked(t, n)
        /\ \/ n >= 1 /\ ~Fails(calls[n])
           \/ \A l \in 1 .. Len(A) : Tried(t, n, l)
  BY DEF Settling
<1>2. Len(calls) \in Nat /\ DOMAIN calls = 1 .. Len(calls) /\ n \in Nat /\ n <= MaxAttempts
  BY <1>1, Appending DEF Allowed, MaxAttempts
<1>3. /\ ToSet(A) = {A[k] : k \in 1 .. Len(A)} /\ "VERIFIER_PRIMARY" \notin ToSet(A)
  BY RungsAreShort DEF Allowed
<1>4. Len(calls) = n \/ (Len(calls) = n + 1 /\ Checked(t, n))
  BY <1>1 DEF Checked
<1>5. {i \in DOMAIN calls : calls[i].alias \in ToSet(A)} = 1 .. n
  <2>1. \A i \in 1 .. n : i \in DOMAIN calls /\ calls[i].alias \in ToSet(A)
    BY <1>1, <1>2, <1>4 DEF ForTheAnswer
  <2>2. ASSUME NEW i \in DOMAIN calls, i \notin 1 .. n
        PROVE  calls[i].alias \notin ToSet(A)
    <3>1. i = n + 1 /\ Checked(t, n)
      BY <2>2, <1>2, <1>4
    <3> QED BY <3>1, <1>3 DEF Checked
  <2> QED BY <2>1, <2>2
<1>6. Cardinality({i \in DOMAIN calls : calls[i].alias \in ToSet(A)}) = n
  <2>1. Cardinality(1 .. n) = n
    <3>1. Cardinality(1 .. n) = IF 1 > n THEN 0 ELSE n - 1 + 1
      BY <1>2, FS_Interval
    <3> QED BY <3>1, <1>2
  <2> QED BY <1>5, <2>1
<1> DEFINE won  == {i \in 1 .. n : calls[i].outcome \in {"answer", "doubtful"}}
           open == {alias \in ToSet(A) : wired # {} /\ VendorOf[alias] \notin t.blocked}
<1>7. won \subseteq {n}
  <2>1. ASSUME NEW i \in 1 .. n, i # n
        PROVE  calls[i].outcome \notin {"answer", "doubtful"}
    <3>1. i < n
      BY <2>1, <1>2
    <3> QED BY <3>1, <1>1 DEF ForTheAnswer, Fails, Succeeded
  <2> QED BY <2>1
<1>8. n >= 1 /\ ~Fails(calls[n]) => won = {n}
  BY <1>2, <1>7 DEF Fails, Succeeded
<1>9. Len(calls) = n \/ (Len(calls) = n + 1 /\ won = {n} /\ calls[n + 1].alias = t.decision.verifier)
  BY <1>4, <1>8 DEF Checked
<1>10. \A i \in DOMAIN calls : calls[i].vendor \notin t.blocked
  <2>1. \A i \in 1 .. n : calls[i].vendor \notin t.blocked
    BY <1>1 DEF ForTheAnswer, Callable
  <2>2. ASSUME NEW i \in DOMAIN calls, i \notin 1 .. n
        PROVE  calls[i].vendor \notin t.blocked
    <3>1. i = n + 1 /\ Checked(t, n)
      BY <2>2, <1>2, <1>4
    <3> QED BY <3>1 DEF Checked
  <2> QED BY <2>1, <2>2
<1>11. \A i, j \in 1 .. n :
         i < j /\ calls[i].outcome \in {"refused", "bad_request"} => calls[j].alias # calls[i].alias
  BY <1>1 DEF ForTheAnswer, Repeating
<1>12. won = {} => open = {calls[i].alias : i \in 1 .. n}
  <2> SUFFICES ASSUME won = {} PROVE open = {calls[i].alias : i \in 1 .. n}
    OBVIOUS
  <2>1. \A l \in 1 .. Len(A) : Tried(t, n, l)
    BY <1>1, <1>8
  <2>2. \A alias \in open : \E i \in 1 .. n : calls[i].alias = alias
    BY <2>1, <1>3 DEF Tried, Callable
  <2>3. \A i \in 1 .. n : calls[i].alias \in open
    BY <1>1 DEF ForTheAnswer, Callable
  <2> QED BY <2>2, <2>3
<1> QED BY <1>2, <1>6, <1>7, <1>9, <1>10, <1>11, <1>12

\* The gateway rations a turn, whatever vendors answer, fail, refuse or are
\* blocked: at most MaxAttempts calls for the answer and one more, after it, to
\* check it; none to a vendor that was shut out when the turn was planned, none
\* that would only repeat a failure; and no answer only after every alias that
\* was open has been called (providers/gateway.py, capabilities/executor.py).
THEOREM TurnsAreRationed == Spec => []AttemptsAreRationed
<1>1. RationInv => AttemptsAreRationed
  <2> SUFFICES ASSUME RationInv, NEW s \in Sessions, turn[s].pc = "settle"
               PROVE  Allowed(turn[s]) /\ Settling(turn[s])
    BY SettledTurn DEF AttemptsAreRationed
  <2> QED BY DEF RationInv, TurnInv, Idle
<1>2. Init => RationInv
  BY RationInit
<1>3. RationInv /\ [Next]_vars => RationInv'
  BY RationStep
<1> QED BY <1>1, <1>2, <1>3, PTL DEF Spec

-----------------------------------------------------------------------------
(* Spending.                                                               *)

\* A row of the ledger: whose call, to whom, at what cost and when.
IsRow(row) ==
  /\ row.who \in Students /\ row.vendor \in ToSet(Vendors) /\ row.cost \in Costs /\ row.at \in Nat

IsLedger(B) == IsFiniteSet(DOMAIN B) /\ \A row \in DOMAIN B : IsRow(row) /\ B[row] \in Nat

\* The calls of a turn, at their price and to vendors that were open to it.
Priced(t) ==
  /\ t.who \in Students
  /\ \A i \in DOMAIN t.calls :
       LET call == t.calls[i] IN
       /\ call.alias \in Aliases /\ call.outcome \in Outcomes /\ call.cost = Cost(call.alias, call.outcome)
       /\ call.vendor \in ToSet(Vendors) \ t.blocked

\* A turn that may still make a call the ceiling counts.
MayCount(c, t) == \E vendor \in ToSet(Vendors) \ t.blocked, cost \in Costs : c.counts[t.who][vendor][cost] # 0

Concerned(c) == {s \in Running : MayCount(c, turn[s])}

\* Each turn the ceiling counts saw room under it, and may add its share.
Room(c) ==
  c.limit # NoLimit =>
    Recorded(c) + c.perTurn * Cardinality(Concerned(c)) <= c.limit - 1 + c.perTurn * Cardinality(Sessions)

SpendInv ==
  /\ RationInv
  /\ now \in Nat /\ wired \in Keys /\ IsLedger(ledger)
  /\ \A s \in Running : Priced(turn[s])
  /\ \A c \in Ceilings : Room(c)

-----------------------------------------------------------------------------
(* What a ceiling counts of a ledger.                                       *)

\* What a ceiling counts may be any number the costs are turned into.
Counts(counts) == \A who \in Students, vendor \in ToSet(Vendors), cost \in Costs : counts[who][vendor][cost] \in Nat

Weight(counts, B) == [row \in DOMAIN B |-> B[row] * counts[row.who][row.vendor][row.cost]]

RowsSince(B, at) == {row \in DOMAIN B : row.at >= at}

CountOf(counts, B, at) == SumFunctionOnSet(Weight(counts, B), RowsSince(B, at))

LEMMA WeightsAreNat ==
  ASSUME NEW counts, Counts(counts), NEW B, IsLedger(B)
  PROVE  \A row \in DOMAIN B : Weight(counts, B)[row] \in Nat
<1>1. ASSUME NEW row \in DOMAIN B PROVE Weight(counts, B)[row] \in Nat
  <2>1. B[row] \in Nat /\ counts[row.who][row.vendor][row.cost] \in Nat
    BY DEF IsLedger, IsRow, Counts
  <2>2. Weight(counts, B)[row] = B[row] * counts[row.who][row.vendor][row.cost]
    BY DEF Weight
  <2> QED BY <2>1, <2>2
<1> QED BY <1>1

\* What some of the rows in a window count, none left out that counts.
PicksOut(g, T, counts, B, at) ==
  /\ T \subseteq RowsSince(B, at) /\ DOMAIN g = T
  /\ \A row \in T : g[row] = B[row] * counts[row.who][row.vendor][row.cost]
  /\ \A row \in RowsSince(B, at) \ T : counts[row.who][row.vendor][row.cost] = 0

LEMMA CountedIn ==
  ASSUME NEW counts, Counts(counts), NEW B, IsLedger(B), NEW at, NEW T, NEW g, PicksOut(g, T, counts, B, at)
  PROVE  CountOf(counts, B, at) = SumFunction(g)
<1> DEFINE f == Weight(counts, B)
           S == RowsSince(B, at)
<1>0. /\ T \subseteq RowsSince(B, at) /\ DOMAIN g = T
      /\ \A row \in T : g[row] = B[row] * counts[row.who][row.vendor][row.cost]
      /\ \A row \in RowsSince(B, at) \ T : counts[row.who][row.vendor][row.cost] = 0
  BY DEF PicksOut
<1>1. IsFiniteSet(S) /\ IsFiniteSet(T) /\ S \in SUBSET DOMAIN B
  BY <1>0, FS_Subset DEF IsLedger, RowsSince
<1>2. \A row \in S : f[row] \in Nat
  BY <1>1, WeightsAreNat
<1>3. \A row \in S : f[row] = B[row] * counts[row.who][row.vendor][row.cost]
  BY <1>1 DEF Weight
<1>4. \A row \in S \ T : f[row] = 0
  <2>1. ASSUME NEW row \in S \ T PROVE f[row] = 0
    <3>1. B[row] \in Nat /\ counts[row.who][row.vendor][row.cost] = 0
      BY <1>0, <1>1 DEF IsLedger
    <3> HIDE DEF f, S
    <3> QED BY <1>3, <3>1
  <2> QED BY <2>1
<1>5. \A row \in T : f[row] = g[row]
  BY <1>0, <1>3
<1> HIDE DEF f, S
<1>6. SumFunctionOnSet(f, T) = SumFunctionOnSet(f, S)
  BY <1>0, <1>1, <1>2, <1>4, SumOfPart DEF S
<1>7. SumFunctionOnSet(f, T) = SumFunctionOnSet(g, T)
  BY <1>1, <1>5, SumAgrees
<1> QED BY <1>0, <1>6, <1>7 DEF CountOf, SumFunction, f, S

LEMMA RecordedIsCounted ==
  ASSUME IsLedger(ledger), NEW c, Counts(c.counts)
  PROVE  Recorded(c) = CountOf(c.counts, ledger, now - c.window)
<1> DEFINE g == [r \in Since(ledger, now, c.window) |-> ledger[r] * c.counts[r.who][r.vendor][r.cost]]
<1>1. Since(ledger, now, c.window) = RowsSince(ledger, now - c.window)
  BY DEF Since, RowsSince, BagToSet
<1>2. DOMAIN g = RowsSince(ledger, now - c.window)
      /\ \A r \in DOMAIN g : g[r] = ledger[r] * c.counts[r.who][r.vendor][r.cost]
  BY <1>1
<1>3. Recorded(c) = SumFunction(g)
  BY DEF Recorded
<1>4. PICK at : at = now - c.window
  OBVIOUS
<1>5. PICK T : T = RowsSince(ledger, at)
  OBVIOUS
<1> HIDE DEF g
<1>6. PICK counts : counts = c.counts
  OBVIOUS
<1>7. PicksOut(g, T, counts, ledger, at)
  BY <1>2, <1>4, <1>5, <1>6 DEF PicksOut
<1>8. CountOf(counts, ledger, at) = SumFunction(g)
  <2>1. Counts(counts)
    BY <1>6
  <2> QED BY <1>7, <2>1, CountedIn
<1> QED BY <1>3, <1>4, <1>6, <1>8

LEMMA CountIsNat ==
  ASSUME NEW counts, Counts(counts), NEW B, IsLedger(B), NEW at
  PROVE  CountOf(counts, B, at) \in Nat
<1>1. IsFiniteSet(RowsSince(B, at)) /\ RowsSince(B, at) \in SUBSET DOMAIN B
  BY FS_Subset DEF IsLedger, RowsSince
<1> QED BY <1>1, WeightsAreNat, SumIsNat DEF CountOf

\* A later window counts no more.
LEMMA CountFalls ==
  ASSUME NEW counts, Counts(counts), NEW B, IsLedger(B), NEW at \in Int, NEW later \in Int, at <= later
  PROVE  CountOf(counts, B, later) <= CountOf(counts, B, at)
<1>1. IsFiniteSet(RowsSince(B, at)) /\ RowsSince(B, at) \in SUBSET DOMAIN B
  BY FS_Subset DEF IsLedger, RowsSince
<1>2. RowsSince(B, later) \in SUBSET RowsSince(B, at)
  <2>1. \A row \in DOMAIN B : row.at \in Nat
    BY DEF IsLedger, IsRow
  <2> QED BY <2>1 DEF RowsSince
<1> QED BY <1>1, <1>2, WeightsAreNat, SumOfSubset DEF CountOf

\* One more row.
Booked(B, row) == B (+) SetToBag({row})

LEMMA BookedBag ==
  ASSUME NEW B, IsLedger(B), NEW row, IsRow(row)
  PROVE  /\ IsLedger(Booked(B, row)) /\ DOMAIN Booked(B, row) = DOMAIN B \cup {row}
         /\ Booked(B, row)[row] = (IF row \in DOMAIN B THEN B[row] ELSE 0) + 1
         /\ \A other \in DOMAIN B \ {row} : Booked(B, row)[other] = B[other]
<1>1. DOMAIN Booked(B, row) = DOMAIN B \cup {row}
  BY DEF Booked, SetToBag, (+)
<1>2. Booked(B, row)[row] = (IF row \in DOMAIN B THEN B[row] ELSE 0) + 1
  BY DEF Booked, SetToBag, (+)
<1>3. \A other \in DOMAIN B \ {row} : Booked(B, row)[other] = B[other]
  <2>1. ASSUME NEW other \in DOMAIN B \ {row} PROVE Booked(B, row)[other] = B[other]
    <3>1. Booked(B, row)[other] = B[other] + 0
      BY DEF Booked, SetToBag, (+)
    <3> QED BY <3>1 DEF IsLedger
  <2> QED BY <2>1
<1>4. IsFiniteSet(DOMAIN B \cup {row})
  BY FS_AddElement DEF IsLedger
<1> QED BY <1>1, <1>2, <1>3, <1>4 DEF IsLedger

LEMMA BookedCounts ==
  ASSUME NEW counts, Counts(counts), NEW B, IsLedger(B), NEW row, IsRow(row), NEW at, row.at >= at
  PROVE  CountOf(counts, Booked(B, row), at) = CountOf(counts, B, at) + counts[row.who][row.vendor][row.cost]
<1> DEFINE more == Booked(B, row)
           f == Weight(counts, B)
           g == Weight(counts, more)
           S == RowsSince(B, at)
           R == RowsSince(more, at)
           k == counts[row.who][row.vendor][row.cost]
           b == IF row \in DOMAIN B THEN B[row] ELSE 0
<1>1. /\ IsLedger(more) /\ DOMAIN more = DOMAIN B \cup {row} /\ more[row] = b + 1
      /\ \A other \in DOMAIN B \ {row} : more[other] = B[other]
  BY BookedBag
<1>2. R = S \cup {row} /\ S \in SUBSET DOMAIN B /\ R \in SUBSET DOMAIN more
  BY <1>1 DEF RowsSince
<1>3. IsFiniteSet(S) /\ IsFiniteSet(R)
  BY <1>1, <1>2, FS_Subset DEF IsLedger
<1>4. (\A x \in S : f[x] \in Nat) /\ \A x \in R : g[x] \in Nat
  BY <1>1, <1>2, WeightsAreNat
<1>5. \A x \in S \ {row} : f[x] = g[x]
  BY <1>1, <1>2 DEF Weight
<1>6. g[row] = (b + 1) * k /\ (row \in S => f[row] = b * k)
  BY <1>1, <1>2 DEF Weight
<1>7. k \in Nat /\ b \in Nat
  BY DEF IsLedger, IsRow, Counts
<1>8. row \in R /\ R \ {row} = S \ {row} /\ (row \in S <=> row \in DOMAIN B)
  BY <1>1, <1>2 DEF RowsSince
<1>9. CountOf(counts, B, at) = SumFunctionOnSet(f, S) /\ CountOf(counts, more, at) = SumFunctionOnSet(g, R)
  BY DEF CountOf
<1> HIDE DEF more, f, g, S, R, k, b
<1>10. SumFunctionOnSet(f, S \ {row}) = SumFunctionOnSet(g, S \ {row})
  <2>1. IsFiniteSet(S \ {row})
    BY <1>3, FS_Subset
  <2> QED BY <1>5, <2>1, SumAgrees
<1>11. SumFunctionOnSet(g, R) = g[row] + SumFunctionOnSet(g, R \ {row})
  BY <1>3, <1>4, <1>8, SumLess
<1>12. SumFunctionOnSet(f, S) = b * k + SumFunctionOnSet(f, S \ {row})
  <2>1. CASE row \in S
    <3>1. SumFunctionOnSet(f, S) = f[row] + SumFunctionOnSet(f, S \ {row})
      BY <1>3, <1>4, <2>1, SumLess
    <3> QED BY <1>6, <2>1, <3>1
  <2>2. CASE row \notin S
    <3>1. S \ {row} = S /\ b = 0
      BY <1>8, <2>2 DEF b
    <3>2. SumFunctionOnSet(f, S) \in Nat
      BY <1>3, <1>4, SumIsNat
    <3> QED BY <1>7, <3>1, <3>2
  <2> QED BY <2>1, <2>2
<1>13. SumFunctionOnSet(f, S \ {row}) \in Nat
  <2>1. IsFiniteSet(S \ {row})
    BY <1>3, FS_Subset
  <2> QED BY <1>4, <2>1, SumIsNat
<1>14. (b + 1) * k = b * k + k
  BY <1>7
<1>15. b * k \in Nat
  BY <1>7
<1>16. SumFunctionOnSet(g, R) = SumFunctionOnSet(f, S) + k
  <2>1. SumFunctionOnSet(g, R) = b * k + k + SumFunctionOnSet(f, S \ {row})
    BY <1>6, <1>8, <1>10, <1>11, <1>14
  <2> QED BY <1>7, <1>12, <1>13, <1>15, <2>1
<1> QED BY <1>9, <1>16 DEF more, k

-----------------------------------------------------------------------------
(* The rows of a turn are booked one by one.                                *)

BookedUpTo(books, B, rows, m) ==
  books = [n \in 0 .. m |-> IF n = 0 THEN B ELSE Booked(books[n - 1], rows[n])]

LEMMA BooksExist ==
  ASSUME NEW B, NEW rows, NEW m \in Nat
  PROVE  \E books : BookedUpTo(books, B, rows, m)
<1> DEFINE bad == {l \in Nat : ~ \E books : BookedUpTo(books, B, rows, l)}
<1> SUFFICES ASSUME bad # {} PROVE FALSE
  OBVIOUS
<1>1. PICK l \in bad : \A j \in bad : l <= j
  <2>1. bad \in SUBSET Nat
    OBVIOUS
  <2> HIDE DEF bad
  <2> QED BY <2>1, LeastNumber
<1>2. l \in Nat
  BY <1>1
<1>3. CASE l = 0
  <2>1. PICK f : f = [n \in 0 .. 0 |-> B]
    OBVIOUS
  <2>2. BookedUpTo(f, B, rows, 0)
    BY <2>1 DEF BookedUpTo
  <2> QED BY <1>1, <1>3, <2>2
<1>4. CASE l # 0
  <2>1. l - 1 \in Nat /\ l - 1 \notin bad
    <3> HIDE DEF bad
    <3> QED BY <1>1, <1>2, <1>4
  <2>2. PICK f : BookedUpTo(f, B, rows, l - 1)
    BY <2>1
  <2>3. PICK g : g = [n \in 0 .. l |-> IF n = l THEN Booked(f[l - 1], rows[l]) ELSE f[n]]
    OBVIOUS
  <2>4. \A n \in 0 .. l - 1 : g[n] = f[n]
    BY <1>2, <2>3
  <2>5. ASSUME NEW n \in 0 .. l
        PROVE  g[n] = IF n = 0 THEN B ELSE Booked(g[n - 1], rows[n])
    <3>1. CASE n = l
      BY <1>2, <1>4, <2>3, <2>4, <3>1
    <3>2. CASE n # l
      <4>1. n \in 0 .. l - 1 /\ g[n] = f[n] /\ (n # 0 => n - 1 \in 0 .. l - 1 /\ g[n - 1] = f[n - 1])
        BY <1>2, <2>4, <3>2
      <4>2. f[n] = IF n = 0 THEN B ELSE Booked(f[n - 1], rows[n])
        BY <2>2, <4>1 DEF BookedUpTo
      <4> QED BY <4>1, <4>2
    <3> QED BY <3>1, <3>2
  <2>6. BookedUpTo(g, B, rows, l)
    BY <2>3, <2>5 DEF BookedUpTo
  <2> QED BY <1>1, <2>6
<1> QED BY <1>3, <1>4

\* Rows of a window, with what each of them counts.
Weighed(rows, m, at, counts, g) ==
  \A i \in 1 .. m :
    IsRow(rows[i]) /\ rows[i].at >= at /\ g[i] = counts[rows[i].who][rows[i].vendor][rows[i].cost]

\* A list of rows adds to a count what each of them counts.
LEMMA BooksAddUp ==
  ASSUME NEW counts, Counts(counts), NEW B, IsLedger(B), NEW m \in Nat, NEW rows, NEW at, NEW g,
         Weighed(rows, m, at, counts, g), NEW books, BookedUpTo(books, B, rows, m)
  PROVE  /\ IsLedger(books[m])
         /\ CountOf(counts, books[m], at) = CountOf(counts, B, at) + SumFunctionOnSet(g, 1 .. m)
<1> DEFINE Good(n) == /\ IsLedger(books[n])
                      /\ CountOf(counts, books[n], at) = CountOf(counts, B, at) + SumFunctionOnSet(g, 1 .. n)
           bad == {n \in 0 .. m : ~Good(n)}
<1> SUFFICES ASSUME bad # {} PROVE FALSE
  OBVIOUS
<1>1. PICK n \in bad : \A j \in bad : n <= j
  <2>1. bad \in SUBSET Nat
    OBVIOUS
  <2> HIDE DEF bad
  <2> QED BY <2>1, LeastNumber
<1>2. n \in 0 .. m
  BY <1>1
<1>3. CASE n = 0
  <2>1. books[0] = B
    BY DEF BookedUpTo
  <2>2. 1 .. 0 = {} /\ SumFunctionOnSet(g, {}) = 0
    <3>1. IsFiniteSet({})
      BY FS_EmptySet
    <3>2. SumFunctionOnSet(g, {}) = 0
      BY <3>1, SumTakes
    <3> QED BY <3>2
  <2>3. CountOf(counts, B, at) \in Nat
    BY CountIsNat
  <2>4. Good(0)
    BY <2>1, <2>2, <2>3
  <2> QED BY <1>1, <1>3, <2>4
<1>4. CASE n # 0
  <2>1. n - 1 \in 0 .. m /\ n \in 1 .. m /\ n - 1 \notin bad
    <3> HIDE DEF bad
    <3> QED BY <1>1, <1>2, <1>4
  <2>2. Good(n - 1)
    BY <2>1
  <2>3. books[n] = Booked(books[n - 1], rows[n])
    BY <1>2, <1>4 DEF BookedUpTo
  <2>4. PICK row : row = rows[n]
    OBVIOUS
  <2>5. IsRow(row) /\ row.at >= at /\ g[n] = counts[row.who][row.vendor][row.cost] /\ g[n] \in Nat
    BY <2>1, <2>4 DEF Weighed, IsRow, Counts
  <2>a. PICK before : before = books[n - 1]
    OBVIOUS
  <2>b. IsLedger(before) /\ books[n] = Booked(before, row)
    BY <2>2, <2>3, <2>4, <2>a
  <2>6. IsLedger(books[n])
    <3>1. IsLedger(Booked(before, row))
      BY <2>5, <2>b, BookedBag
    <3> QED BY <2>b, <3>1
  <2>7. CountOf(counts, books[n], at) = CountOf(counts, books[n - 1], at) + g[n]
    <3>1. CountOf(counts, Booked(before, row), at) = CountOf(counts, before, at) + counts[row.who][row.vendor][row.cost]
      BY <2>5, <2>b, BookedCounts
    <3> QED BY <2>5, <2>a, <2>b, <3>1
  <2>8. SumFunctionOnSet(g, 1 .. n) = g[n] + SumFunctionOnSet(g, 1 .. n - 1) /\ SumFunctionOnSet(g, 1 .. n - 1) \in Nat
    <3>1. \A i \in 1 .. n : g[i] \in Nat
      <4>1. ASSUME NEW i \in 1 .. n PROVE g[i] \in Nat
        <5>1. i \in 1 .. m
          BY <2>1
        <5> QED BY <5>1 DEF Weighed, IsRow, Counts
      <4> QED BY <4>1
    <3>2. IsFiniteSet(1 .. n) /\ IsFiniteSet(1 .. n - 1) /\ n \in 1 .. n /\ (1 .. n) \ {n} = 1 .. n - 1
      <4>1. n \in Int /\ n - 1 \in Int /\ 1 \in Int
        BY <1>2
      <4>2. IsFiniteSet(1 .. n) /\ IsFiniteSet(1 .. n - 1)
        BY <4>1, FS_Interval
      <4>3. n \in 1 .. n /\ (1 .. n) \ {n} = 1 .. n - 1
        BY <2>1
      <4> QED BY <4>2, <4>3
    <3>3. SumFunctionOnSet(g, 1 .. n) = g[n] + SumFunctionOnSet(g, (1 .. n) \ {n})
      BY <3>1, <3>2, SumLess
    <3>4. SumFunctionOnSet(g, 1 .. n - 1) \in Nat
      BY <3>1, <3>2, SumIsNat
    <3> QED BY <3>2, <3>3, <3>4
  <2>9. CountOf(counts, B, at) \in Nat
    BY CountIsNat
  <2>10. Good(n)
    BY <2>2, <2>5, <2>6, <2>7, <2>8, <2>9
  <2> QED BY <1>1, <2>10
<1> QED BY <1>3, <1>4

\* What a turn has yet to record, once it is recorded.
LEMMA UnrecordedIsSum ==
  ASSUME NEW c, NEW t, DOMAIN t.calls = 1 .. Len(t.calls),
         NEW g, \A i \in 1 .. Len(t.calls) : g[i] = c.counts[t.who][t.calls[i].vendor][t.calls[i].cost],
         Len(t.calls) \in Nat
  PROVE  Unrecorded(c, t) = SumFunctionOnSet(g, 1 .. Len(t.calls))
<1>1. PICK f : f = [i \in DOMAIN t.calls |-> c.counts[t.who][t.calls[i].vendor][t.calls[i].cost]]
  OBVIOUS
<1>2. PICK m \in Nat : m = Len(t.calls)
  OBVIOUS
<1>3. IsFiniteSet(1 .. m)
  BY FS_Interval
<1>4. DOMAIN f = 1 .. m /\ \A i \in 1 .. m : f[i] = g[i]
  BY <1>1, <1>2
<1>5. SumFunctionOnSet(f, 1 .. m) = SumFunctionOnSet(g, 1 .. m)
  BY <1>3, <1>4, SumAgrees
<1>6. Unrecorded(c, t) = SumFunctionOnSet(f, DOMAIN f)
  BY <1>1 DEF Unrecorded, SumFunction
<1> QED BY <1>2, <1>4, <1>5, <1>6

LEMMA SettlingBooks ==
  ASSUME IsLedger(ledger), now \in Nat, NEW s \in Sessions, Settle(s), NEW t, t = turn[s], Priced(t), Allowed(t)
  PROVE  /\ IsLedger(ledger')
         /\ \A c : Counts(c.counts) /\ c.window \in Nat =>
              CountOf(c.counts, ledger', now - c.window) =
                CountOf(c.counts, ledger, now - c.window) + Unrecorded(c, t)
<1>1. PICK m \in Nat : m = Len(t.calls) /\ DOMAIN t.calls = 1 .. m
  BY Appending DEF Allowed
<1>2. PICK rows : rows = [i \in 1 .. m |-> LedgerRow(t, t.calls[i])]
  OBVIOUS
<1>3. ASSUME NEW i \in 1 .. m
      PROVE  /\ IsRow(rows[i]) /\ rows[i].at = now /\ rows[i].who = t.who
             /\ rows[i].vendor = t.calls[i].vendor /\ rows[i].cost = t.calls[i].cost
  <2>1. rows[i] = [who |-> t.who, vendor |-> t.calls[i].vendor, cost |-> t.calls[i].cost, at |-> now]
    BY <1>2 DEF LedgerRow
  <2>2. t.calls[i].cost \in Costs /\ t.calls[i].vendor \in ToSet(Vendors) /\ t.who \in Students
    BY <1>1 DEF Priced, Costs
  <2> QED BY <2>1, <2>2 DEF IsRow
<1>4. PICK books : books = CHOOSE f : BookedUpTo(f, ledger, rows, m)
  OBVIOUS
<1>5. BookedUpTo(books, ledger, rows, m)
  BY <1>4, BooksExist
<1>6. ledger' = books[m]
  <2>1. PICK calls : calls = t.calls
    OBVIOUS
  <2>2. ledger' = (CHOOSE f : f = [n \in 0 .. m |-> IF n = 0 THEN ledger
                                                     ELSE f[n - 1] (+) SetToBag({LedgerRow(t, calls[n])})])[m]
    BY <1>1, <2>1 DEF Settle
  <2>3. ASSUME NEW f
        PROVE  BookedUpTo(f, ledger, rows, m) <=>
                 f = [n \in 0 .. m |-> IF n = 0 THEN ledger ELSE f[n - 1] (+) SetToBag({LedgerRow(t, calls[n])})]
    <3>1. \A n \in 0 .. m : n # 0 => rows[n] = LedgerRow(t, calls[n])
      BY <1>2, <2>1
    <3>2. [n \in 0 .. m |-> IF n = 0 THEN ledger ELSE Booked(f[n - 1], rows[n])] =
          [n \in 0 .. m |-> IF n = 0 THEN ledger ELSE f[n - 1] (+) SetToBag({LedgerRow(t, calls[n])})]
      BY <3>1 DEF Booked
    <3> QED BY <3>2 DEF BookedUpTo
  <2> DEFINE P(f) == f = [n \in 0 .. m |-> IF n = 0 THEN ledger ELSE f[n - 1] (+) SetToBag({LedgerRow(t, calls[n])})]
  <2>4. ledger' = (CHOOSE f : P(f))[m]
    BY <2>2
  <2>5. \A f : BookedUpTo(f, ledger, rows, m) <=> P(f)
    BY <2>3
  <2> HIDE DEF P
  <2>6. (CHOOSE f : P(f)) = CHOOSE f : BookedUpTo(f, ledger, rows, m)
    BY <2>5, Zenon
  <2> QED BY <1>4, <2>4, <2>6
<1>7. ASSUME NEW c, Counts(c.counts), c.window \in Nat
      PROVE  /\ IsLedger(books[m])
             /\ CountOf(c.counts, books[m], now - c.window) =
                  CountOf(c.counts, ledger, now - c.window) + Unrecorded(c, t)
  <2>1. PICK g : g = [i \in 1 .. m |-> c.counts[t.who][t.calls[i].vendor][t.calls[i].cost]]
    OBVIOUS
  <2>2. PICK at : at = now - c.window /\ now >= at
    BY <1>7
  <2>3. Unrecorded(c, t) = SumFunctionOnSet(g, 1 .. m)
    BY <1>1, <2>1, UnrecordedIsSum
  <2>4. \A i \in 1 .. m : /\ IsRow(rows[i]) /\ rows[i].at >= at
                          /\ g[i] = c.counts[rows[i].who][rows[i].vendor][rows[i].cost]
    BY <1>3, <2>1, <2>2
  <2>5. /\ IsLedger(books[m])
        /\ CountOf(c.counts, books[m], at) = CountOf(c.counts, ledger, at) + SumFunctionOnSet(g, 1 .. m)
    <3>1. PICK counts : counts = c.counts
      OBVIOUS
    <3>2. Counts(counts)
      BY <1>7, <3>1
    <3>3. Weighed(rows, m, at, counts, g)
      BY <2>4, <3>1 DEF Weighed
    <3>4. PICK B : B = ledger
      OBVIOUS
    <3>5. IsLedger(B) /\ BookedUpTo(books, B, rows, m)
      BY <1>5, <3>4
    <3>6. /\ IsLedger(books[m])
          /\ CountOf(counts, books[m], at) = CountOf(counts, B, at) + SumFunctionOnSet(g, 1 .. m)
      BY <3>2, <3>3, <3>5, BooksAddUp
    <3> QED BY <3>1, <3>4, <3>6
  <2> QED BY <2>2, <2>3, <2>5
<1>8. IsLedger(books[m])
  <2>1. PICK c : c = [counts |-> [who \in Students |-> [vendor \in ToSet(Vendors) |-> [cost \in Costs |-> 0]]],
                      window |-> 0]
    OBVIOUS
  <2>2. Counts(c.counts) /\ c.window \in Nat
    BY <2>1 DEF Counts
  <2> QED BY <1>7, <2>2
<1> QED BY <1>6, <1>7, <1>8

-----------------------------------------------------------------------------
(* The ceilings.                                                            *)

Is(c, window, limit, perTurn) == c.window = window /\ c.limit = limit /\ c.perTurn = perTurn

\* What a ceiling counts: the costs, the calls that cost or those that do not,
\* of some students with some vendors.
CountsCosts(c, whose, whom) ==
  \A who \in Students, vendor \in ToSet(Vendors), cost \in Costs :
    c.counts[who][vendor][cost] = IF who \in whose /\ vendor \in whom THEN cost ELSE 0

CountsPaid(c, whose, whom) ==
  \A who \in Students, vendor \in ToSet(Vendors), cost \in Costs :
    c.counts[who][vendor][cost] = IF who \in whose /\ vendor \in whom THEN (IF cost > 0 THEN 1 ELSE 0) ELSE 0

CountsFree(c, whose, whom) ==
  \A who \in Students, vendor \in ToSet(Vendors), cost \in Costs :
    c.counts[who][vendor][cost] = IF who \in whose /\ vendor \in whom THEN (IF cost > 0 THEN 0 ELSE 1) ELSE 0

ForPlatform(c) ==
  /\ Is(c, HourWindow, Limits.hourly, TurnCost) \/ Is(c, DayWindow, Limits.daily, TurnCost)
  /\ CountsCosts(c, Students, ToSet(Vendors))

ForStudent(c, who) ==
  \/ Is(c, DayWindow, Plan[who].calls, TurnCalls) /\ CountsPaid(c, {who}, ToSet(Vendors))
  \/ /\ Is(c, DayWindow, Plan[who].daily, TurnCost) \/ Is(c, MonthWindow, Plan[who].monthly, TurnCost)
     /\ CountsCosts(c, {who}, ToSet(Vendors))

ForVendor(c, vendor) ==
  \/ /\ Is(c, DayWindow, IF Limits.providerDaily = 0 THEN 1 ELSE Limits.providerDaily, TurnCost)
     /\ CountsCosts(c, Students, {vendor})
  \/ Is(c, FailureWindow, Limits.circuit, MaxAttempts) /\ CountsFree(c, Students, {vendor})

LEMMA PricesAre ==
  /\ Price["CHEAP_TEXT"] = 1 /\ Price["STANDARD_TUTOR"] = 1
  /\ Price["ADVANCED_REASONING"] = 2 /\ Price["VERIFIER_PRIMARY"] = 1
  /\ TurnCost = 4 /\ TurnCalls = 3 /\ MaxAttempts = 2
  BY DEF Price, TurnCost, TurnCalls, MaxAttempts

LEMMA CostsAre == \A cost \in Costs : cost \in Nat
<1>1. ASSUME NEW alias \in Aliases, NEW outcome \in Outcomes PROVE Cost(alias, outcome) \in Nat
  BY PricesAre DEF Cost, Aliases
<1> QED BY <1>1 DEF Costs

LEMMA CeilingsAre ==
  ASSUME NEW c \in Ceilings
  PROVE  \/ ForPlatform(c)
         \/ \E who \in Students : ForStudent(c, who)
         \/ \E vendor \in ToSet(Vendors) : ForVendor(c, vendor)
<1>1. \/ c \in PlatformCeilings
      \/ \E who \in Students : c \in StudentCeilings(who)
      \/ \E vendor \in ToSet(Vendors) : c \in VendorCeilings(vendor)
  BY Zenon DEF Ceilings
<1>2. ASSUME c \in PlatformCeilings PROVE ForPlatform(c)
  <2>1. CountsCosts(c, Students, ToSet(Vendors))
    BY <1>2 DEF PlatformCeilings, CeilingOf, CountsCosts
  <2>2. Is(c, HourWindow, Limits.hourly, TurnCost) \/ Is(c, DayWindow, Limits.daily, TurnCost)
    BY <1>2 DEF PlatformCeilings, CeilingOf, Is
  <2> QED BY <2>1, <2>2 DEF ForPlatform
<1>3. ASSUME NEW who \in Students, c \in StudentCeilings(who) PROVE ForStudent(c, who)
  BY <1>3 DEF StudentCeilings, CeilingOf, ForStudent, CountsCosts, CountsPaid, Is, Paid
<1>4. ASSUME NEW vendor \in ToSet(Vendors), c \in VendorCeilings(vendor) PROVE ForVendor(c, vendor)
  <2> DEFINE room == IF Limits.providerDaily = 0 THEN 1 ELSE Limits.providerDaily
  <2>1. \A cost \in Costs : 1 - Paid(cost) = IF cost > 0 THEN 0 ELSE 1
    BY DEF Paid
  <2>2. \/ c = CeilingOf(LAMBDA w, v : v = vendor, LAMBDA cost : cost, DayWindow, room, TurnCost)
        \/ c = CeilingOf(LAMBDA w, v : v = vendor, LAMBDA cost : 1 - Paid(cost), FailureWindow, Limits.circuit, MaxAttempts)
    BY <1>4 DEF VendorCeilings, CeilingOf
  <2>3. ASSUME c = CeilingOf(LAMBDA w, v : v = vendor, LAMBDA cost : cost, DayWindow, room, TurnCost)
        PROVE  Is(c, DayWindow, room, TurnCost) /\ CountsCosts(c, Students, {vendor})
    <3> HIDE DEF room
    <3> QED BY <2>3 DEF CeilingOf, CountsCosts, Is
  <2>4. ASSUME c = CeilingOf(LAMBDA w, v : v = vendor, LAMBDA cost : 1 - Paid(cost), FailureWindow, Limits.circuit, MaxAttempts)
        PROVE  Is(c, FailureWindow, Limits.circuit, MaxAttempts) /\ CountsFree(c, Students, {vendor})
    BY <2>1, <2>4 DEF CeilingOf, CountsFree, Is
  <2> QED BY <2>2, <2>3, <2>4 DEF ForVendor
<1> QED BY <1>1, <1>2, <1>3, <1>4

LEMMA CeilingsCount ==
  ASSUME NEW c \in Ceilings
  PROVE  /\ Counts(c.counts) /\ c.window \in Nat /\ c.limit \in Nat \cup {NoLimit}
         /\ c.perTurn \in Nat /\ c.perTurn >= 1
<1>1. /\ HourWindow \in Nat /\ DayWindow \in Nat /\ MonthWindow \in Nat /\ FailureWindow \in Nat
      /\ Limits.hourly \in Nat \cup {NoLimit} /\ Limits.daily \in Nat \cup {NoLimit}
      /\ (IF Limits.providerDaily = 0 THEN 1 ELSE Limits.providerDaily) \in Nat \cup {NoLimit} /\ Limits.circuit \in Nat
      /\ \A who \in Students : /\ Plan[who].calls \in Nat \cup {NoLimit} /\ Plan[who].daily \in Nat \cup {NoLimit}
                               /\ Plan[who].monthly \in Nat \cup {NoLimit}
  BY WindowsAssumption, TutorTurnAssumption
<1>2. c.window \in Nat /\ c.limit \in Nat \cup {NoLimit} /\ c.perTurn \in Nat /\ c.perTurn >= 1
  <2>1. CASE ForPlatform(c)
    BY <1>1, <2>1, PricesAre DEF ForPlatform, Is
  <2>2. ASSUME NEW who \in Students, ForStudent(c, who)
        PROVE  c.window \in Nat /\ c.limit \in Nat \cup {NoLimit} /\ c.perTurn \in Nat /\ c.perTurn >= 1
    BY <1>1, <2>2, PricesAre DEF ForStudent, Is
  <2>3. ASSUME NEW vendor, ForVendor(c, vendor)
        PROVE  c.window \in Nat /\ c.limit \in Nat \cup {NoLimit} /\ c.perTurn \in Nat /\ c.perTurn >= 1
    <3> DEFINE room == IF Limits.providerDaily = 0 THEN 1 ELSE Limits.providerDaily
    <3>1. room \in Nat \cup {NoLimit}
      BY <1>1
    <3>2. Is(c, DayWindow, room, TurnCost) \/ Is(c, FailureWindow, Limits.circuit, MaxAttempts)
      BY <2>3 DEF ForVendor
    <3> HIDE DEF room
    <3> QED BY <1>1, <3>1, <3>2, PricesAre DEF Is
  <2> QED BY <2>1, <2>2, <2>3, CeilingsAre
<1>3. \E whose, whom : CountsCosts(c, whose, whom) \/ CountsPaid(c, whose, whom) \/ CountsFree(c, whose, whom)
  BY CeilingsAre DEF ForPlatform, ForStudent, ForVendor
<1>4. Counts(c.counts)
  BY <1>3, CostsAre DEF CountsCosts, CountsPaid, CountsFree, Counts
<1> QED BY <1>2, <1>4
-----------------------------------------------------------------------------
(* What one turn may add.                                                   *)

LEMMA ShortSums ==
  ASSUME NEW g, NEW m \in 0 .. 3, \A i \in 1 .. m : g[i] \in Nat
  PROVE  SumFunctionOnSet(g, 1 .. m) =
           (IF m >= 1 THEN g[1] ELSE 0) + (IF m >= 2 THEN g[2] ELSE 0) + (IF m >= 3 THEN g[3] ELSE 0)
<1>1. 1 .. 0 = {} /\ SumFunctionOnSet(g, {}) = 0
  <2>1. IsFiniteSet({})
    BY FS_EmptySet
  <2>2. SumFunctionOnSet(g, {}) = 0
    BY <2>1, SumTakes
  <2> QED BY <2>2
<1>2. ASSUME NEW k \in 1 .. 3, k <= m
      PROVE  SumFunctionOnSet(g, 1 .. k) = g[k] + SumFunctionOnSet(g, 1 .. k - 1)
  <2>1. IsFiniteSet(1 .. k)
    BY FS_Interval
  <2>2. (\A i \in 1 .. k : g[i] \in Nat) /\ k \in 1 .. k /\ (1 .. k) \ {k} = 1 .. k - 1
    BY <1>2
  <2>3. SumFunctionOnSet(g, 1 .. k) = g[k] + SumFunctionOnSet(g, (1 .. k) \ {k})
    BY <2>1, <2>2, SumLess
  <2> QED BY <2>2, <2>3
<1>3. m >= 1 => SumFunctionOnSet(g, 1 .. 1) = g[1] /\ g[1] \in Nat
  BY <1>1, <1>2
<1>4. m >= 2 => SumFunctionOnSet(g, 1 .. 2) = g[2] + g[1] /\ g[2] \in Nat
  BY <1>2, <1>3
<1>5. m >= 3 => SumFunctionOnSet(g, 1 .. 3) = g[3] + (g[2] + g[1]) /\ g[3] \in Nat
  BY <1>2, <1>4
<1>6. m \in {0, 1, 2, 3}
  OBVIOUS
<1>7. CASE m = 0
  BY <1>1, <1>7
<1>8. CASE m = 1
  BY <1>3, <1>8
<1>9. CASE m = 2
  BY <1>3, <1>4, <1>9
<1>10. CASE m = 3
  BY <1>3, <1>4, <1>5, <1>10
<1> QED BY <1>6, <1>7, <1>8, <1>9, <1>10

\* The calls of a turn: those for the answer, and one to check it.
Made(t, n) == ForTheAnswer(t, n) /\ (Len(t.calls) = n \/ Checked(t, n))

LEMMA TurnsMake ==
  ASSUME NEW t, TurnInv(t), t # Idle
  PROVE  Allowed(t) /\ \E n \in 0 .. MaxAttempts : Made(t, n)
<1>1. Allowed(t)
  BY DEF TurnInv
<1>2. ForTheAnswer(t, Len(t.calls)) \/ Settling(t)
  BY DEF TurnInv, Calling, Verifying
<1>3. ForTheAnswer(t, Len(t.calls)) => Len(t.calls) \in 0 .. MaxAttempts
  BY DEF ForTheAnswer
<1> QED BY <1>1, <1>2, <1>3 DEF Made, Settling

LEMMA OutcomesCost ==
  ASSUME NEW alias \in Aliases, NEW outcome \in Outcomes
  PROVE  /\ Cost(alias, outcome) \in 0 .. 2
         /\ alias # "ADVANCED_REASONING" => Cost(alias, outcome) <= 1
         /\ outcome = "timeout" => Cost(alias, outcome) = 0
         /\ Succeeded(outcome) => Cost(alias, outcome) > 0
  BY PricesAre DEF Cost, Aliases, Succeeded

\* At most three calls, the last to the verifier; the second is free of what
\* the first was paid for only on another alias.
LEMMA CallsCost ==
  ASSUME NEW t, Allowed(t), Priced(t), NEW n \in 0 .. MaxAttempts, Made(t, n)
  PROVE  LET m == Len(t.calls)
             x(i) == t.calls[i].cost
         IN  /\ m \in 0 .. 3 /\ \A i \in 1 .. m : x(i) \in 0 .. 2
             /\ m >= 2 => x(1) + x(2) <= 3
             /\ m = 3 => x(3) <= 1 /\ x(2) > 0
<1> DEFINE m == Len(t.calls)
           x(i) == t.calls[i].cost
<1>1. n \in {0, 1, 2} /\ (m = n \/ m = n + 1) /\ DOMAIN t.calls = 1 .. m /\ m \in Nat
  BY Appending, PricesAre DEF Made, Checked, Allowed
<1>2. m \in 0 .. 3 /\ (m = 3 => n = 2)
  <2> HIDE DEF m
  <2> QED BY <1>1
<1>3. \A i \in 1 .. m : /\ t.calls[i].alias \in Aliases /\ t.calls[i].outcome \in Outcomes
                        /\ x(i) = Cost(t.calls[i].alias, t.calls[i].outcome)
  BY <1>1 DEF Priced
<1>4. \A i \in 1 .. m : x(i) \in 0 .. 2
  BY <1>3, OutcomesCost
<1>5. ASSUME m = n + 1 PROVE n >= 1 /\ x(n) > 0 /\ x(n + 1) <= 1
  <2>1. Checked(t, n)
    BY <1>1, <1>5 DEF Made
  <2>2. /\ n >= 1 /\ ~Fails(t.calls[n]) /\ t.calls[n + 1].alias = "VERIFIER_PRIMARY"
        /\ n \in 1 .. m /\ n + 1 \in 1 .. m
    BY <1>1, <1>5, <2>1 DEF Checked
  <2>3. x(n) > 0
    BY <1>3, <2>2, OutcomesCost DEF Fails
  <2>4. x(n + 1) <= 1
    BY <1>3, <2>2, OutcomesCost
  <2> QED BY <2>2, <2>3, <2>4
<1>6. ASSUME n = 2 PROVE x(1) + x(2) <= 3
  <2>1. 1 \in 1 .. n /\ 2 \in 1 .. n /\ 1 \in 1 .. m /\ 2 \in 1 .. m
    <3> HIDE DEF m
    <3> QED BY <1>1, <1>6
  <2>2. Fails(t.calls[1]) /\ (Repeating(t.calls[1]) => t.calls[2].alias # t.calls[1].alias)
    BY <1>6, <2>1 DEF Made, ForTheAnswer
  <2>3. t.calls[1].outcome = "timeout" \/ Repeating(t.calls[1])
    BY <1>3, <2>1, <2>2 DEF Outcomes, Fails, Succeeded, Repeating
  <2>4. CASE t.calls[1].outcome = "timeout"
    <3>1. x(1) = 0
      BY <1>3, <2>1, <2>4, OutcomesCost
    <3>2. x(2) \in 0 .. 2
      BY <1>4, <2>1
    <3> HIDE DEF x
    <3> QED BY <3>1, <3>2
  <2>5. CASE t.calls[2].alias # t.calls[1].alias
    <3>1. x(1) <= 1 \/ x(2) <= 1
      BY <1>3, <2>1, <2>5, OutcomesCost
    <3>2. x(1) \in 0 .. 2 /\ x(2) \in 0 .. 2
      BY <1>4, <2>1
    <3> HIDE DEF x
    <3> QED BY <3>1, <3>2
  <2> QED BY <2>2, <2>3, <2>4, <2>5
<1>7. ASSUME m >= 2 PROVE x(1) + x(2) <= 3
  <2>1. CASE n = 2
    BY <1>6, <2>1
  <2>2. CASE n # 2
    <3>1. n = 1 /\ m = n + 1
      BY <1>1, <1>7, <2>2
    <3>2. x(2) <= 1 /\ x(1) \in 0 .. 2 /\ x(2) \in 0 .. 2
      BY <1>4, <1>5, <3>1
    <3> HIDE DEF x
    <3> QED BY <3>2
  <2> QED BY <2>1, <2>2
<1>8. m = 3 => x(3) <= 1 /\ x(2) > 0
  BY <1>1, <1>2, <1>5
<1> QED BY <1>2, <1>4, <1>7, <1>8

\* A turn counts at most its share of a ceiling, and nothing of one that does
\* not concern it.
LEMMA TurnsShare ==
  ASSUME NEW c \in Ceilings, NEW t, Allowed(t), Priced(t), NEW n \in 0 .. MaxAttempts, Made(t, n)
  PROVE  /\ Unrecorded(c, t) \in Nat /\ Unrecorded(c, t) <= c.perTurn
         /\ ~MayCount(c, t) => Unrecorded(c, t) = 0
<1>1. PICK m : m = Len(t.calls)
  OBVIOUS
<1>2. PICK x : x = [i \in 1 .. m |-> t.calls[i].cost]
  OBVIOUS
<1>3. /\ m \in 0 .. 3 /\ \A i \in 1 .. m : x[i] \in 0 .. 2
      /\ m >= 2 => x[1] + x[2] <= 3
      /\ m = 3 => x[3] <= 1 /\ x[2] > 0
  <2>1. /\ m \in 0 .. 3 /\ \A i \in 1 .. m : t.calls[i].cost \in 0 .. 2
        /\ m >= 2 => t.calls[1].cost + t.calls[2].cost <= 3
        /\ m = 3 => t.calls[3].cost <= 1 /\ t.calls[2].cost > 0
    BY <1>1, CallsCost
  <2>2. \A i \in 1 .. m : x[i] = t.calls[i].cost
    BY <1>2
  <2>3. (m >= 2 => 1 \in 1 .. m /\ 2 \in 1 .. m) /\ (m = 3 => 3 \in 1 .. m)
    BY <2>1
  <2> QED BY <2>1, <2>2, <2>3
<1>4. DOMAIN t.calls = 1 .. m /\ Len(t.calls) \in Nat
  BY <1>1, Appending DEF Allowed
<1>5. \A i \in 1 .. m : t.calls[i].vendor \in ToSet(Vendors) \ t.blocked /\ x[i] \in Costs /\ t.who \in Students
  BY <1>2, <1>4 DEF Priced, Costs
<1>6. PICK g : g = [i \in 1 .. m |-> c.counts[t.who][t.calls[i].vendor][t.calls[i].cost]]
  OBVIOUS
<1>7. \A i \in 1 .. m : g[i] = c.counts[t.who][t.calls[i].vendor][x[i]] /\ g[i] \in Nat
  BY <1>2, <1>5, <1>6, CeilingsCount DEF Counts
<1>8. Unrecorded(c, t) = SumFunctionOnSet(g, 1 .. m)
  BY <1>1, <1>4, <1>6, UnrecordedIsSum
<1>9. Unrecorded(c, t) = (IF m >= 1 THEN g[1] ELSE 0) + (IF m >= 2 THEN g[2] ELSE 0) + (IF m >= 3 THEN g[3] ELSE 0)
  BY <1>3, <1>7, <1>8, ShortSums
<1>10. (m >= 1 => 1 \in 1 .. m) /\ (m >= 2 => 2 \in 1 .. m) /\ (m >= 3 => 3 \in 1 .. m)
  BY <1>3
<1>11. (m >= 1 => g[1] \in Nat) /\ (m >= 2 => g[2] \in Nat) /\ (m >= 3 => g[3] \in Nat)
  BY <1>7, <1>10
<1>12. ASSUME ~MayCount(c, t) PROVE Unrecorded(c, t) = 0
  <2>1. \A i \in 1 .. m : g[i] = 0
    BY <1>5, <1>7, <1>12 DEF MayCount
  <2>2. (m >= 1 => g[1] = 0) /\ (m >= 2 => g[2] = 0) /\ (m >= 3 => g[3] = 0)
    BY <1>10, <2>1
  <2> QED BY <1>9, <2>2
<1>13. \/ c.perTurn = 4 /\ \A i \in 1 .. m : g[i] <= x[i]
       \/ c.perTurn = 3 /\ \A i \in 1 .. m : g[i] <= 1
       \/ c.perTurn = 2 /\ \A i \in 1 .. m : g[i] <= 1 /\ (x[i] > 0 => g[i] = 0)
  <2>1. \/ c.perTurn = 4 /\ \E whose, whom : CountsCosts(c, whose, whom)
        \/ c.perTurn = 3 /\ \E whose, whom : CountsPaid(c, whose, whom)
        \/ c.perTurn = 2 /\ \E whose, whom : CountsFree(c, whose, whom)
    BY CeilingsAre, PricesAre DEF ForPlatform, ForStudent, ForVendor, Is
  <2>2. ASSUME NEW whose, NEW whom, CountsCosts(c, whose, whom) PROVE \A i \in 1 .. m : g[i] <= x[i]
    BY <1>3, <1>5, <1>7, <2>2 DEF CountsCosts
  <2>3. ASSUME NEW whose, NEW whom, CountsPaid(c, whose, whom) PROVE \A i \in 1 .. m : g[i] <= 1
    BY <1>3, <1>5, <1>7, <2>3 DEF CountsPaid
  <2>4. ASSUME NEW whose, NEW whom, CountsFree(c, whose, whom)
        PROVE  \A i \in 1 .. m : g[i] <= 1 /\ (x[i] > 0 => g[i] = 0)
    BY <1>3, <1>5, <1>7, <2>4 DEF CountsFree
  <2> QED BY <2>1, <2>2, <2>3, <2>4
<1>14. /\ m >= 1 => x[1] \in 0 .. 2
       /\ m >= 2 => x[2] \in 0 .. 2
       /\ m >= 3 => x[3] \in 0 .. 2
  BY <1>3, <1>10
<1>15. Unrecorded(c, t) \in Nat
  BY <1>9, <1>11
<1>16. Unrecorded(c, t) <= c.perTurn
  <2>1. CASE c.perTurn = 4 /\ \A i \in 1 .. m : g[i] <= x[i]
    <3>1. (m >= 1 => g[1] <= x[1]) /\ (m >= 2 => g[2] <= x[2]) /\ (m >= 3 => g[3] <= x[3])
      BY <1>10, <2>1
    <3> QED BY <1>3, <1>9, <1>11, <1>14, <2>1, <3>1
  <2>2. CASE c.perTurn = 3 /\ \A i \in 1 .. m : g[i] <= 1
    <3>1. (m >= 1 => g[1] <= 1) /\ (m >= 2 => g[2] <= 1) /\ (m >= 3 => g[3] <= 1)
      BY <1>10, <2>2
    <3> QED BY <1>9, <1>11, <2>2, <3>1
  <2>3. CASE c.perTurn = 2 /\ \A i \in 1 .. m : g[i] <= 1 /\ (x[i] > 0 => g[i] = 0)
    <3>1. (m >= 1 => g[1] <= 1) /\ (m >= 2 => g[2] <= 1) /\ (m >= 3 => g[3] <= 1 /\ g[2] = 0)
      BY <1>3, <1>10, <2>3
    <3> QED BY <1>9, <1>11, <2>3, <3>1
  <2> QED BY <1>13, <2>1, <2>2, <2>3
<1> QED BY <1>12, <1>15, <1>16
-----------------------------------------------------------------------------
(* What the gates have seen.                                                *)

\* A gate that is shut is found.
LEMMA ShutIsFound ==
  ASSUME NEW gates, NEW i \in 1 .. Len(gates), gates[i][1]
  PROVE  SelectInSeq(gates, LAMBDA gate : gate[1]) # 0
<1> DEFINE shut == {k \in 1 .. Len(gates) : gates[k][1]}
<1>1. shut \in SUBSET Nat /\ i \in shut /\ 0 \notin shut
  OBVIOUS
<1>2. SelectInSeq(gates, LAMBDA gate : gate[1]) = IF shut # {} THEN Min(shut) ELSE 0
  BY DEF SelectInSeq
<1> HIDE DEF shut
<1>3. PICK m \in shut : \A k \in shut : m <= k
  BY <1>1, LeastNumber
<1>4. Min(shut) \in shut
  BY <1>3 DEF Min
<1> QED BY <1>1, <1>2, <1>4

LEMMA GatesWereOpen ==
  ASSUME NEW ctx, Decide(ctx).aliases # <<>>
  PROVE  /\ ~Reached(ctx.quota.systemHour, ctx.limits.hourly) /\ ~Reached(ctx.quota.systemToday, ctx.limits.daily)
         /\ ~Reached(ctx.quota.spentMonth, ctx.plan.monthly) /\ ~Reached(ctx.quota.spentToday, ctx.plan.daily)
         /\ ~Reached(ctx.quota.calls, ctx.plan.calls)
<1> DEFINE q == ctx.quota
           gates == <<
             <<~ctx.enabled,                                      "FEATURE_DISABLED">>,
             <<~ctx.plan.paid,                                    "REJECT_PLAN">>,
             <<ctx.capability \notin TextCapabilities,            "FEATURE_DISABLED">>,
             <<ctx.capability \notin ctx.plan.capabilities,       "REJECT_PLAN">>,
             <<Reached(q.systemHour, ctx.limits.hourly),          "REJECT_SYSTEM_BUDGET">>,
             <<Reached(q.systemToday, ctx.limits.daily),          "REJECT_SYSTEM_BUDGET">>,
             <<Reached(q.spentMonth, ctx.plan.monthly),           "REJECT_QUOTA">>,
             <<Reached(q.spentToday, ctx.plan.daily),             "REJECT_QUOTA">>,
             <<Reached(q.calls, ctx.plan.calls),                  "REJECT_QUOTA">>,
             <<ctx.tokens > MaxContextTokens,                     "REJECT_SIZE">> >>
           shut == SelectInSeq(gates, LAMBDA gate : gate[1])
<1>1. Decide(ctx) = IF shut # 0 THEN Rejected(gates[shut][2]) ELSE SelectTier(ctx)
  BY DEF Decide
<1>2. /\ Len(gates) = 10
      /\ gates[5][1] = Reached(q.systemHour, ctx.limits.hourly)
      /\ gates[6][1] = Reached(q.systemToday, ctx.limits.daily)
      /\ gates[7][1] = Reached(q.spentMonth, ctx.plan.monthly)
      /\ gates[8][1] = Reached(q.spentToday, ctx.plan.daily)
      /\ gates[9][1] = Reached(q.calls, ctx.plan.calls)
  OBVIOUS
<1> HIDE DEF gates
<1>3. \A i \in 1 .. Len(gates) : gates[i][1] => shut # 0
  BY ShutIsFound
<1>4. shut # 0 => Decide(ctx).aliases = <<>>
  BY <1>1 DEF Rejected
<1> HIDE DEF shut
<1>5. \A i \in 1 .. 10 : ~gates[i][1]
  BY <1>2, <1>3, <1>4
<1>6. 5 \in 1 .. 10 /\ 6 \in 1 .. 10 /\ 7 \in 1 .. 10 /\ 8 \in 1 .. 10 /\ 9 \in 1 .. 10
  OBVIOUS
<1>7. ~gates[5][1] /\ ~gates[6][1] /\ ~gates[7][1] /\ ~gates[8][1] /\ ~gates[9][1]
  BY <1>5, <1>6
<1> QED BY <1>2, <1>7

\* The rows a ceiling counts, picked out of its window.
LEMMA RecordedIn ==
  ASSUME IsLedger(ledger), NEW c, Counts(c.counts), NEW T \in SUBSET Since(ledger, now, c.window), NEW g, DOMAIN g = T,
         \A r \in T : g[r] = ledger[r] * c.counts[r.who][r.vendor][r.cost],
         \A r \in Since(ledger, now, c.window) \ T : c.counts[r.who][r.vendor][r.cost] = 0
  PROVE  Recorded(c) = SumFunction(g) /\ Recorded(c) \in Nat
<1>1. PICK at : at = now - c.window
  OBVIOUS
<1>2. PICK counts : counts = c.counts
  OBVIOUS
<1>3. Since(ledger, now, c.window) = RowsSince(ledger, at)
  BY <1>1 DEF Since, RowsSince, BagToSet
<1>4. Recorded(c) = CountOf(counts, ledger, at)
  BY <1>1, <1>2, RecordedIsCounted
<1>5. PICK B : B = ledger
  OBVIOUS
<1>6. Counts(counts) /\ IsLedger(B)
  BY <1>2, <1>5
<1>7. PicksOut(g, T, counts, B, at)
  BY <1>2, <1>3, <1>5 DEF PicksOut
<1>8. CountOf(counts, B, at) = SumFunction(g) /\ CountOf(counts, B, at) \in Nat
  BY <1>6, <1>7, CountedIn, CountIsNat
<1> QED BY <1>4, <1>5, <1>8

LEMMA RowsAreRows ==
  ASSUME IsLedger(ledger), NEW window, NEW r \in Since(ledger, now, window)
  PROVE  IsRow(r) /\ ledger[r] \in Nat
  BY DEF Since, BagToSet, IsLedger

LEMMA SpendIsRecorded ==
  ASSUME IsLedger(ledger), NEW c \in Ceilings, NEW whose, NEW whom, CountsCosts(c, whose, whom),
         NEW T \in SUBSET Since(ledger, now, c.window),
         \A r \in Since(ledger, now, c.window) : r \in T <=> r.who \in whose /\ r.vendor \in whom
  PROVE  Recorded(c) = Spend(ledger, T) /\ Recorded(c) \in Nat
<1>1. PICK g : g = [r \in T |-> ledger[r] * r.cost]
  OBVIOUS
<1>2. \A r \in T : g[r] = ledger[r] * c.counts[r.who][r.vendor][r.cost]
  BY <1>1, RowsAreRows DEF IsRow, CountsCosts
<1>3. \A r \in Since(ledger, now, c.window) \ T : c.counts[r.who][r.vendor][r.cost] = 0
  BY RowsAreRows DEF IsRow, CountsCosts
<1>4. DOMAIN g = T /\ Counts(c.counts)
  BY <1>1, CeilingsCount
<1>5. Recorded(c) = SumFunction(g) /\ Recorded(c) \in Nat
  BY <1>2, <1>3, <1>4, RecordedIn
<1> QED BY <1>1, <1>5 DEF Spend

LEMMA PaidIsRecorded ==
  ASSUME IsLedger(ledger), NEW c \in Ceilings, NEW whose, NEW whom, CountsPaid(c, whose, whom),
         NEW T \in SUBSET Since(ledger, now, c.window),
         \A r \in Since(ledger, now, c.window) : r \in T <=> r.who \in whose /\ r.vendor \in whom /\ Billed(r)
  PROVE  Recorded(c) = Rows(ledger, T) /\ Recorded(c) \in Nat
<1>1. PICK g : g = [r \in T |-> ledger[r]]
  OBVIOUS
<1>2. ASSUME NEW r \in T PROVE g[r] = ledger[r] * c.counts[r.who][r.vendor][r.cost]
  <2>1. IsRow(r) /\ ledger[r] \in Nat
    BY RowsAreRows
  <2>2. c.counts[r.who][r.vendor][r.cost] = 1
    BY <2>1 DEF IsRow, CountsPaid, Billed
  <2> QED BY <1>1, <2>1, <2>2
<1>3. \A r \in Since(ledger, now, c.window) \ T : c.counts[r.who][r.vendor][r.cost] = 0
  BY RowsAreRows DEF IsRow, CountsPaid, Billed
<1>4. DOMAIN g = T /\ Counts(c.counts)
  BY <1>1, CeilingsCount
<1>5. Recorded(c) = SumFunction(g) /\ Recorded(c) \in Nat
  BY <1>2, <1>3, <1>4, RecordedIn
<1> QED BY <1>1, <1>5 DEF Rows

LEMMA FailuresAreRecorded ==
  ASSUME IsLedger(ledger), NEW c \in Ceilings, NEW whose, NEW whom, CountsFree(c, whose, whom),
         NEW T \in SUBSET Since(ledger, now, c.window),
         \A r \in Since(ledger, now, c.window) : r \in T <=> r.who \in whose /\ r.vendor \in whom /\ Failed(r)
  PROVE  Recorded(c) = Rows(ledger, T) /\ Recorded(c) \in Nat
<1>1. PICK g : g = [r \in T |-> ledger[r]]
  OBVIOUS
<1>2. ASSUME NEW r \in T PROVE g[r] = ledger[r] * c.counts[r.who][r.vendor][r.cost]
  <2>1. IsRow(r) /\ ledger[r] \in Nat
    BY RowsAreRows
  <2>2. c.counts[r.who][r.vendor][r.cost] = 1
    BY <2>1 DEF IsRow, CountsFree, Failed
  <2> QED BY <1>1, <2>1, <2>2
<1>3. \A r \in Since(ledger, now, c.window) \ T : c.counts[r.who][r.vendor][r.cost] = 0
  BY RowsAreRows, CostsAre DEF IsRow, CountsFree, Failed
<1>4. DOMAIN g = T /\ Counts(c.counts)
  BY <1>1, CeilingsCount
<1>5. Recorded(c) = SumFunction(g) /\ Recorded(c) \in Nat
  BY <1>2, <1>3, <1>4, RecordedIn
<1> QED BY <1>1, <1>5 DEF Rows

LEMMA NothingSpent == ASSUME NEW B PROVE Rows(B, {}) = 0 /\ Spend(B, {}) = 0
<1>1. IsFiniteSet({})
  BY FS_EmptySet
<1>2. \A f : SumFunctionOnSet(f, {}) = 0
  BY <1>1, SumTakes
<1>3. ASSUME NEW f, DOMAIN f = {} PROVE SumFunction(f) = 0
  BY <1>2, <1>3 DEF SumFunction
<1>4. PICK f, g : f = [r \in {} |-> B[r]] /\ g = [r \in {} |-> B[r] * r.cost]
  OBVIOUS
<1>5. SumFunction(f) = 0 /\ SumFunction(g) = 0
  BY <1>3, <1>4
<1> QED BY <1>4, <1>5 DEF Rows, Spend

\* A quota that lets a turn through shows room under every ceiling that counts
\* what the turn may call.
LEMMA RoomWasSeen ==
  ASSUME IsLedger(ledger), now \in Nat, NEW who \in Students, NEW quota, quota = QuotaSnapshot(ledger, who, now),
         NEW ctx, ctx.quota = quota, ctx.plan = Plan[who], ctx.limits = Limits, Decide(ctx).aliases # <<>>,
         NEW t, t.who = who, t.blocked = BlockedProviders(quota, Limits),
         NEW c \in Ceilings, c.limit # NoLimit, MayCount(c, t)
  PROVE  Recorded(c) <= c.limit - 1
<1> DEFINE day == Since(ledger, now, DayWindow)
           rows(w) == Since(ledger, now, w)
<1>1. /\ quota.calls = Rows(ledger, {r \in {x \in day : x.who = who} : Billed(r)})
      /\ quota.spentToday = Spend(ledger, {x \in day : x.who = who})
      /\ quota.spentMonth = Spend(ledger, {x \in rows(MonthWindow) : x.who = who})
      /\ quota.systemToday = Spend(ledger, day)
      /\ quota.systemHour = Spend(ledger, rows(HourWindow))
      /\ quota.byVendor = [v \in {r.vendor : r \in day} |-> Spend(ledger, {r \in day : r.vendor = v})]
      /\ quota.failures = [v \in {r.vendor : r \in day} |->
                             Rows(ledger, {r \in {x \in rows(FailureWindow) : x.vendor = v} : Failed(r)})]
  BY DEF QuotaSnapshot
<1>2. /\ ~Reached(quota.systemHour, Limits.hourly) /\ ~Reached(quota.systemToday, Limits.daily)
      /\ ~Reached(quota.spentMonth, Plan[who].monthly) /\ ~Reached(quota.spentToday, Plan[who].daily)
      /\ ~Reached(quota.calls, Plan[who].calls)
  BY GatesWereOpen
<1>3. c.limit \in Nat
  BY CeilingsCount
<1>4. ASSUME NEW amount, Recorded(c) = amount, amount \in Nat, ~Reached(amount, c.limit)
      PROVE  Recorded(c) <= c.limit - 1
  BY <1>3, <1>4 DEF Reached
<1>5. PICK vendor \in ToSet(Vendors) \ t.blocked, cost \in Costs : c.counts[who][vendor][cost] # 0
  BY DEF MayCount
<1>6. \A w : \A r \in rows(w) : IsRow(r)
  BY RowsAreRows
<1> HIDE DEF day, rows
<1>7. CASE ForPlatform(c)
  <2>1. PICK T : T = rows(c.window)
    OBVIOUS
  <2>2. CountsCosts(c, Students, ToSet(Vendors))
    BY <1>7 DEF ForPlatform
  <2>3. Recorded(c) = Spend(ledger, T) /\ Recorded(c) \in Nat
    <3>1. \A r \in T : r.who \in Students /\ r.vendor \in ToSet(Vendors)
      BY <1>6, <2>1 DEF IsRow
    <3> QED BY <2>1, <2>2, <3>1, SpendIsRecorded DEF rows
  <2>4. CASE Is(c, HourWindow, Limits.hourly, TurnCost)
    <3>1. Spend(ledger, T) = quota.systemHour
      BY <1>1, <2>1, <2>4 DEF Is
    <3> QED BY <1>2, <1>4, <2>3, <2>4, <3>1 DEF Is
  <2>5. CASE Is(c, DayWindow, Limits.daily, TurnCost)
    <3>1. Spend(ledger, T) = quota.systemToday
      BY <1>1, <2>1, <2>5 DEF Is, day, rows
    <3> QED BY <1>2, <1>4, <2>3, <2>5, <3>1 DEF Is
  <2> QED BY <1>7, <2>4, <2>5 DEF ForPlatform
<1>8. ASSUME NEW w \in Students, ForStudent(c, w) PROVE Recorded(c) <= c.limit - 1
  <2>1. w = who
    BY <1>5, <1>8 DEF ForStudent, CountsCosts, CountsPaid
  <2>2. CASE Is(c, DayWindow, Plan[who].calls, TurnCalls) /\ CountsPaid(c, {who}, ToSet(Vendors))
    <3>1. PICK T : T = {r \in {x \in day : x.who = who} : Billed(r)}
      OBVIOUS
    <3>2. day = rows(c.window)
      BY <2>2 DEF Is, day, rows
    <3>3. T \in SUBSET rows(c.window)
      BY <3>1, <3>2
    <3>4. \A r \in rows(c.window) : r \in T <=> r.who \in {who} /\ r.vendor \in ToSet(Vendors) /\ Billed(r)
      BY <1>6, <3>1, <3>2 DEF IsRow
    <3>5. Recorded(c) = Rows(ledger, T) /\ Recorded(c) \in Nat
      BY <2>2, <3>3, <3>4, PaidIsRecorded DEF rows
    <3> QED BY <1>1, <1>2, <1>4, <2>2, <3>1, <3>5 DEF Is
  <2>3. ASSUME CountsCosts(c, {who}, ToSet(Vendors))
        PROVE  Recorded(c) = Spend(ledger, {x \in rows(c.window) : x.who = who}) /\ Recorded(c) \in Nat
    <3>1. PICK T : T = {x \in rows(c.window) : x.who = who}
      OBVIOUS
    <3>2. T \in SUBSET rows(c.window)
      BY <3>1
    <3>3. \A r \in rows(c.window) : r \in T <=> r.who \in {who} /\ r.vendor \in ToSet(Vendors)
      BY <1>6, <3>1 DEF IsRow
    <3>4. Recorded(c) = Spend(ledger, T) /\ Recorded(c) \in Nat
      BY <2>3, <3>2, <3>3, SpendIsRecorded DEF rows
    <3> QED BY <3>1, <3>4
  <2>4. CASE Is(c, DayWindow, Plan[who].daily, TurnCost) /\ CountsCosts(c, {who}, ToSet(Vendors))
    <3>1. day = rows(c.window)
      BY <2>4 DEF Is, day, rows
    <3>2. Recorded(c) = quota.spentToday /\ Recorded(c) \in Nat
      BY <1>1, <2>3, <2>4, <3>1
    <3> QED BY <1>2, <1>4, <2>4, <3>2 DEF Is
  <2>5. CASE Is(c, MonthWindow, Plan[who].monthly, TurnCost) /\ CountsCosts(c, {who}, ToSet(Vendors))
    <3>1. Recorded(c) = quota.spentMonth /\ Recorded(c) \in Nat
      BY <1>1, <2>3, <2>5 DEF Is
    <3> QED BY <1>2, <1>4, <2>5, <3>1 DEF Is
  <2> QED BY <1>8, <2>1, <2>2, <2>4, <2>5 DEF ForStudent
<1>9. ASSUME NEW v \in ToSet(Vendors), ForVendor(c, v) PROVE Recorded(c) <= c.limit - 1
  <2>1. v = vendor /\ v \notin t.blocked
    BY <1>5, <1>9 DEF ForVendor, CountsCosts, CountsFree
  <2>2. v \in {r.vendor : r \in day} => /\ ~(quota.failures[v] >= Limits.circuit)
                                        /\ ~Reached(quota.byVendor[v], Limits.providerDaily)
    BY <1>1, <2>1 DEF BlockedProviders
  <2>3. c.limit >= 1 \/ c.limit = Limits.providerDaily
    BY <1>9, TutorTurnAssumption DEF ForVendor, Is
  <2> DEFINE room == IF Limits.providerDaily = 0 THEN 1 ELSE Limits.providerDaily
  <2>4. CASE Is(c, DayWindow, room, TurnCost) /\ CountsCosts(c, Students, {v})
    <3>1. PICK T : T = {r \in day : r.vendor = v}
      OBVIOUS
    <3>2. day = rows(c.window)
      BY <2>4 DEF Is, day, rows
    <3>3. T \in SUBSET rows(c.window)
      BY <3>1, <3>2
    <3>4. \A r \in rows(c.window) : r \in T <=> r.who \in Students /\ r.vendor \in {v}
      BY <1>6, <3>1, <3>2 DEF IsRow
    <3>5. Recorded(c) = Spend(ledger, T) /\ Recorded(c) \in Nat
      BY <2>4, <3>3, <3>4, SpendIsRecorded DEF rows
    <3>6. CASE v \in {r.vendor : r \in day}
      <4>1. quota.byVendor[v] = Recorded(c)
        BY <1>1, <3>1, <3>5, <3>6
      <4>2. ~Reached(Recorded(c), Limits.providerDaily)
        BY <2>2, <3>6, <4>1
      <4>3. Limits.providerDaily \in Nat \cup {NoLimit}
        BY TutorTurnAssumption
      <4>4. c.limit = room
        BY <2>4 DEF Is
      <4> QED BY <1>3, <3>5, <4>2, <4>3, <4>4 DEF Reached, NoLimit
    <3>7. CASE v \notin {r.vendor : r \in day}
      <4>1. T = {}
        BY <3>1, <3>7
      <4>2. Recorded(c) = 0
        BY <3>5, <4>1, NothingSpent
      <4>3. c.limit = room /\ Limits.providerDaily \in Nat \cup {NoLimit}
        BY <2>4, TutorTurnAssumption DEF Is
      <4> QED BY <1>3, <4>2, <4>3
    <3> QED BY <3>6, <3>7
  <2>5. CASE Is(c, FailureWindow, Limits.circuit, MaxAttempts) /\ CountsFree(c, Students, {v})
    <3>1. PICK T : T = {r \in {x \in rows(FailureWindow) : x.vendor = v} : Failed(r)}
      OBVIOUS
    <3>2. c.window = FailureWindow /\ c.limit = Limits.circuit
      BY <2>5 DEF Is
    <3>3. T \in SUBSET rows(c.window)
      BY <3>1, <3>2
    <3>4. \A r \in rows(c.window) : r \in T <=> r.who \in Students /\ r.vendor \in {v} /\ Failed(r)
      BY <1>6, <3>1, <3>2 DEF IsRow
    <3>5. Recorded(c) = Rows(ledger, T) /\ Recorded(c) \in Nat
      BY <2>5, <3>3, <3>4, FailuresAreRecorded DEF rows
    <3>6. CASE v \in {r.vendor : r \in day}
      <4>1. quota.failures[v] = Recorded(c)
        BY <1>1, <3>1, <3>5, <3>6
      <4> QED BY <1>3, <2>2, <3>2, <3>5, <3>6, <4>1
    <3>7. CASE v \notin {r.vendor : r \in day}
      <4>1. rows(FailureWindow) \subseteq day
        <5>1. ASSUME NEW r \in rows(FailureWindow) PROVE r \in day
          <6>1. r \in BagToSet(ledger) /\ r.at >= now - FailureWindow /\ r.at \in Nat
            BY <1>6 DEF rows, Since, IsRow
          <6>2. FailureWindow \in Nat /\ DayWindow \in Nat /\ FailureWindow <= DayWindow
            BY WindowsAssumption
          <6>3. r.at >= now - DayWindow
            BY <6>1, <6>2
          <6> QED BY <6>1, <6>3 DEF day, Since
        <5> QED BY <5>1
      <4>2. T = {}
        BY <3>1, <3>7, <4>1
      <4>3. Recorded(c) = 0
        BY <3>5, <4>2, NothingSpent
      <4> QED BY <3>2, <4>3, TutorTurnAssumption
    <3> QED BY <3>6, <3>7
  <2> QED BY <1>9, <2>4, <2>5 DEF ForVendor
<1> QED BY <1>7, <1>8, <1>9, CeilingsAre
-----------------------------------------------------------------------------
(* The steps of the service, and the room they leave.                       *)

\* What is recorded, whatever the ledger and the time.
RecordedBy(c, B, n) == SumFunction([r \in Since(B, n, c.window) |-> B[r] * c.counts[r.who][r.vendor][r.cost]])

LEMMA RecordedByCount ==
  ASSUME NEW c \in Ceilings, NEW B, IsLedger(B), NEW n
  PROVE  RecordedBy(c, B, n) = CountOf(c.counts, B, n - c.window) /\ RecordedBy(c, B, n) \in Nat
<1>1. PICK at : at = n - c.window
  OBVIOUS
<1>2. PICK counts : counts = c.counts
  OBVIOUS
<1>3. PICK T : T = RowsSince(B, at)
  OBVIOUS
<1>4. PICK g : g = [r \in Since(B, n, c.window) |-> B[r] * c.counts[r.who][r.vendor][r.cost]]
  OBVIOUS
<1>5. Since(B, n, c.window) = T
  BY <1>1, <1>3 DEF Since, RowsSince, BagToSet
<1>6. PicksOut(g, T, counts, B, at)
  BY <1>2, <1>3, <1>4, <1>5 DEF PicksOut
<1>7. Counts(counts)
  BY <1>2, CeilingsCount
<1>8. CountOf(counts, B, at) = SumFunction(g) /\ CountOf(counts, B, at) \in Nat
  BY <1>6, <1>7, CountedIn, CountIsNat
<1> QED BY <1>1, <1>2, <1>4, <1>8 DEF RecordedBy

LEMMA RecordedNow == \A c : Recorded(c) = RecordedBy(c, ledger, now) /\ Recorded(c)' = RecordedBy(c, ledger', now')
  BY DEF Recorded, RecordedBy, Since, BagToSet

LEMMA CeilingsStay == Ceilings' = Ceilings
  BY DEF Ceilings, PlatformCeilings, StudentCeilings, VendorCeilings, CeilingOf

LEMMA ConcernedAre ==
  \A c : Concerned(c) \in SUBSET Sessions /\ IsFiniteSet(Concerned(c)) /\ Cardinality(Concerned(c)) \in Nat
         /\ Cardinality(Concerned(c)) <= Cardinality(Sessions) /\ Cardinality(Sessions) \in Nat
<1>1. ASSUME NEW c
      PROVE  Concerned(c) \in SUBSET Sessions /\ IsFiniteSet(Concerned(c)) /\ Cardinality(Concerned(c)) \in Nat
             /\ Cardinality(Concerned(c)) <= Cardinality(Sessions) /\ Cardinality(Sessions) \in Nat
  <2>1. Concerned(c) \in SUBSET Sessions
    BY DEF Concerned, Running
  <2> QED BY <2>1, FS_Subset, FS_CardinalityType, TutorTurnAssumption
<1> QED BY <1>1

\* No ceiling loses room while no more turns are concerned and no more is
\* recorded.
LEMMA RoomStays ==
  ASSUME NEW c \in Ceilings, Room(c), Recorded(c) \in Nat, Recorded(c)' \in Nat, Recorded(c)' <= Recorded(c),
         Concerned(c)' \subseteq Concerned(c)
  PROVE  Room(c)'
<1>1. PICK fewer : fewer = Concerned(c)'
  OBVIOUS
<1>2. PICK recorded : recorded = Recorded(c)'
  OBVIOUS
<1>3. /\ IsFiniteSet(Concerned(c)) /\ Cardinality(Concerned(c)) \in Nat /\ Cardinality(Sessions) \in Nat
      /\ Cardinality(fewer) \in Nat /\ Cardinality(fewer) <= Cardinality(Concerned(c))
  BY <1>1, ConcernedAre, FS_Subset, FS_CardinalityType
<1>4. c.perTurn \in Nat /\ c.limit \in Nat \cup {NoLimit}
  BY CeilingsCount
<1>5. PICK p \in Nat, k \in Nat, l \in Nat : p = c.perTurn /\ k = Cardinality(fewer) /\ l = Cardinality(Concerned(c))
  BY <1>3, <1>4
<1>6. p * k <= p * l /\ p * k \in Nat /\ p * l \in Nat
  <2>1. k <= l
    BY <1>3, <1>5
  <2>2. PICK d \in Nat : l = k + d
    <3>1. l - k \in Nat /\ l = k + (l - k)
      BY <2>1
    <3> QED BY <3>1
  <2>3. p * l = p * k + p * d /\ p * d \in Nat /\ p * k \in Nat
    BY <2>2
  <2> QED BY <2>3
<1>7. p * Cardinality(Sessions) \in Nat
  BY <1>3
<1>8. c.limit # NoLimit => recorded + p * k <= c.limit - 1 + p * Cardinality(Sessions)
  <2> SUFFICES ASSUME c.limit # NoLimit PROVE recorded + p * k <= c.limit - 1 + p * Cardinality(Sessions)
    OBVIOUS
  <2>1. Recorded(c) + p * l <= c.limit - 1 + p * Cardinality(Sessions)
    BY <1>5 DEF Room
  <2>2. c.limit \in Nat
    BY <1>4
  <2>3. recorded \in Nat /\ recorded <= Recorded(c)
    BY <1>2
  <2> QED BY <1>6, <1>7, <2>1, <2>2, <2>3
<1> QED BY <1>1, <1>2, <1>5, <1>8 DEF Room

\* A turn is put in the place of another.
Replaces(s, v) == /\ turn'[s] = v
                  /\ \A r \in Sessions \ {s} : turn'[r] = turn[r]

LEMMA Replacing ==
  ASSUME RationInv, NEW s \in Sessions, NEW v, turn' = [turn EXCEPT ![s] = v]
  PROVE  Replaces(s, v)
<1>1. turn' = [r \in Sessions |-> IF r = s THEN v ELSE turn[r]]
  BY DEF RationInv
<1> QED BY <1>1 DEF Replaces

LEMMA ConcernedAfter ==
  ASSUME NEW s \in Sessions, NEW v, Replaces(s, v), NEW c
  PROVE  /\ \A r \in Sessions \ {s} : r \in Concerned(c)' <=> r \in Concerned(c)
         /\ s \in Concerned(c)' <=> v.pc # "idle" /\ MayCount(c, v)
         /\ Concerned(c)' \subseteq Sessions
<1>1. \A r \in Sessions : r \in Concerned(c)' <=> turn'[r].pc # "idle" /\ MayCount(c, turn'[r])
  BY DEF Concerned, Running, MayCount
<1>2. \A r \in Sessions : r \in Concerned(c) <=> turn[r].pc # "idle" /\ MayCount(c, turn[r])
  BY DEF Concerned, Running
<1>3. Concerned(c)' \subseteq Sessions
  BY DEF Concerned, Running
<1> QED BY <1>1, <1>2, <1>3 DEF Replaces

\* What every step leaves right but the room.
LEMMA StillPriced ==
  ASSUME SpendInv, NEW s \in Sessions, NEW v, Replaces(s, v), v.pc # "idle" => Priced(v)
  PROVE  \A r \in Running' : Priced(turn'[r])
<1>1. ASSUME NEW r \in Running' PROVE Priced(turn'[r])
  <2>1. r \in Sessions /\ turn'[r].pc # "idle"
    BY DEF Running
  <2>2. CASE r = s
    BY <2>1, <2>2 DEF Replaces
  <2>3. CASE r # s
    <3>1. turn'[r] = turn[r] /\ r \in Running
      BY <2>1, <2>3 DEF Replaces, Running
    <3> QED BY <3>1 DEF SpendInv
  <2> QED BY <2>2, <2>3
<1> QED BY <1>1

LEMMA SpendInvNext ==
  ASSUME RationInv', now' \in Nat, wired' \in Keys, IsLedger(ledger'), \A s \in Running' : Priced(turn'[s]),
         \A c \in Ceilings : Room(c)'
  PROVE  SpendInv'
<1>1. IsLedger(ledger)'
  BY DEF IsLedger, IsRow
<1>2. \A s \in Running' : Priced(turn[s])'
  BY DEF Priced
<1> QED BY <1>1, <1>2, CeilingsStay DEF SpendInv
\* A step that books nothing and concerns no ceiling more.
LEMMA QuietStep ==
  ASSUME SpendInv, RationInv', NEW s \in Sessions, NEW v, Replaces(s, v), v.pc # "idle" => Priced(v),
         UNCHANGED <<now, wired, ledger>>,
         \A c : s \in Concerned(c)' => s \in Concerned(c)
  PROVE  SpendInv'
<1>1. \A r \in Running' : Priced(turn'[r])
  BY StillPriced
<1>2. ASSUME NEW c \in Ceilings PROVE Room(c)'
  <2>1. Concerned(c)' \subseteq Concerned(c)
    BY ConcernedAfter
  <2>2. Recorded(c) = RecordedBy(c, ledger, now) /\ Recorded(c)' = RecordedBy(c, ledger', now')
    BY RecordedNow
  <2>3. Recorded(c)' = Recorded(c)
    BY <2>2
  <2>4. RecordedBy(c, ledger, now) \in Nat
    BY RecordedByCount DEF SpendInv
  <2>5. Recorded(c) \in Nat /\ Recorded(c)' \in Nat /\ Recorded(c)' <= Recorded(c)
    BY <2>2, <2>3, <2>4
  <2> QED BY <2>1, <2>5, RoomStays DEF SpendInv
<1>3. now' \in Nat /\ wired' \in Keys /\ IsLedger(ledger')
  BY DEF SpendInv
<1> QED BY <1>1, <1>2, <1>3, SpendInvNext

\* A vendor with a key serves an alias, if there is any.
LEMMA VendorsServe ==
  ASSUME wired \in Keys, wired # {}, NEW alias \in Aliases
  PROVE  VendorOf[alias] \in ToSet(Vendors)
<1> DEFINE open == {i \in 1 .. Len(Vendors) : Vendors[i] \in wired}
<1>1. Len(Vendors) = 2 /\ Vendors[1] = "anthropic" /\ Vendors[2] = "openai" /\ DOMAIN Vendors = 1 .. 2
  BY DEF Vendors
<1>2. open # {} /\ open \in SUBSET (1 .. 2) /\ open \in SUBSET Nat
  <2>1. wired \subseteq {"anthropic", "openai"}
    BY TutorTurnAssumption
  <2>2. 1 \in open \/ 2 \in open
    <3>1. Vendors[1] \in wired \/ Vendors[2] \in wired
      BY <1>1, <2>1
    <3>2. 1 \in 1 .. Len(Vendors) /\ 2 \in 1 .. Len(Vendors)
      BY <1>1
    <3> QED BY <3>1, <3>2
  <2>3. open \in SUBSET (1 .. 2)
    BY <1>1
  <2> QED BY <2>2, <2>3
<1>3. VendorOf[alias] = Vendors[IF open # {} THEN Min(open) ELSE 0]
  BY DEF VendorOf, SelectInSeq
<1> HIDE DEF open
<1>4. PICK m \in open : \A k \in open : m <= k
  BY <1>2, LeastNumber
<1>5. Min(open) \in open
  BY <1>4 DEF Min
<1> QED BY <1>1, <1>2, <1>3, <1>5 DEF ToSet

\* One more call, at its price and to a vendor that is open.
LEMMA CallsArePriced ==
  ASSUME wired \in Keys, NEW t, Allowed(t), Priced(t), NEW alias \in Aliases, Callable(t, alias), NEW outcome \in Outcomes,
         NEW v, v.who = t.who, v.blocked = t.blocked, v.calls = Append(t.calls, Call(alias, outcome))
  PROVE  Priced(v)
<1>1. PICK call : call = Call(alias, outcome)
  OBVIOUS
<1>2. call.alias = alias /\ call.outcome = outcome /\ call.cost = Cost(alias, outcome) /\ call.vendor = VendorOf[alias]
  BY <1>1 DEF Call
<1>3. VendorOf[alias] \in ToSet(Vendors) \ t.blocked
  BY VendorsServe DEF Callable
<1>4. PICK z \in Nat : z = Len(t.calls)
  BY Appending DEF Allowed
<1>5. /\ DOMAIN t.calls = 1 .. z /\ DOMAIN v.calls = 1 .. z + 1 /\ v.calls[z + 1] = call
      /\ \A i \in 1 .. z : v.calls[i] = t.calls[i]
  <2>1. \E S : t.calls \in Seq(S)
    BY DEF Allowed
  <2>2. /\ DOMAIN t.calls = 1 .. Len(t.calls) /\ Len(v.calls) = Len(t.calls) + 1
        /\ v.calls[Len(t.calls) + 1] = call /\ \A i \in 1 .. Len(t.calls) : v.calls[i] = t.calls[i]
    BY <1>1, <2>1, Appending
  <2>3. \E S : v.calls \in Seq(S)
    <3>1. \E S : Append(t.calls, call) \in Seq(S)
      BY <2>1, Appending
    <3>2. v.calls = Append(t.calls, call)
      BY <1>1
    <3> QED BY <3>1, <3>2
  <2>4. DOMAIN v.calls = 1 .. Len(v.calls)
    BY <2>3, Appending
  <2> QED BY <1>4, <2>2, <2>4
<1>6. ASSUME NEW i \in DOMAIN v.calls
      PROVE  /\ v.calls[i].alias \in Aliases /\ v.calls[i].outcome \in Outcomes
             /\ v.calls[i].cost = Cost(v.calls[i].alias, v.calls[i].outcome)
             /\ v.calls[i].vendor \in ToSet(Vendors) \ v.blocked
  <2>1. CASE i \in 1 .. z
    BY <1>5, <2>1 DEF Priced
  <2>2. CASE i = z + 1
    BY <1>2, <1>3, <1>5, <2>2
  <2> QED BY <1>4, <1>5, <2>1, <2>2
<1> QED BY <1>6 DEF Priced

\* The gateway leaves alone whose turn it is and what is shut.
Keeps(v, u) == v.who = u.who /\ v.blocked = u.blocked /\ v.calls = u.calls /\ v.pc # "idle"

LEMMA PcKeeps ==
  ASSUME NEW u, Allowed(u), NEW pc, pc # "idle"
  PROVE  Keeps([u EXCEPT !.pc = pc], u)
<1>1. [u EXCEPT !.pc = pc] = [pc |-> pc, who |-> u.who, decision |-> u.decision, blocked |-> u.blocked,
                              alias |-> u.alias, ceiling |-> u.ceiling, calls |-> u.calls]
  BY DEF Allowed
<1> QED BY <1>1 DEF Keeps

LEMMA EnterKeeps ==
  ASSUME NEW u, Allowed(u), NEW k PROVE Keeps(Enter(u, k), u)
<1>1. PICK usable : usable = {j \in k .. Len(u.decision.aliases) : Callable(u, u.decision.aliases[j])}
  OBVIOUS
<1>2. PICK m, e : m = Min(usable) /\ e = Ceiling(u, m)
  OBVIOUS
<1>3. Enter(u, k) = IF usable = {} THEN [u EXCEPT !.pc = "settle"] ELSE [u EXCEPT !.pc = "call", !.alias = m, !.ceiling = e]
  BY <1>1, <1>2 DEF Enter
<1>4. Keeps([u EXCEPT !.pc = "settle"], u)
  BY PcKeeps
<1>5. Keeps([u EXCEPT !.pc = "call", !.alias = m, !.ceiling = e], u)
  <2>1. PICK w : w = [u EXCEPT !.pc = "call", !.alias = m, !.ceiling = e]
    OBVIOUS
  <2>2. w = [pc |-> "call", who |-> u.who, decision |-> u.decision, blocked |-> u.blocked,
             alias |-> m, ceiling |-> e, calls |-> u.calls]
    BY <2>1, Entered
  <2>3. Keeps(w, u)
    BY <2>2 DEF Keeps
  <2> QED BY <2>1, <2>3
<1> QED BY <1>3, <1>4, <1>5

LEMMA AnsweredKeeps ==
  ASSUME NEW u, Allowed(u) PROVE Keeps(Answered(u), u)
<1>1. Keeps([u EXCEPT !.pc = "settle"], u) /\ Keeps([u EXCEPT !.pc = "verify"], u)
  BY PcKeeps
<1>2. Answered(u) = [u EXCEPT !.pc = "settle"] \/ Answered(u) = [u EXCEPT !.pc = "verify"]
  BY DEF Answered
<1> QED BY <1>1, <1>2

LEMMA AfterAdds ==
  ASSUME NEW t, Allowed(t), t.pc = "call", NEW outcome
  PROVE  LET v == After(t, outcome)
         IN  /\ v.who = t.who /\ v.blocked = t.blocked /\ v.pc # "idle"
             /\ v.calls = Append(t.calls, Call(t.decision.aliases[t.alias], outcome))
<1>1. PICK call : call = Call(t.decision.aliases[t.alias], outcome)
  OBVIOUS
<1>2. PICK u : u = [t EXCEPT !.calls = Append(@, call)]
  OBVIOUS
<1>3. u = [pc |-> t.pc, who |-> t.who, decision |-> t.decision, blocked |-> t.blocked,
           alias |-> t.alias, ceiling |-> t.ceiling, calls |-> Append(t.calls, call)]
  BY <1>2 DEF Allowed
<1>4. Allowed(u) /\ u.pc # "idle" /\ u.who = t.who /\ u.blocked = t.blocked /\ u.calls = Append(t.calls, call)
  BY <1>3, Adding
<1>5. \/ After(t, outcome) = Answered(u) \/ After(t, outcome) = u
      \/ After(t, outcome) = [u EXCEPT !.pc = "settle"] \/ After(t, outcome) = Enter(u, t.alias + 1)
  BY <1>1, <1>2 DEF After
<1>6. Keeps(u, u)
  BY <1>4 DEF Keeps
<1>7. Keeps([u EXCEPT !.pc = "settle"], u)
  BY <1>4, PcKeeps
<1>8. Keeps(Answered(u), u) /\ Keeps(Enter(u, t.alias + 1), u)
  BY <1>4, AnsweredKeeps, EnterKeeps
<1>9. Keeps(After(t, outcome), u)
  BY <1>5, <1>6, <1>7, <1>8
<1> QED BY <1>1, <1>4, <1>9 DEF Keeps
LEMMA InvokeKeepsRoom ==
  ASSUME SpendInv, RationInv', NEW s \in Sessions, NEW outcome \in Outcomes, Invoke(s, outcome)
  PROVE  SpendInv'
<1>1. PICK t : t = turn[s]
  OBVIOUS
<1>2. PICK v : v = After(t, outcome)
  OBVIOUS
<1>3. t.pc = "call" /\ turn' = [turn EXCEPT ![s] = v] /\ UNCHANGED <<now, wired, ledger>>
  BY <1>1, <1>2 DEF Invoke
<1>4. Replaces(s, v) /\ RationInv
  BY <1>3, Replacing DEF SpendInv
<1>5. Allowed(t) /\ Calling(t) /\ s \in Running /\ Priced(t)
  BY <1>1, <1>3 DEF RationInv, TurnInv, Idle, Running, SpendInv
<1>6. /\ v.who = t.who /\ v.blocked = t.blocked /\ v.pc # "idle"
      /\ v.calls = Append(t.calls, Call(t.decision.aliases[t.alias], outcome))
  BY <1>2, <1>3, <1>5, AfterAdds
<1>7. PICK alias : alias = t.decision.aliases[t.alias]
  OBVIOUS
<1>8. alias \in Aliases /\ Callable(t, alias)
  BY <1>5, <1>7, RungsAreShort DEF Calling, Allowed, Tiers, Aliases
<1>9. Priced(v)
  BY <1>5, <1>6, <1>7, <1>8, CallsArePriced DEF SpendInv
<1>10. ASSUME NEW c, s \in Concerned(c)' PROVE s \in Concerned(c)
  <2>1. MayCount(c, v)
    BY <1>4, <1>10, ConcernedAfter
  <2>2. MayCount(c, t)
    BY <1>6, <2>1 DEF MayCount
  <2> QED BY <1>1, <1>5, <2>2 DEF Concerned
<1> QED BY <1>3, <1>4, <1>9, <1>10, QuietStep

LEMMA VerifyKeepsRoom ==
  ASSUME SpendInv, RationInv', NEW s \in Sessions, NEW outcome \in Outcomes, Verify(s, outcome)
  PROVE  SpendInv'
<1>1. PICK t : t = turn[s]
  OBVIOUS
<1>2. PICK call : call = Call(t.decision.verifier, outcome)
  OBVIOUS
<1>3. PICK v : v = [t EXCEPT !.pc = "settle", !.calls = Append(@, call)]
  OBVIOUS
<1>4. t.pc = "verify" /\ turn' = [turn EXCEPT ![s] = v] /\ UNCHANGED <<now, wired, ledger>>
  BY <1>1, <1>2, <1>3 DEF Verify
<1>5. Replaces(s, v) /\ RationInv
  BY <1>4, Replacing DEF SpendInv
<1>6. Allowed(t) /\ Verifying(t) /\ s \in Running /\ Priced(t)
  BY <1>1, <1>4, <1>5 DEF RationInv, TurnInv, Idle, Running, SpendInv
<1>7. PICK longer : longer = Append(t.calls, call)
  OBVIOUS
<1>8. v = [pc |-> "settle", who |-> t.who, decision |-> t.decision, blocked |-> t.blocked,
           alias |-> t.alias, ceiling |-> t.ceiling, calls |-> longer]
  <2> DEFINE w == [t EXCEPT !.pc = "settle"]
  <2>1. w = [pc |-> "settle", who |-> t.who, decision |-> t.decision, blocked |-> t.blocked,
             alias |-> t.alias, ceiling |-> t.ceiling, calls |-> t.calls]
    BY <1>6 DEF Allowed
  <2>2. v = [w EXCEPT !.calls = longer]
    <3>1. v = [w EXCEPT !.calls = Append(@, call)]
      BY <1>3, Zenon
    <3> HIDE DEF w
    <3>2. w.calls = t.calls
      BY <2>1
    <3> QED BY <1>7, <3>1, <3>2
  <2> HIDE DEF w
  <2> QED BY <2>1, <2>2
<1>9. v.who = t.who /\ v.blocked = t.blocked /\ v.pc # "idle" /\ v.calls = Append(t.calls, call)
  BY <1>7, <1>8
<1>10. "VERIFIER_PRIMARY" \in Aliases /\ t.decision.verifier = "VERIFIER_PRIMARY" /\ Callable(t, "VERIFIER_PRIMARY")
  BY <1>6 DEF Verifying, Aliases
<1>11. Priced(v)
  BY <1>2, <1>6, <1>9, <1>10, CallsArePriced DEF SpendInv
<1>12. ASSUME NEW c, s \in Concerned(c)' PROVE s \in Concerned(c)
  <2>1. MayCount(c, v)
    BY <1>5, <1>12, ConcernedAfter
  <2>2. MayCount(c, t)
    BY <1>9, <2>1 DEF MayCount
  <2> QED BY <1>1, <1>6, <2>2 DEF Concerned
<1> QED BY <1>4, <1>5, <1>11, <1>12, QuietStep

LEMMA CrashKeepsRoom ==
  ASSUME SpendInv, RationInv', NEW s \in Sessions, Crash(s)
  PROVE  SpendInv'
<1>1. PICK v : v = Idle
  OBVIOUS
<1>2. v.pc = "idle" /\ turn' = [turn EXCEPT ![s] = v] /\ UNCHANGED <<now, wired, ledger>>
  BY <1>1 DEF Crash, Idle
<1>3. Replaces(s, v)
  BY <1>2, Replacing DEF SpendInv
<1>4. \A c : s \notin Concerned(c)'
  BY <1>2, <1>3, ConcernedAfter
<1> QED BY <1>2, <1>3, <1>4, QuietStep

LEMMA TickKeepsRoom ==
  ASSUME SpendInv, RationInv', Tick \/ UNCHANGED vars
  PROVE  SpendInv'
<1>1. turn' = turn /\ ledger' = ledger /\ wired' = wired /\ now' \in Nat /\ now <= now'
  BY DEF Tick, vars, SpendInv
<1>2. \A s \in Running' : Priced(turn'[s])
  BY <1>1 DEF Running, SpendInv
<1>3. ASSUME NEW c \in Ceilings PROVE Room(c)'
  <2>1. Concerned(c)' \subseteq Concerned(c)
    BY <1>1 DEF Concerned, Running, MayCount
  <2>2. PICK B : B = ledger
    OBVIOUS
  <2>3. PICK n \in Nat, m \in Nat : n = now /\ m = now' /\ n <= m
    BY <1>1 DEF SpendInv
  <2>4. Recorded(c) = RecordedBy(c, B, n) /\ Recorded(c)' = RecordedBy(c, B, m) /\ IsLedger(B)
    BY <1>1, <2>2, <2>3, RecordedNow DEF SpendInv
  <2>5. /\ RecordedBy(c, B, n) = CountOf(c.counts, B, n - c.window) /\ RecordedBy(c, B, n) \in Nat
        /\ RecordedBy(c, B, m) = CountOf(c.counts, B, m - c.window) /\ RecordedBy(c, B, m) \in Nat
    BY <2>4, RecordedByCount
  <2>6. CountOf(c.counts, B, m - c.window) <= CountOf(c.counts, B, n - c.window)
    <3>1. PICK at \in Int, later \in Int : at = n - c.window /\ later = m - c.window /\ at <= later
      BY <2>3, CeilingsCount
    <3>2. PICK counts : counts = c.counts /\ Counts(counts)
      BY CeilingsCount
    <3>3. CountOf(counts, B, later) <= CountOf(counts, B, at)
      BY <2>4, <3>1, <3>2, CountFalls
    <3> QED BY <3>1, <3>2, <3>3
  <2> QED BY <2>1, <2>4, <2>5, <2>6, RoomStays DEF SpendInv
<1> QED BY <1>1, <1>2, <1>3, SpendInvNext DEF SpendInv
\* A turn starts where there is room, so that it may take its share.
LEMMA PlanTurnKeepsRoom ==
  ASSUME SpendInv, RationInv', NEW s \in Sessions, NEW who \in Students, NEW ask \in Asked, PlanTurn(s, who, ask)
  PROVE  SpendInv'
<1>1. PICK quota : quota = QuotaSnapshot(ledger, who, now)
  OBVIOUS
<1>2. PICK ctx : ctx = [enabled |-> enabled, plan |-> Plan[who], capability |-> IntentOf[ask].capability,
                        difficulty |-> IntentOf[ask].difficulty, tokens |-> ContextOf[ask].tokens,
                        quota |-> quota, limits |-> Limits]
  OBVIOUS
<1>3. PICK decision, blocked : decision = Decide(ctx) /\ blocked = BlockedProviders(quota, Limits)
  OBVIOUS
<1>4. PICK planned : planned = [pc |-> "plan", who |-> who, decision |-> decision, blocked |-> blocked,
                                alias |-> 0, ceiling |-> 0, calls |-> <<>>]
  OBVIOUS
<1>5. PICK v : v = IF planned.decision.aliases = <<>> THEN Idle ELSE Enter(planned, 1)
  OBVIOUS
<1>6. turn' = [turn EXCEPT ![s] = v] /\ UNCHANGED <<now, wired, ledger>> /\ turn[s].pc = "idle"
  BY <1>1, <1>2, <1>3, <1>4, <1>5 DEF PlanTurn
<1>7. Replaces(s, v) /\ RationInv /\ IsLedger(ledger) /\ now \in Nat
  BY <1>6, Replacing DEF SpendInv
<1>8. CASE decision.aliases = <<>>
  <2>1. v.pc = "idle"
    BY <1>4, <1>5, <1>8 DEF Idle
  <2>2. \A c : s \notin Concerned(c)'
    BY <1>7, <2>1, ConcernedAfter
  <2> QED BY <1>6, <1>7, <2>1, <2>2, QuietStep
<1>9. CASE decision.aliases # <<>>
  <2>1. decision.aliases \in Rungs /\ decision.verifier \in {"none", "VERIFIER_PRIMARY"}
    BY <1>3, <1>9, Deciding
  <2>2. Allowed(planned)
    <3>1. <<>> \in Seq({})
      OBVIOUS
    <3> QED BY <1>4, <2>1, <3>1 DEF Allowed
  <2>3. v = Enter(planned, 1)
    BY <1>4, <1>5, <1>9
  <2>4. v.who = who /\ v.blocked = blocked /\ v.calls = <<>> /\ v.pc # "idle"
    BY <1>4, <2>2, <2>3, EnterKeeps DEF Keeps
  <2>5. Priced(v)
    BY <2>4 DEF Priced
  <2>6. \A r \in Running' : Priced(turn'[r])
    BY <1>7, <2>5, StillPriced
  <2>7. ASSUME NEW c \in Ceilings PROVE Room(c)'
    <3>1. Recorded(c) = RecordedBy(c, ledger, now) /\ Recorded(c)' = RecordedBy(c, ledger', now')
      BY RecordedNow
    <3>2. Recorded(c)' = Recorded(c)
      BY <1>6, <3>1
    <3>3. RecordedBy(c, ledger, now) \in Nat
      BY <1>7, RecordedByCount
    <3>4. Recorded(c) \in Nat
      BY <3>1, <3>3
    <3>5. CASE s \in Concerned(c)' /\ c.limit # NoLimit
      <4>1. MayCount(c, v)
        BY <1>7, <3>5, ConcernedAfter
      <4>2. ctx.quota = quota /\ ctx.plan = Plan[who] /\ ctx.limits = Limits /\ Decide(ctx).aliases # <<>>
        BY <1>2, <1>3, <1>9
      <4>3. v.blocked = BlockedProviders(quota, Limits)
        BY <1>3, <2>4
      <4>4. Recorded(c) <= c.limit - 1
        BY <1>1, <1>7, <2>4, <3>5, <4>1, <4>2, <4>3, RoomWasSeen
      <4>5. PICK more : more = Concerned(c)'
        OBVIOUS
      <4>6. /\ Cardinality(more) \in Nat /\ Cardinality(Sessions) \in Nat
            /\ Cardinality(more) <= Cardinality(Sessions)
        <5>1. more \in SUBSET Sessions
          BY <1>7, <4>5, ConcernedAfter
        <5> QED BY <5>1, FS_Subset, FS_CardinalityType, TutorTurnAssumption
      <4>7. PICK p \in Nat, k \in Nat, n \in Nat : p = c.perTurn /\ k = Cardinality(more) /\ n = Cardinality(Sessions)
        BY <4>6, CeilingsCount
      <4>8. p * k <= p * n /\ p * k \in Nat /\ p * n \in Nat
        <5>1. PICK d \in Nat : n = k + d
          <6>1. n - k \in Nat /\ n = k + (n - k)
            BY <4>6, <4>7
          <6> QED BY <6>1
        <5>2. p * n = p * k + p * d /\ p * d \in Nat /\ p * k \in Nat
          BY <5>1
        <5> QED BY <5>2
      <4>9. PICK rec \in Nat, l \in Nat : rec = Recorded(c) /\ l = c.limit
        BY <3>4, <3>5, CeilingsCount
      <4>10. rec + p * k <= l - 1 + p * n
        <5>1. rec <= l - 1
          BY <4>4, <4>9
        <5> QED BY <4>8, <5>1
      <4> QED BY <3>2, <4>5, <4>7, <4>9, <4>10 DEF Room
    <3>6. CASE s \notin Concerned(c)'
      <4>1. Concerned(c)' \subseteq Concerned(c)
        BY <1>7, <3>6, ConcernedAfter
      <4>2. Recorded(c)' \in Nat /\ Recorded(c)' <= Recorded(c)
        BY <3>2, <3>4
      <4> QED BY <3>4, <4>1, <4>2, RoomStays DEF SpendInv
    <3>7. CASE c.limit = NoLimit
      BY <3>7 DEF Room
    <3> QED BY <3>5, <3>6, <3>7
  <2> QED BY <1>6, <1>7, <2>6, <2>7, SpendInvNext DEF SpendInv
<1> QED BY <1>8, <1>9

\* What a turn books is its share at most, and it gives that share back.
LEMMA SettleKeepsRoom ==
  ASSUME SpendInv, RationInv', NEW s \in Sessions, Settle(s)
  PROVE  SpendInv'
<1>1. PICK t : t = turn[s]
  OBVIOUS
<1>2. PICK v : v = Idle
  OBVIOUS
<1>3. /\ t.pc = "settle" /\ v.pc = "idle" /\ turn' = [turn EXCEPT ![s] = v] /\ UNCHANGED <<now, wired>>
  BY <1>1, <1>2 DEF Settle, Idle
<1>4. Replaces(s, v) /\ RationInv /\ IsLedger(ledger) /\ now \in Nat
  BY <1>3, Replacing DEF SpendInv
<1>5. TurnInv(t) /\ t # Idle /\ s \in Running /\ Priced(t)
  BY <1>1, <1>3, <1>4 DEF RationInv, Idle, Running, SpendInv
<1>6. PICK n \in 0 .. MaxAttempts : Made(t, n) /\ Allowed(t)
  BY <1>5, TurnsMake
<1>7. /\ IsLedger(ledger')
      /\ \A c : Counts(c.counts) /\ c.window \in Nat =>
           CountOf(c.counts, ledger', now - c.window) = CountOf(c.counts, ledger, now - c.window) + Unrecorded(c, t)
  BY <1>1, <1>4, <1>5, <1>6, SettlingBooks
<1>8. \A r \in Running' : Priced(turn'[r])
  BY <1>3, <1>4, StillPriced
<1>9. ASSUME NEW c \in Ceilings PROVE Room(c)'
  <2>1. PICK B, after, m : B = ledger /\ after = ledger' /\ m = now
    OBVIOUS
  <2>2. Recorded(c) = RecordedBy(c, B, m) /\ Recorded(c)' = RecordedBy(c, after, m) /\ IsLedger(B) /\ IsLedger(after)
    BY <1>3, <1>4, <1>7, <2>1, RecordedNow
  <2>3. /\ RecordedBy(c, B, m) = CountOf(c.counts, B, m - c.window) /\ RecordedBy(c, B, m) \in Nat
        /\ RecordedBy(c, after, m) = CountOf(c.counts, after, m - c.window) /\ RecordedBy(c, after, m) \in Nat
    BY <2>2, RecordedByCount
  <2>4. CountOf(c.counts, after, m - c.window) = CountOf(c.counts, B, m - c.window) + Unrecorded(c, t)
    BY <1>7, <2>1, CeilingsCount
  <2>5. Recorded(c)' = Recorded(c) + Unrecorded(c, t) /\ Recorded(c) \in Nat /\ Recorded(c)' \in Nat
    BY <2>2, <2>3, <2>4
  <2>6. /\ Unrecorded(c, t) \in Nat /\ Unrecorded(c, t) <= c.perTurn
        /\ ~MayCount(c, t) => Unrecorded(c, t) = 0
    BY <1>5, <1>6, TurnsShare
  <2>7. Concerned(c)' = Concerned(c) \ {s}
    <3>1. s \notin Concerned(c)' /\ Concerned(c)' \subseteq Sessions
          /\ \A r \in Sessions \ {s} : r \in Concerned(c)' <=> r \in Concerned(c)
      BY <1>3, <1>4, ConcernedAfter
    <3>2. Concerned(c) \subseteq Sessions
      BY ConcernedAre
    <3> QED BY <3>1, <3>2
  <2>8. CASE s \notin Concerned(c)
    <3>1. ~MayCount(c, t)
      BY <1>1, <1>5, <2>8 DEF Concerned
    <3>2. Recorded(c)' <= Recorded(c) /\ Concerned(c)' \subseteq Concerned(c)
      BY <2>5, <2>6, <2>7, <3>1
    <3> QED BY <2>5, <3>2, RoomStays DEF SpendInv
  <2>9. CASE s \in Concerned(c) /\ c.limit # NoLimit
    <3>1. PICK left : left = Concerned(c)'
      OBVIOUS
    <3>2. Cardinality(left) = Cardinality(Concerned(c)) - 1 /\ Cardinality(left) \in Nat
      BY <2>7, <2>9, <3>1, ConcernedAre, FS_RemoveElement, FS_CardinalityType, FS_Subset
    <3>3. PICK p \in Nat, k \in Nat, total \in Nat, l \in Nat, rec \in Nat, more \in Nat :
            /\ p = c.perTurn /\ k = Cardinality(left) /\ total = Cardinality(Sessions) /\ l = c.limit
            /\ rec = Recorded(c) /\ more = Unrecorded(c, t)
      BY <2>5, <2>6, <2>9, <3>2, CeilingsCount, ConcernedAre
    <3>4. rec + p * (k + 1) <= l - 1 + p * total
      <4>1. Cardinality(Concerned(c)) = k + 1
        BY <3>2, <3>3, ConcernedAre
      <4> QED BY <2>9, <3>3, <4>1 DEF SpendInv, Room
    <3>5. p * (k + 1) = p * k + p /\ p * k \in Nat /\ p * total \in Nat
      BY <3>3
    <3>6. rec + more + p * k <= l - 1 + p * total
      <4>1. more <= p
        BY <2>6, <3>3
      <4>2. PICK x \in Nat, y \in Nat : x = p * k /\ y = p * total
        BY <3>5
      <4> QED BY <3>4, <3>5, <4>1, <4>2
    <3> QED BY <2>5, <3>1, <3>3, <3>6 DEF Room
  <2>10. CASE c.limit = NoLimit
    BY <2>10 DEF Room
  <2> QED BY <2>8, <2>9, <2>10
<1> QED BY <1>3, <1>4, <1>7, <1>8, <1>9, SpendInvNext DEF SpendInv

LEMMA SpendStep == SpendInv /\ [Next]_vars => SpendInv'
<1> SUFFICES ASSUME SpendInv, [Next]_vars PROVE SpendInv'
  OBVIOUS
<1>1. RationInv'
  BY RationStep DEF SpendInv
<1>2. ASSUME NEW s \in Sessions, NEW who \in Students, NEW ask \in Asked, PlanTurn(s, who, ask) PROVE SpendInv'
  BY <1>1, <1>2, PlanTurnKeepsRoom
<1>3. ASSUME NEW s \in Sessions, NEW outcome \in Outcomes, Invoke(s, outcome) PROVE SpendInv'
  BY <1>1, <1>3, InvokeKeepsRoom
<1>4. ASSUME NEW s \in Sessions, NEW outcome \in {"answer", "refused", "timeout"}, Verify(s, outcome) PROVE SpendInv'
  <2>1. outcome \in Outcomes
    BY DEF Outcomes
  <2> QED BY <1>1, <1>4, <2>1, VerifyKeepsRoom
<1>5. ASSUME NEW s \in Sessions, Settle(s) \/ Crash(s) PROVE SpendInv'
  BY <1>1, <1>5, SettleKeepsRoom, CrashKeepsRoom
<1>6. CASE Tick \/ UNCHANGED vars
  BY <1>1, <1>6, TickKeepsRoom
<1> QED BY <1>2, <1>3, <1>4, <1>5, <1>6 DEF Next

LEMMA SpendInit == Init => SpendInv
<1> SUFFICES ASSUME Init PROVE SpendInv
  OBVIOUS
<1>1. RationInv /\ now \in Nat /\ wired \in Keys
  BY RationInit DEF Init
<1>2. DOMAIN ledger = {} /\ IsLedger(ledger)
  <2>1. DOMAIN ledger = {}
    BY DEF Init, EmptyBag, SetToBag
  <2> QED BY <2>1, FS_EmptySet DEF IsLedger
<1>3. Running = {}
  BY DEF Init, Running, Idle
<1>4. ASSUME NEW c \in Ceilings, c.limit # NoLimit
      PROVE  Recorded(c) + c.perTurn * Cardinality(Concerned(c)) <= c.limit - 1 + c.perTurn * Cardinality(Sessions)
  <2>1. Recorded(c) = 0
    <3>1. PICK f : f = [r \in Since(ledger, now, c.window) |-> ledger[r] * c.counts[r.who][r.vendor][r.cost]]
      OBVIOUS
    <3>2. DOMAIN f = {}
      BY <1>2, <3>1 DEF Since, BagToSet
    <3>3. SumFunctionOnSet(f, {}) = 0
      <4>1. IsFiniteSet({})
        BY FS_EmptySet
      <4> QED BY <4>1, SumTakes
    <3> QED BY <3>1, <3>2, <3>3 DEF Recorded, SumFunction
  <2>2. Cardinality(Concerned(c)) = 0
    BY <1>3, FS_EmptySet DEF Concerned
  <2>3. PICK p \in Nat, l \in Nat, total \in Nat : p = c.perTurn /\ l = c.limit /\ total = Cardinality(Sessions) /\ p >= 1
    BY <1>4, CeilingsCount, ConcernedAre
  <2>4. total >= 1
    BY <2>3, FS_EmptySet, TutorTurnAssumption
  <2>5. p * total >= 1
    <3>1. PICK d \in Nat : total = d + 1
      <4>1. total - 1 \in Nat /\ total = (total - 1) + 1
        BY <2>4
      <4> QED BY <4>1
    <3>2. p * total = p * d + p /\ p * d \in Nat
      BY <3>1
    <3> QED BY <2>3, <3>2
  <2>6. 0 + p * 0 <= l - 1 + p * total
    <3>1. PICK x \in Nat : x = p * total
      OBVIOUS
    <3> QED BY <2>5, <3>1
  <2> QED BY <2>1, <2>2, <2>3, <2>6
<1> QED BY <1>1, <1>2, <1>3, <1>4 DEF SpendInv, Room

\* What the turns have yet to record is no more than the room left for it.
LEMMA RoomIsEnough == SpendInv => SpendIsBounded
<1> SUFFICES ASSUME SpendInv, NEW c \in Ceilings, c.limit # NoLimit
             PROVE  Recorded(c) + SumFunction([s \in Running |-> Unrecorded(c, turn[s])])
                      <= c.limit - 1 + c.perTurn * Cardinality(Sessions)
  BY DEF SpendIsBounded
<1>1. PICK f : f = [s \in Running |-> Unrecorded(c, turn[s])]
  OBVIOUS
<1>2. PICK S, T : S = Running /\ T = Concerned(c)
  OBVIOUS
<1>3. IsFiniteSet(S) /\ IsFiniteSet(T) /\ T \in SUBSET S
  <2>1. S \in SUBSET Sessions /\ T \in SUBSET S
    BY <1>2 DEF Running, Concerned
  <2> QED BY <2>1, FS_Subset, TutorTurnAssumption
<1>4. ASSUME NEW s \in S
      PROVE  f[s] \in Nat /\ f[s] <= c.perTurn /\ (s \notin T => f[s] = 0)
  <2>1. PICK t : t = turn[s]
    OBVIOUS
  <2>2. TurnInv(t) /\ t # Idle /\ Priced(t)
    BY <1>2, <2>1 DEF SpendInv, RationInv, Running, Idle
  <2>3. PICK n \in 0 .. MaxAttempts : Made(t, n) /\ Allowed(t)
    BY <2>2, TurnsMake
  <2>4. /\ Unrecorded(c, t) \in Nat /\ Unrecorded(c, t) <= c.perTurn
        /\ ~MayCount(c, t) => Unrecorded(c, t) = 0
    BY <2>2, <2>3, TurnsShare
  <2>5. f[s] = Unrecorded(c, t)
    BY <1>1, <1>2, <2>1
  <2>6. s \notin T => ~MayCount(c, t)
    BY <1>2, <2>1 DEF Concerned
  <2> QED BY <2>4, <2>5, <2>6
<1>5. SumFunctionOnSet(f, T) = SumFunctionOnSet(f, S)
  <2>1. (\A s \in S : f[s] \in Nat) /\ \A s \in S \ T : f[s] = 0
    BY <1>4
  <2> QED BY <1>3, <2>1, SumOfPart
<1>6. PICK p \in Nat, l \in Nat, total \in Nat, k \in Nat :
        p = c.perTurn /\ l = c.limit /\ total = Cardinality(Sessions) /\ k = Cardinality(T)
  BY <1>2, CeilingsCount, ConcernedAre
<1>7. SumFunctionOnSet(f, T) <= p * k /\ SumFunctionOnSet(f, T) \in Nat
  <2>1. \A s \in T : f[s] \in Nat /\ f[s] <= p
    BY <1>3, <1>4, <1>6
  <2>2. SumFunctionOnSet(f, T) <= p * Cardinality(T)
    BY <1>3, <2>1, SumIsBounded
  <2> QED BY <1>3, <1>6, <2>1, <2>2, SumIsNat
<1>8. SumFunction([s \in Running |-> Unrecorded(c, turn[s])]) = SumFunctionOnSet(f, T)
  BY <1>1, <1>2, <1>5 DEF SumFunction
<1>9. PICK rec \in Nat : rec = Recorded(c)
  <2>1. RecordedBy(c, ledger, now) \in Nat
    BY RecordedByCount DEF SpendInv
  <2> QED BY <2>1, RecordedNow
<1>10. rec + p * k <= l - 1 + p * total
  BY <1>2, <1>6, <1>9 DEF SpendInv, Room
<1>11. PICK sum \in Nat : sum = SumFunctionOnSet(f, T)
  BY <1>7
<1>12. rec + sum <= l - 1 + p * total
  <2>1. PICK x \in Nat, y \in Nat : x = p * k /\ y = p * total
    OBVIOUS
  <2> QED BY <1>7, <1>10, <1>11, <2>1
<1> QED BY <1>6, <1>8, <1>9, <1>11, <1>12

\* Nothing is reserved when a turn is planned: turns that run together see the
\* same ledger, and one that dies leaves none of its calls in it.  What was
\* paid in its window still passes a ceiling, of the platform, of a student or
\* of a vendor, by what the concurrent turns may cost and no more, whatever is
\* asked, whatever the vendors answer, and however the turns are interleaved
\* (policies/budget_policy.py, orchestration/entry_service.py).
THEOREM SpendStaysBounded == Spec => []SpendIsBounded
<1>1. Init => SpendInv
  BY SpendInit
<1>2. SpendInv /\ [Next]_vars => SpendInv'
  BY SpendStep
<1>3. SpendInv => SpendIsBounded
  BY RoomIsEnough
<1> QED BY <1>1, <1>2, <1>3, PTL DEF Spec
=============================================================================
