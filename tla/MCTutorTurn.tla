------------------------------ MODULE MCTutorTurn ------------------------------
(* Two requests at a time; a student with an allowance of calls, one with a *)
(* budget, one on the free plan.  The platform's ceilings are all set.      *)
EXTENDS TutorTurn

CONSTANTS s1, s2, asha, ravi, meera

AllText == TextCapabilities

MCPlan ==
  [who \in {asha, ravi, meera} |->
     [paid |-> who # meera, capabilities |-> AllText, advanced |-> TRUE, verifier |-> TRUE,
      calls   |-> IF who = asha THEN 1 ELSE NoLimit,
      daily   |-> IF who = ravi THEN 2 ELSE NoLimit,
      monthly |-> IF who = ravi THEN 3 ELSE NoLimit]]

MCLimits == [hourly |-> 3, daily |-> 5, providerDaily |-> 4, circuit |-> 2]

MCKeys == {{}, {"anthropic", "openai"}}

Rule(c, w) == [capability |-> c, weight |-> w]

\* "Prove the Taylor series converges", "define osmosis", and an attachment
\* with no text.
Prove  == [chars |-> 90, words |-> 14, marks |-> 0, signs |-> {"advanced"},
           fired |-> {Rule("MATH", 4), Rule("MATH", 2), Rule("EXPLAIN_CONCEPT", 3)}]
Define == [chars |-> 40, words |-> 6, marks |-> 0, signs |-> {"simple"},
           fired |-> {Rule("BIOLOGY", 4), Rule("EXPLAIN_CONCEPT", 3)}]
Bare   == [chars |-> 0, words |-> 0, marks |-> 0, signs |-> {}, fired |-> {}]

LongTalk == [i \in 1 .. 12 |-> [role |-> IF i % 2 = 1 THEN "STUDENT" ELSE "ASSISTANT", chars |-> 400 * i]]

MCAsked ==
  {[message |-> Prove, history |-> <<>>], [message |-> Define, history |-> LongTalk],
   [message |-> Bare, history |-> <<>>]}

EitherSession == Permutations({s1, s2})
=============================================================================
