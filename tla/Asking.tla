-------------------------------- MODULE Asking --------------------------------
(***************************************************************************)
(* What a question is taken to be and what of the conversation goes with it *)
(* (orchestration/router.py, services/context.py), with no model asked.     *)
(* A message is its size and what the patterns find in it: the rules that   *)
(* fire and the other signs.                                                *)
(***************************************************************************)
EXTENDS Integers, Sequences, SequencesExt

\* In the order of their names, which breaks ties.
Capabilities ==
  <<"ANSWER_CHECK", "BIOLOGY", "CHEMISTRY", "CODING", "EXPLAIN_CONCEPT", "HOMEWORK_SOLVE", "LANGUAGE_HELP", "MATH",
    "PHYSICS", "WRITING_FEEDBACK">>

TextCapabilities == ToSet(Capabilities) \cup {"GENERAL_TUTORING"}
StemCapabilities == {"MATH", "PHYSICS", "CHEMISTRY", "HOMEWORK_SOLVE"}

MinConfidentScore == 2

\* The weights of the rules of a capability that fire.
Score(msg, capability) == MapThenSumSet(LAMBDA r : r.weight, {r \in msg.fired : r.capability = capability})

TopCapability(msg) ==
  Capabilities[SelectInSeq(Capabilities, LAMBDA c : \A d \in ToSet(Capabilities) : Score(msg, d) <= Score(msg, c))]

\* A short message after others continues them.
FollowsUp(msg, hasHistory) == hasHistory /\ ("followup" \in msg.signs \/ msg.words <= 4)

Difficulty(msg, capability) ==
  CASE "advanced" \in msg.signs                       -> "ADVANCED"
    [] "advanced" \notin msg.signs /\ "simple" \in msg.signs /\ msg.chars < 120 -> "SIMPLE"
    [] OTHER -> IF msg.chars > 600 \/ msg.marks >= 3 THEN "ADVANCED"
                ELSE IF capability = "EXPLAIN_CONCEPT" /\ msg.chars < 100 THEN "SIMPLE" ELSE "MODERATE"

Intent(capability, difficulty) == [capability |-> capability, difficulty |-> difficulty]

\* A follow-up keeps the topic; a lone weak rule does not commit.
Classify(msg, hasHistory) ==
  LET general == Intent("GENERAL_TUTORING", Difficulty(msg, "GENERAL_TUTORING"))
      top     == TopCapability(msg)
  IN  IF msg.chars = 0 THEN Intent("UNKNOWN", "SIMPLE")
      ELSE IF FollowsUp(msg, hasHistory) \/ Score(msg, top) < MinConfidentScore THEN general
      ELSE Intent(top, Difficulty(msg, top))
-----------------------------------------------------------------------------
(* The prompt: what is older than the last turns in one summary, the last   *)
(* turns cut short, the message.  Sizes are characters, then tokens.        *)

RecentTurnLimit    == 8
MaxTurnChars       == 1500
MaxMessageChars    == 8000
SummaryTurnChars   == 200
MaxAssembledTokens == 8000

TruncatedMark == 15
OneTopicFrame == 48
TopicsFrame   == 113

Tokens(chars) == (chars + 3) \div 4

Truncated(chars, limit) == IF chars <= limit THEN chars ELSE limit + TruncatedMark

\* The first and the last thing the student asked.
SummaryChars(turns) ==
  LET asked == SelectSeq(turns, LAMBDA t : t.role = "STUDENT")
      part(i) == Truncated(asked[i].chars, SummaryTurnChars)
  IN  CASE asked = <<>>    -> 0
        [] Len(asked) = 1  -> OneTopicFrame + part(1)
        [] Len(asked) >= 2 -> TopicsFrame + part(1) + part(Len(asked))

Sizes(older, recent) ==
  (IF SummaryChars(older) = 0 THEN <<>> ELSE <<Tokens(SummaryChars(older))>>)
    \o [i \in DOMAIN recent |-> Tokens(Truncated(recent[i].chars, MaxTurnChars))]

Sum(numbers) == FoldLeft(LAMBDA a, b : a + b, 0, numbers)

\* Oldest first, until the rest fits.
Trimmed(sizes, room) ==
  LET fits == {n \in 0 .. Len(sizes) : Sum(SubSeq(sizes, n + 1, Len(sizes))) <= room} IN
  IF fits = {} THEN <<>> ELSE SubSeq(sizes, Min(fits) + 1, Len(sizes))

\* The system prompt and the message are fixed costs and never trimmed.
Assemble(system, history, msg) ==
  LET cut   == Max({0, Len(history) - RecentTurnLimit})
      fixed == system + Tokens(Truncated(msg.chars, MaxMessageChars))
      kept  == Trimmed(Sizes(SubSeq(history, 1, cut), SubSeq(history, cut + 1, Len(history))),
                       MaxAssembledTokens - fixed)
  IN  [tokens |-> fixed + Sum(kept), kept |-> Len(kept)]
=============================================================================
