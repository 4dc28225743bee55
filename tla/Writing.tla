------------------------------- MODULE Writing -------------------------------
(***************************************************************************)
(* What is kept of a model's notes (learning/notes.py) and of its feedback  *)
(* on an essay (learning/essay.py).  A title, a citation and a claim are    *)
(* sets of words, so that a claim may contain a title; a text is a length.  *)
(***************************************************************************)
EXTENDS Integers, Sequences, FiniteSets, SequencesExt

\* The sources supplied with the request: [title, citation], in order; of two
\* with one title the later citation is used.
ByCitation(claim, evidence) == SelectLastInSeq(evidence, LAMBDA e : e.citation = claim)
ByTitle(title, evidence)    == SelectLastInSeq(evidence, LAMBDA e : e.title = title)

\* Mutant: the claim need only be part of a title.
ByOverlap(claim, evidence) == SelectInSeq(evidence, LAMBDA e : claim \subseteq e.title)

\* A shortened or extended title counts only if it contains one supplied.
ByContainedTitle(claim, evidence) ==
  LET i == SelectInSeq(evidence, LAMBDA e : e.title # {} /\ e.title \subseteq claim) IN
  IF i = 0 THEN 0 ELSE ByTitle(evidence[i].title, evidence)

\* The source a claim stands for, 0 for none.
Matched(claim, evidence) ==
  LET ways == <<ByCitation(claim, evidence), ByTitle(claim, evidence), ByContainedTitle(claim, evidence)>>
      hit  == SelectInSeq(ways, LAMBDA i : i # 0)
  IN  IF hit = 0 THEN 0 ELSE ways[hit]

\* Sections come as [explanation, claims]; one without an explanation is
\* dropped with what it cites, and only "most" of the others are shown.
ParseNotes(reply, evidence, most) ==
  LET kept   == {i \in DOMAIN reply : reply[i].explanation}
      claims == UNION {reply[i].claims : i \in kept}
  IN  [sections |-> IF Cardinality(kept) < most THEN Cardinality(kept) ELSE most,
       sources  |-> {evidence[Matched(c, evidence)].citation : c \in {d \in claims : Matched(d, evidence) # 0}},
       dropped  |-> {c \in claims : Matched(c, evidence) = 0}]
-----------------------------------------------------------------------------
MaxRewriteChars == 600
Ellipsis == 3

\* A quarter of the essay, at least 120 characters and at most 600.
Ceiling(essay) ==
  LET quarter == essay \div 4 IN
  IF quarter < 120 THEN 120 ELSE IF quarter > MaxRewriteChars THEN MaxRewriteChars ELSE quarter

SumOf(lengths) == FoldLeft(LAMBDA sum, n : sum + n, 0, lengths)

\* The suggestion that passes the ceiling is cut there, later ones dropped.
EnforceAuthorship(suggestions, essay) ==
  LET used(n) == SumOf(SubSeq(suggestions, 1, n))
      over    == {i \in DOMAIN suggestions : used(i) > Ceiling(essay)}
      cut     == CHOOSE i \in over : \A j \in over : i <= j
      room    == Ceiling(essay) - used(cut - 1)
  IN  IF over = {} THEN [kept |-> suggestions, truncated |-> FALSE]
      ELSE [kept |-> SubSeq(suggestions, 1, cut - 1) \o (IF room = 0 THEN <<>> ELSE <<room + Ellipsis>>),
            truncated |-> TRUE]

\* Marks beyond the rubric are cut, and a note on a paragraph the essay does
\* not have is dropped.  The last grade line counts; 0 is no maximum.
ParseFeedback(reply, essay, rubricMax) ==
  LET bounded == EnforceAuthorship(reply.rewrites, essay.chars) IN
  [paragraphs |-> {n \in reply.paragraphs : 1 <= n /\ n <= (IF essay.paragraphs > 1 THEN essay.paragraphs ELSE 1)},
   rewrites |-> bounded.kept, truncated |-> bounded.truncated,
   marks |-> IF reply.grades = <<>> THEN {}
             ELSE LET given == reply.grades[Len(reply.grades)] IN
                  {IF rubricMax # 0 /\ given > rubricMax THEN rubricMax ELSE given}]
=============================================================================
