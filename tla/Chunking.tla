------------------------------ MODULE Chunking -------------------------------
(***************************************************************************)
(* The splitter of documents (rag/chunking.py).  A text is a sequence of    *)
(* pages, a page a sequence of pieces, each opened by a heading, by a       *)
(* problem's number or by neither; a piece is a sequence of paragraphs, a   *)
(* paragraph the lengths of its sentences.  What two texts say is the same  *)
(* when their pieces have one name: hashes ignore case and white space.     *)
(***************************************************************************)
EXTENDS Integers, Sequences, SequencesExt

CharsPerToken == 4
TargetTokens  == 220
MaxTokens     == 400
MinTokens     == 8

\* The longest part that is left out.
MaxFragment == (MinTokens - 1) * CharsPerToken

NoPage    == 0
NoSection == "none"

EstimateTokens(chars) == IF chars = 0 THEN 1 ELSE (chars + CharsPerToken - 1) \div CharsPerToken

\* The length of parts joined by a gap.
Joined(lengths, gap) == FoldLeft(LAMBDA n, m : n + m, 0, lengths) + gap * (Len(lengths) - 1)

SentenceGap  == 1
ParagraphGap == 2

ParagraphChars(paragraph) == Joined(paragraph, SentenceGap)
PieceChars(paragraphs) ==
  Joined([i \in DOMAIN paragraphs |-> ParagraphChars(paragraphs[i])], ParagraphGap)

\* Units are packed in order, a new group where one more would pass the target.
Packed(units, Chars(_)) ==
  FoldLeft(LAMBDA groups, u :
             IF groups = <<>> THEN <<<<u>>>>
             ELSE IF EstimateTokens(Chars(Append(Last(groups), u))) > TargetTokens THEN Append(groups, <<u>>)
             ELSE Append(Front(groups), Append(Last(groups), u)),
           <<>>, units)

\* Mutant: the last resort is left out.
CutNever(chars) == <<chars>>

\* The last resort: a sentence too long is cut by size.
Cut(chars) ==
  LET limit == MaxTokens * CharsPerToken
      whole == chars \div limit
  IN  IF chars <= limit THEN <<chars>>
      ELSE [i \in 1 .. whole |-> limit] \o (IF chars % limit = 0 THEN <<>> ELSE <<chars % limit>>)

BySentence(paragraphs) ==
  LET groups == Packed(FlattenSeq(paragraphs), ParagraphChars) IN
  [i \in DOMAIN groups |-> ParagraphChars(groups[i])]

\* Paragraphs first, then sentences, then size.
SplitOversized(paragraphs) ==
  LET groups == Packed(paragraphs, PieceChars)
      parts(g) == IF EstimateTokens(PieceChars(g)) <= MaxTokens THEN <<PieceChars(g)>> ELSE BySentence(g)
      final  == FlattenSeq([i \in DOMAIN groups |-> parts(groups[i])])
  IN  IF EstimateTokens(PieceChars(paragraphs)) <= MaxTokens THEN <<PieceChars(paragraphs)>>
      ELSE FlattenSeq([i \in DOMAIN final |-> Cut(final[i])])

\* The section of a piece: the nearest heading at or above it on its page.  A
\* numbered problem is no section.
CurrentHeading(page, i) ==
  LET h == SelectLastInSubSeq(page.pieces, 1, i, LAMBDA p : p.opens = "heading") IN
  IF h = 0 THEN NoSection ELSE page.pieces[h].text

\* What is long enough to be indexed: a bare heading or a page number is not.
LongEnough(parts) ==
  FoldLeft(LAMBDA kept, chars : IF EstimateTokens(chars) >= MinTokens THEN Append(kept, chars) ELSE kept,
           <<>>, parts)

PartsOf(page, i) ==
  LET chars == LongEnough(SplitOversized(page.pieces[i].paragraphs)) IN
  [k \in DOMAIN chars |->
     [passage |-> <<page.pieces[i].text, k>>, page |-> page.number, section |-> CurrentHeading(page, i),
      chars |-> chars[k]]]

ChunkText(text) ==
  LET ofPage(page) == FlattenSeq([i \in DOMAIN page.pieces |-> PartsOf(page, i)]) IN
  FlattenSeq([i \in DOMAIN text |-> ofPage(text[i])])

\* One of each passage, the first: a running header is indexed once.
Deduplicated(chunks) ==
  FoldLeft(LAMBDA kept, c : IF \E i \in DOMAIN kept : kept[i].passage = c.passage THEN kept ELSE Append(kept, c),
           <<>>, chunks)
=============================================================================
