----------------------------- MODULE Extraction -----------------------------
(***************************************************************************)
(* How a file is read (media/validation.py, media/pdf.py, media/ocr.py,     *)
(* media/extractor.py, media/audio.py, media/enhance.py): the free reader   *)
(* first, the local one next, a paid model last.                            *)
(*                                                                          *)
(* A text is what its reader measures of it: its length, its share of       *)
(* letters or of symbols, its confidence in per cent.  A brief is what the  *)
(* patterns find in it, and how well each page answers it (matches).        *)
(***************************************************************************)
EXTENDS Integers, Sequences, FiniteSets, SequencesExt

Category     == [image |-> "image", pdf |-> "application", audio |-> "audio"]
MaxKilobytes == [image |-> 8192, pdf |-> 20480, audio |-> 16384]

MaxImageDimension == 12000
MaxImagePixels    == 40000000

Undeclared == "undeclared"

\* The first check that fails names the reason; no parser has run yet.
Validate(file) ==
  IF file.kilobytes = 0 THEN "CORRUPT"
  ELSE IF file.head \in {"EXECUTABLE", "ARCHIVE"} THEN file.head
  ELSE IF file.head \notin DOMAIN Category THEN "UNSUPPORTED_MIME"
  ELSE IF file.declared \notin {Undeclared, Category[file.head]} THEN "MIME_MISMATCH"
  ELSE IF file.kilobytes > MaxKilobytes[file.head] THEN "TOO_LARGE"
  ELSE "OK"

\* From the header, before a pixel is decoded.
ValidateImageDimensions(file) ==
  IF file.width = 0 THEN "CORRUPT"
  ELSE IF file.width > MaxImageDimension \/ file.height > MaxImageDimension THEN "DIMENSIONS"
  ELSE IF file.width * file.height > MaxImagePixels THEN "DECOMPRESSION_BOMB"
  ELSE "OK"

\* What the bytes are refused for before they are stored.
Refusal(file) ==
  IF Validate(file) = "OK" /\ file.head = "image" THEN ValidateImageDimensions(file) ELSE Validate(file)
-----------------------------------------------------------------------------
(* The plan of a PDF: which pages, and by which method.                     *)

MaxPdfPages       == 200
MaxPagesProcessed == 5
MaxOcrPages       == 3
MaxVisionPages    == 2

Inspect(file) ==
  IF file.sealed THEN "ENCRYPTED"
  ELSE IF file.pages = <<>> THEN "CORRUPT"
  ELSE IF Len(file.pages) > MaxPdfPages THEN "TOO_MANY_PAGES"
  ELSE "OK"

\* A text layer worth using: long enough, and letters rather than symbols.
HasText(page) == page.chars >= 80 /\ page.alnum >= 35

Numbers(pages) == [i \in DOMAIN pages |-> i]

\* A set in order, where of any two members one is before the other: the place
\* of each is the number of those before it.
Sorted(set, Before(_, _)) ==
  [i \in 1 .. Cardinality(set) |-> CHOOSE x \in set : Cardinality({y \in set : Before(y, x)}) = i - 1]

\* "pages 3-2" is a range too; what the document does not have is dropped.
ParseRequestedPages(pages, brief) ==
  Sorted({p \in DOMAIN pages :
            p \in brief.singles \/ \E r \in brief.ranges : p \in (r[1] .. r[2]) \cup (r[2] .. r[1])},
         LAMBDA p, q : p < q)

QuestionBonus == 5

\* A page scores by the brief's words, and more when it prints the question.
Score(pages, brief, p) ==
  (IF p \in DOMAIN brief.matches THEN brief.matches[p] ELSE 0)
    + QuestionBonus * Cardinality(brief.questions \cap pages[p].prints)

\* A brief without words ranks nothing.
ScorePagesByBrief(pages, brief) ==
  Sorted({p \in DOMAIN pages : brief.words /\ Score(pages, brief, p) > 0},
         LAMBDA p, q : \/ Score(pages, brief, p) > Score(pages, brief, q)
                       \/ Score(pages, brief, p) = Score(pages, brief, q) /\ p < q)

FirstOfThem(pages) == SubSeq(pages, 1, IF Len(pages) > MaxPagesProcessed THEN MaxPagesProcessed ELSE Len(pages))

\* The pages named, else those that match, else the first ones.
Selected(pages, brief) ==
  LET named  == ParseRequestedPages(pages, brief)
      ranked == ScorePagesByBrief(pages, brief)
  IN  FirstOfThem(IF named # <<>> THEN named ELSE IF ranked # <<>> THEN ranked ELSE Numbers(pages))

ScansBefore(pages, chosen, i) == Cardinality({j \in 1 .. i - 1 : ~HasText(pages[chosen[j]])})

PlanExtraction(pages, brief, ocr) ==
  LET chosen == Selected(pages, brief) IN
  [i \in DOMAIN chosen |->
     [page |-> chosen[i],
      method |-> IF HasText(pages[chosen[i]]) THEN "DIGITAL_TEXT"
                 ELSE IF ocr /\ ScansBefore(pages, chosen, i) < MaxOcrPages THEN "LOCAL_OCR"
                 ELSE "VISION"]]
-----------------------------------------------------------------------------
(* Local OCR: several passes over one picture, and a verdict on the best.   *)

Unsure == -1    \* a pass without words has no confidence

NoText == [chars |-> 0, symbols |-> 0, confidence |-> Unsure, maths |-> FALSE]

MostlySymbols(reading) == reading.symbols > 45

Confidence(reading) == IF reading.confidence = Unsure THEN 0 ELSE reading.confidence

\* Mutant: length alone.
LongerWins(new, old) == new.chars > old.chars

\* Words before symbols, half again as much text before confidence.
IsBetter(new, old) ==
  IF new.chars = 0 \/ old.chars = 0 THEN new.chars # 0
  ELSE IF MostlySymbols(new) # MostlySymbols(old) THEN MostlySymbols(old)
  ELSE IF 2 * new.chars > 3 * old.chars THEN TRUE
  ELSE IF 2 * old.chars > 3 * new.chars THEN FALSE
  ELSE Confidence(new) > Confidence(old)

\* A mode the engine rejects is no pass.
ReadLocally(passes) ==
  FoldLeft(LAMBDA best, pass : IF IsBetter(pass, best) THEN pass ELSE best, NoText, passes)

\* Stricter where the reader fails quietly: mathematics, expected or seen.
Assess(reading, expectMath) ==
  /\ reading.chars >= 25
  /\ ~MostlySymbols(reading)
  /\ reading.confidence # Unsure =>
       reading.confidence >= (IF expectMath \/ reading.maths THEN 75 ELSE 55)
-----------------------------------------------------------------------------
(* The execution of a plan.  A deployment has a local reader or not (ocr),  *)
(* models or not (gateway), leave to pay or not (permits), and a model may  *)
(* fail to answer (answers).                                                *)

Unread == [pages |-> {}, ocr |-> 0, vision |-> {}]

\* Planned so, or the local reader is not sure of what it read.
HardPage(planned, pages, brief) ==
  \/ planned.method = "VISION"
  \/ planned.method = "LOCAL_OCR" /\ ~Assess(ReadLocally(pages[planned.page].passes), brief.math)

\* The first pages of those, if any may be paid for; the request does not fail
\* for the others.
VisionPages(hard, env) ==
  {i \in hard : /\ env.gateway /\ env.permits
                /\ Cardinality({j \in hard : j < i}) < MaxVisionPages}

\* Steps `todo` of the plan, in its order.
RunPlan(plan, todo, pages, brief, env) ==
  LET hard == {i \in todo : HardPage(plan[i], pages, brief)}
      paid == VisionPages(hard, env)
  IN  [pages  |-> {plan[i] : i \in todo \ hard}
                    \cup {[page |-> plan[i].page, method |-> "VISION"] : i \in {k \in paid : env.answers}},
       ocr    |-> Cardinality({i \in todo : plan[i].method = "LOCAL_OCR"}),
       vision |-> {plan[i].page : i \in paid}]

InPageOrder(read) == Sorted(read, LAMBDA a, b : a.page < b.page)

Result(state, reason, reading, hits) ==
  [state |-> state, reason |-> reason, pages |-> InPageOrder(reading.pages), ocr |-> reading.ocr,
   vision |-> reading.vision, hits |-> hits]

Ready(reading, hits) == Result("READY_FOR_CAPABILITY", "OK", reading, hits)

\* Of the rows of a page, written under two methods, one is served.
Served(cached, p) == CHOOSE c \in cached : c.page = p

Remaining(plan, cached) == {i \in DOMAIN plan : \A c \in cached : c.page # plan[i].page}

\* Cached pages and read ones; only the latter may cost.
ReadPdf(file, brief, env, cached) ==
  IF Inspect(file) # "OK" THEN Result("REJECTED", Inspect(file), Unread, 0)
  ELSE LET plan    == PlanExtraction(file.pages, brief, env.ocr)
           hits    == {p \in {planned.page : planned \in ToSet(plan)} : \E c \in cached : c.page = p}
           reading == RunPlan(plan, Remaining(plan, cached), file.pages, brief, env)
       IN  Ready([reading EXCEPT !.pages = @ \cup {Served(cached, p) : p \in hits}], Cardinality(hits))

MaxAudioSeconds == 300
Compressed == -1    \* only a WAV header tells the duration

\* The voice is the request: it is paid for, or nothing is heard.
ReadVoice(file, env, cached) ==
  CASE cached # {} -> Ready([Unread EXCEPT !.pages = {Served(cached, 1)}], 1)
    [] cached = {} /\ env.permits /\ file.seconds <= MaxAudioSeconds /\ env.gateway ->
         Ready([Unread EXCEPT !.vision = {1},
                              !.pages = IF env.answers THEN {[page |-> 1, method |-> "TRANSCRIPTION"]} ELSE {}], 0)
    [] OTHER -> Ready(Unread, 0)
-----------------------------------------------------------------------------
(* Cleaning a photo (media/enhance.py).                                    *)

WantsEnhancement(brief) == brief.clean /\ ~brief.solving

\* A request for a cleaner picture is answered by one, and read by nobody; a
\* filter that fails leaves the photo to the readers.
ReadImage(file, brief, env, cached) ==
  LET whole == <<[page |-> 1, method |-> IF env.ocr THEN "LOCAL_OCR" ELSE "VISION"]>>
  IN  CASE WantsEnhancement(brief) /\ file.filters ->
             Result("READY_FOR_CAPABILITY", "OK", Unread, 0)
        [] ~(WantsEnhancement(brief) /\ file.filters) /\ cached # {} ->
             Ready([Unread EXCEPT !.pages = {Served(cached, 1)}], 1)
        [] OTHER -> Ready(RunPlan(whole, {1}, file.pages, brief, env), 0)

\* What becomes of bytes that were fetched.
ReadFile(file, brief, env, cached) ==
  CASE Refusal(file) # "OK" -> Result("REJECTED", Refusal(file), Unread, 0)
    [] Refusal(file) = "OK" /\ file.head = "pdf"   -> ReadPdf(file, brief, env, cached)
    [] Refusal(file) = "OK" /\ file.head = "audio" -> ReadVoice(file, env, cached)
    [] Refusal(file) = "OK" /\ file.head = "image" -> ReadImage(file, brief, env, cached)
=============================================================================
