------------------------------- MODULE MCStudy -------------------------------
(* Small instances of Study. *)
EXTENDS Study

CONSTANTS s1, s2

OldCards ==
  {NewCard,
   [repetitions |-> 2, interval |-> 6, ease |-> 140, due |-> 0, lapses |-> 2],
   [repetitions |-> 6, interval |-> 238, ease |-> 298, due |-> 0, lapses |-> 0]}

Question(n, type, marks, key, unit) ==
  [number |-> n, type |-> type, marks |-> marks, key |-> key, unit |-> unit]

AllPaper ==
  {Question(1, "MCQ", 1, 2, NoUnit), Question(2, "NUMERIC", 2, 200, "cm"),
   Question(3, "SHORT_ANSWER", 2, 7, NoUnit), Question(4, "STRUCTURED", 3, Missing, NoUnit)}

Response(n, answer, unit) == [number |-> n, answer |-> answer, unit |-> unit]

\* Right and wrong, in another unit, in an unknown one, twice, and left out.
AllSubmissions ==
  {<<>>,
   <<Response(1, 2, NoUnit), Response(2, 2, "m"), Response(3, 7, NoUnit)>>,
   <<Response(1, 1, NoUnit), Response(2, 200, "furlong"), Response(3, 8, NoUnit), Response(4, 5, NoUnit)>>,
   <<Response(2, 2, "s"), Response(1, 1, NoUnit), Response(1, 2, NoUnit), Response(4, 5, NoUnit)>>}

Line(n, marks) == [number |-> n, marks |-> marks]

\* In thousandths: nothing, a question beyond its worth, twice or not asked for,
\* and decimals whose total is rounded up, down or either way.
AllReplies ==
  {<<>>, <<Line(4, 1000), Line(3, 9000), Line(4, 4000)>>, <<Line(2, 9000)>>,
   <<Line(3, 333), Line(4, 1333)>>, <<Line(4, 2332)>>, <<Line(3, 1500), Line(4, 2995)>>}

AllCandidates ==
  {[statement |-> "visual", confidence |-> "HIGH", days |-> 0, personal |-> FALSE],
   [statement |-> "focus", confidence |-> "MEDIUM", days |-> 1, personal |-> FALSE],
   [statement |-> "address", confidence |-> "HIGH", days |-> 0, personal |-> TRUE]}

LinearProblems == {Linear(a, b, c) : a \in {-2, 1, 3}, b \in -1 .. 2, c \in -3 .. 4}
QuadraticProblems == UNION {ParseQuadratic(b, c) : b \in -4 .. 4, c \in -6 .. 6}

Statement(form, name, value, unit) == [form |-> form, name |-> name, value |-> value, unit |-> unit]

Answers ==
  {[said |-> said, form |-> form] :
     said \in {<<>>, <<Statement("assignment", "x", 3, NoUnit)>>, <<Statement("assignment", "y", 3, NoUnit)>>,
               <<Statement("passing", "x", 3, NoUnit), Statement("final", "", 3, "m")>>,
               <<Statement("assignment", "x", 2, NoUnit), Statement("assignment", "x", 3, NoUnit)>>},
     form \in {Unreadable, <<1, 2, 0>>, <<2, 2, 0>>, <<1, 3, 0>>}}

Problems ==
  {[unknown |-> unknown, equation |-> equation, expects |-> expects, form |-> form, unit |-> unit] :
     unknown \in {"none", "x"}, equation \in {<<-3, 1, 0>>, <<-6, 5, 1>>, Unreadable}, expects \in {<<>>, <<3>>},
     form \in {Unreadable, <<1, 2, 0>>}, unit \in {NoUnit, "m", "s"}}

Expressions ==
  {[chars |-> chars, illegal |-> FALSE, chained |-> chained, symbols |-> symbols, exponents |-> exponents,
    factorials |-> factorials] :
     chars \in {20, 501}, chained \in BOOLEAN, symbols \in BOOLEAN,
     exponents \in {{}, {Symbolic}, {<<500, 500>>}, {<<2>>, <<10, -100>>}, {<<-2000>>}},
     factorials \in {{}, {<<30, 33>>}, {<<40, 30>>}, {Symbolic}}}

Sources ==
  {<<>>, <<[title |-> {"motion", "laws"}, citation |-> {"motion", "laws", "p1"}]>>,
   <<[title |-> {"motion"}, citation |-> {"motion", "p1"}], [title |-> {"laws"}, citation |-> {"laws", "p2"}]>>}

Section(explanation, claims) == [explanation |-> explanation, claims |-> claims]

NoteReplies ==
  {<<>>, <<Section(TRUE, {{"motion"}}), Section(FALSE, {{"laws", "p2"}})>>,
   <<Section(TRUE, {{"motion", "laws", "by"}, {"waves"}}), Section(TRUE, {{"motion", "laws", "p1"}})>>}

EssayReplies ==
  {[paragraphs |-> {0, 1, 3}, rewrites |-> rewrites, grades |-> grades] :
     rewrites \in {<<>>, <<100>>, <<80, 80, 10>>, <<120, 1>>, <<500, 200>>}, grades \in {<<>>, <<7>>, <<7, 30>>}}

Sentences == {20, 860, 1601, 3300}
Paragraphs == TupleOf(Sentences, 1) \cup TupleOf(Sentences, 2) \cup {<<860, 860, 20>>}

Wants ==
  {[persona |-> p, turns |-> t, summary |-> m, memories |-> <<20, 30, 5>>, evidence |-> e] :
     p \in {0, 60}, t \in {<<>>, <<50, 200, 30>>, <<90, 90, 40>>}, m \in {0, 30}, e \in {<<>>, <<112, 20>>, <<80, 60, 50>>}}

LibrarySheets ==
  {[kind |-> "split", paragraphs |-> p] : p \in TupleOf(Paragraphs, 1) \cup TupleOf(Paragraphs, 2)}
  \cup {[kind |-> "prompt", total |-> t, fixed |-> f, want |-> w] : t \in {100, 300, 500}, f \in {40, 200}, w \in Wants}

Layer(chars, alnum, passes) ==
  [chars |-> chars, alnum |-> alnum, prints |-> {}, passes |-> passes]

Pass(chars, symbols, confidence, maths) ==
  [chars |-> chars, symbols |-> symbols, confidence |-> confidence, maths |-> maths]

\* A line it is sure of, a page of symbols, a column half read, maths, nothing.
Passes ==
  {Pass(30, 5, 95, FALSE), Pass(400, 60, 80, FALSE), Pass(90, 10, 50, FALSE), Pass(60, 20, 70, TRUE), NoText}

PageKinds ==
  {Layer(900, 80, <<>>), Layer(0, 0, <<Pass(600, 10, 90, FALSE)>>), Layer(90, 20, <<Pass(300, 5, 60, FALSE)>>),
   [Layer(0, 0, <<>>) EXCEPT !.prints = {4}]}

Scan    == Layer(0, 0, <<Pass(600, 10, 90, FALSE)>>)
Scribble == Layer(0, 0, <<Pass(10, 0, 20, FALSE)>>)

File(head, pages) ==
  [head |-> head, declared |-> Undeclared, kilobytes |-> 300, width |-> 1200, height |-> 900, sealed |-> FALSE,
   pages |-> pages, seconds |-> Compressed, filters |-> TRUE]

Brief(singles, ranges, matches, math) ==
  [singles |-> singles, ranges |-> ranges, words |-> TRUE, matches |-> matches, questions |-> {4}, math |-> math,
   clean |-> FALSE, solving |-> FALSE]

SolveIt == Brief({}, {}, <<>>, TRUE)
CleanIt == [SolveIt EXCEPT !.clean = TRUE, !.math = FALSE]

Briefs ==
  {SolveIt, Brief({}, {}, <<0, 3, 7>>, FALSE), Brief({2, 9}, {<<4, 3>>}, <<>>, FALSE), Brief({}, {<<0, 12>>}, <<>>, FALSE),
   [Brief({}, {}, <<5>>, FALSE) EXCEPT !.words = FALSE, !.solving = TRUE, !.clean = TRUE]}

Env(ocr, gateway, permits, replies) == [ocr |-> ocr, gateway |-> gateway, permits |-> permits, answers |-> replies]
Envs == {Env(TRUE, TRUE, TRUE, TRUE), Env(FALSE, TRUE, TRUE, TRUE), Env(TRUE, TRUE, FALSE, TRUE), Env(TRUE, TRUE, TRUE, FALSE)}

Row(page, method) == [page |-> page, method |-> method]

Of(n, page) == [i \in 1 .. n |-> page]

Documents3 ==
  TupleOf(PageKinds, 3) \cup {Of(7, Scan), Of(7, Scribble), Of(201, Scan), <<>>,
    <<Scribble, Scan, Scan>> \o Of(3, Layer(900, 80, <<>>)) \o <<Scan, Scribble>>}

FileSheet(file, brief, env, cached) ==
  [kind |-> "file", file |-> file, brief |-> brief, env |-> env, cached |-> cached]

FileSheets ==
  {FileSheet(File("pdf", pages), brief, env, cached) :
     pages \in Documents3, brief \in Briefs, env \in Envs,
     cached \in {{}, {Row(2, "LOCAL_OCR"), Row(3, "DIGITAL_TEXT"), Row(3, "VISION")}}}
  \cup {FileSheet(File("image", <<Layer(0, 0, passes)>>), brief, env, {}) :
          passes \in UNION {TupleOf(Passes, n) : n \in 0 .. 3}, brief \in {SolveIt, CleanIt, Brief({}, {}, <<>>, FALSE)},
          env \in Envs}
  \cup {FileSheet([File("image", <<Scribble>>) EXCEPT !.filters = filters], CleanIt, Env(TRUE, TRUE, TRUE, TRUE), cached) :
          filters \in BOOLEAN, cached \in {{}, {Row(1, "VISION")}}}
  \cup {FileSheet([File("audio", <<>>) EXCEPT !.seconds = seconds], SolveIt, env, cached) :
          seconds \in {Compressed, 300, 301}, env \in Envs, cached \in {{}, {Row(1, "TRANSCRIPTION")}}}
  \cup {FileSheet([File(head, <<Scan>>) EXCEPT !.declared = declared, !.kilobytes = size, !.width = w, !.height = w],
                  SolveIt, Env(TRUE, TRUE, TRUE, TRUE), {}) :
          head \in {"EXECUTABLE", "ARCHIVE", "video", "image", "pdf"}, declared \in {"image", "application"},
          size \in {0, 8193, 20481, 300}, w \in {0, 900, 9000, 12001}}

AllSheets ==
  {[kind |-> "twins", problem |-> t, count |-> count, most |-> 5] :
     t \in LinearProblems \cup QuadraticProblems, count \in {0, 3, 6}}
  \cup {[kind |-> "parse", b |-> b, c |-> c] : b \in -4 .. 4, c \in -6 .. 6}
  \cup {[kind |-> "check", answer |-> a, problem |-> p] : a \in Answers, p \in Problems}
  \cup {[kind |-> "calculate", expression |-> e] : e \in Expressions}
  \cup {[kind |-> "notes", evidence |-> e, reply |-> r, most |-> 1] : e \in Sources, r \in NoteReplies}
  \cup {[kind |-> "essay", reply |-> r, essay |-> [chars |-> chars, paragraphs |-> 2], rubric |-> rubric] :
          r \in EssayReplies, chars \in {90, 800, 4000}, rubric \in {0, 20}}
  \cup {[kind |-> "mock", minutes |-> m, count |-> n, plan |-> p] :
          m \in {0, 20, 45, 400}, n \in {0, 1, 7, 60}, p \in {"FREE", "PRO"}}
  \cup LibrarySheets \cup FileSheets

Piece(opens, text, paragraphs) == [opens |-> opens, text |-> text, paragraphs |-> paragraphs]

\* A chapter and its problem with a running header; a page number; one text.
AllDocuments ==
  [book  |-> << [number |-> 1, pieces |-> <<Piece("heading", "motion", <<<<900>>, <<800>>>>),
                                            Piece("problem", "ramp", <<<<90>>>>)>>],
                [number |-> 2, pieces |-> <<Piece("none", "header", <<<<40>>>>), Piece("none", "header", <<<<40>>>>)>>] >>,
   blank |-> << [number |-> NoPage, pieces |-> <<Piece("none", "page", <<<<4>>>>)>>] >>]

Request(document, visibility, subject, tutor, course) ==
  [document |-> document, visibility |-> visibility, subject |-> subject, tutor |-> tutor, course |-> course,
   conversation |-> NoOne]

AllRequests ==
  {Request("book", "STUDENT_PRIVATE", "asha", NoOne, NoOne), Request("book", "STUDENT_PRIVATE", "ravi", "rao", NoOne),
   Request("book", "GLOBAL_CURATED", NoOne, NoOne, NoOne), Request("blank", "TUTOR", NoOne, "rao", NoOne),
   Request("book", "COURSE", NoOne, NoOne, "optics"),
   [Request("book", "CONVERSATION", NoOne, NoOne, NoOne) EXCEPT !.conversation = "chat"],
   Request("book", "CONVERSATION", NoOne, NoOne, NoOne)}

Scope(subject, tutor, courses) ==
  [subject |-> subject, tutor |-> tutor, courses |-> courses, conversation |-> NoOne, includeGlobal |-> TRUE]

Words(motion, ramp, header) == [motion |-> motion, ramp |-> ramp, header |-> header, page |-> 0]

Query(signs, scope, available, lexical) ==
  [query |-> [chars |-> 30, signs |-> signs, text |-> <<"question", 1>>, lexical |-> lexical,
              close |-> Words(3, 1, 2)],
   scope |-> scope, permits |-> TRUE, highStakes |-> FALSE, followUp |-> FALSE, activeDocument |-> FALSE,
   available |-> available]

\* The words of the last one are in three passages of the book.
AllQuestions ==
  {Query({"source"}, Scope("asha", NoOne, {}), 2000, Words(0, 2, 0)),
   Query({"tutor"}, Scope("ravi", "rao", {"optics"}), 400, Words(0, 2, 0)),
   Query({"document"}, Scope("asha", NoOne, {}), 2000, Words(1, 2, 0))}

\* A worksheet with a page only a model can read, sent twice.
AllContents == [worksheet |-> File("pdf", <<Layer(900, 80, <<>>), Scribble>>)]

AllUploads ==
  << [content |-> "worksheet", brief |-> SolveIt], [content |-> "worksheet", brief |-> Brief({2}, {}, <<>>, FALSE)] >>

AllEnvironments == {Env(TRUE, TRUE, permits, TRUE) : permits \in BOOLEAN}

\* No operator chooses between the sessions.
EitherSession == Permutations({s1, s2})

WritesPerDesk == [cards |-> 3, papers |-> 3, homework |-> 3, memory |-> 3, progress |-> 9, answers |-> 0, library |-> 0,
                  files |-> 0]
=============================================================================
