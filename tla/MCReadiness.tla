---------------------------- MODULE MCReadiness ----------------------------
(* A plain document of every kind, with up to three things wrong at once.    *)
EXTENDS Readiness, FiniteSetsExt, TLC

Plain == [blocks |-> 4, gap |-> FALSE, crossings |-> 0, drops |-> 0, short |-> 0]
Page == [blocks |-> TRUE, tables |-> <<>>, columns |-> Plain, rejected |-> {},
         caption |-> FALSE, numeric |-> 0, dotted |-> 0]
Bare == [Page EXCEPT !.blocks = FALSE]
Table == [margin |-> FALSE, cells |-> 20, short |-> 8, generic |-> FALSE]
Candidate == [rows |-> 10, cols |-> 3, dots |-> FALSE]

Sound == [type |-> "pdf", pages |-> 2, content |-> <<Page, Page>>, empty |-> FALSE,
          levels |-> <<1, 2>>, large |-> 0, blank |-> 0, errors |-> 0, chars |-> 800, prose |-> 800,
          cids |-> 0, repeated |-> 0, tokens |-> 500, class |-> "native_text", ocr |-> TRUE,
          imagePages |-> 0, textPages |-> 2, hallucinated |-> FALSE, lines |-> 20, dottedLines |-> 0,
          dotRuns |-> 0, fragments |-> 0, mojibake |-> 0, placeholdersOnly |-> FALSE,
          assets |-> FALSE, paragraphs |-> TRUE]
NoPages == [pages |-> 0, content |-> <<>>, class |-> ""]
Kinds ==
  {Sound,
   [Sound EXCEPT !.pages = 4, !.content = <<Page, Page, Bare, Page>>, !.imagePages = 1, !.textPages = 3],
   [class |-> "scanned", ocr |-> FALSE, imagePages |-> 2, textPages |-> 0] @@ Sound,
   [class |-> "scanned", imagePages |-> 2, textPages |-> 0] @@ Sound,
   [class |-> "table_heavy"] @@ Sound,
   [class |-> "hybrid", ocr |-> FALSE, pages |-> 3, imagePages |-> 1, content |-> <<Page, Bare, Page>>] @@ Sound,
   [type |-> "md"] @@ NoPages @@ Sound, [type |-> "docx"] @@ NoPages @@ Sound,
   [type |-> "png", paragraphs |-> FALSE] @@ NoPages @@ Sound,
   [type |-> "rtf"] @@ NoPages @@ Sound}

OnFirst(page) == [content |-> <<page, Page>>, pages |-> 2]
Troubles ==
  {[large |-> 1], [large |-> 3], [errors |-> 1], [errors |-> 3], [levels |-> <<3, 5>>], [levels |-> <<>>],
   [chars |-> 159, prose |-> 159], [chars |-> 160, prose |-> 159], [chars |-> 239, prose |-> 20],
   [pages |-> 3, chars |-> 239, prose |-> 239], [pages |-> 4],
   [cids |-> 10, blank |-> 1], [repeated |-> 3], [tokens |-> 6001], [hallucinated |-> TRUE],
   [dottedLines |-> 3], [dotRuns |-> 5], [fragments |-> 3], [mojibake |-> 4], [lines |-> 19],
   [placeholdersOnly |-> TRUE], [placeholdersOnly |-> TRUE, assets |-> TRUE],
   [tokens |-> 0], [empty |-> TRUE, tokens |-> 0],
   OnFirst([Page EXCEPT !.columns = [blocks |-> 5, gap |-> TRUE, crossings |-> 2, drops |-> 1, short |-> 0]]),
   OnFirst([Page EXCEPT !.columns = [blocks |-> 5, gap |-> TRUE, crossings |-> 1, drops |-> 0, short |-> 3]]),
   OnFirst([Page EXCEPT !.tables = <<[Table EXCEPT !.margin = TRUE, !.short = 9]>>]),
   OnFirst([Page EXCEPT !.tables = <<[Table EXCEPT !.generic = TRUE], [Table EXCEPT !.generic = TRUE]>>]),
   OnFirst([Page EXCEPT !.rejected = {Candidate}, !.numeric = 3]),
   OnFirst([Page EXCEPT !.rejected = {[Candidate EXCEPT !.rows = 9]}, !.numeric = 3]),
   OnFirst([Page EXCEPT !.rejected = {[Candidate EXCEPT !.dots = TRUE]}]),
   OnFirst([Page EXCEPT !.caption = TRUE, !.dotted = 3])}
Common == {[errors |-> 1], [repeated |-> 3], [dotRuns |-> 5], [hallucinated |-> TRUE]}
(* Troubles of the pages are a PDF's.                                        *)
Meets(d, t) == {"content", "pages"} \cap DOMAIN t # {} => d.type = "pdf"
Fields(ts) == \A t, u \in ts : t = u \/ DOMAIN t \cap DOMAIN u = {}
MCDocuments ==
  {FoldSet(LAMBDA t, d : t @@ d, x[1], x[2]) :
     x \in {y \in Kinds \X ({{}} \cup {{t, u, v} : t, u \in Troubles, v \in Common}) :
              Fields(y[2]) /\ \A t \in y[2] : Meets(y[1], t)}}
=============================================================================
