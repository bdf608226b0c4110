------------------------------ MODULE Readiness ------------------------------
(* The validators of a compile, in the order of their priorities, and the     *)
(* readiness score computed from what they report (scoring/readiness.py).     *)
(*                                                                            *)
(* A document is what the validators measure of it: its type, its pages and   *)
(* what stands on them, and the counts (lines, characters, glyphs, repeated   *)
(* lines, OCR statistics) that the thresholds are compared with.  The issues  *)
(* of the validation report are counted by their codes.  Only a compile with  *)
(* a document gets here; one from an external parser adapter is of type "md". *)
EXTENDS Integers, Sequences, FiniteSets, SequencesExt

CONSTANT Documents

(* What is measured of a document are counts, of a finite number of pages.    *)
ASSUME DocumentsAssumption ==
  \A d \in Documents :
    /\ {d.pages, d.imagePages, d.errors, d.large, d.blank} \subseteq Nat
    /\ Len(d.levels) \in Nat
    /\ IsFiniteSet(DOMAIN d.content)

VARIABLES doc,          \* what is measured of the parsed document
          pc,           \* validator that runs next, then "score", then "scored"
          issues,       \* code -> how many issues of the report have it
          next,         \* the next rule of the policy
          score, deductions
vars == <<doc, pc, issues, next, score, deductions>>

Codes == {"PARSE_ERROR", "EMPTY_DOCUMENT", "HEADING_HIERARCHY",
          "HEADING_SKIP", "LARGE_BLOCK", "EMPTY_BLOCK", "MISSING_PAGE",
          "NEAR_EMPTY_OUTPUT", "LOW_TEXT_DENSITY", "GLYPH_ARTIFACTS", "REPEATED_CONTENT",
          "TOKEN_BLOAT", "OCR_REQUIRED", "OCR_HALLUCINATION", "W_IMAGE_ONLY_TEXT_BAR_FAIL",
          "W_TABLE_EXPECTED_NOT_EXTRACTED", "W_MULTICOLUMN_ORDER",
          "W_HEADER_FOOTER_TABLE_GARBLED", "W_TABLE_MISSING", "W_ENCODING_ARTIFACTS"}

AtMost(a, b) == IF a <= b THEN a ELSE b
AtLeast(a, b) == IF a >= b THEN a ELSE b
Flag(p) == IF p THEN 1 ELSE 0
Pages == DOMAIN doc.content
Tables == {x \in Pages \X (1..3) : x[2] \in DOMAIN doc.content[x[1]].tables}
Pdf == doc.type = "pdf"

(* A validator adds its warnings to the report, and the next one runs.       *)
Of(found, c) == IF c \in DOMAIN found THEN found[c] ELSE 0
Warn(found) == issues' = [c \in Codes |-> issues[c] + Of(found, c)]
Validate(name, then, found) ==
  /\ pc = name /\ pc' = then /\ Warn(found)
  /\ UNCHANGED <<doc, next, score, deductions>>

----------------------------------------------------------------------------
(* StructureValidator.  Without a block it reports an empty document and     *)
(* looks no further.                                                         *)
Skips == {i \in 2..Len(doc.levels) : doc.levels[i] > doc.levels[i - 1] + 1}
MissingPages == Cardinality({p \in 1..doc.pages :
                               p \notin Pages \/ ~doc.content[p].blocks})
Sparse == doc.pages >= 3 /\ doc.chars < 80 * doc.pages
Thin == Pdf /\ doc.pages > 0 /\ doc.prose < 80 * doc.pages
Garbled == doc.cids >= 10 /\ 50 * doc.cids > doc.chars
Bloated == Pdf /\ doc.pages >= 3 /\ doc.tokens > 1500 * doc.pages
OcrMissing == Pdf /\ doc.class \in {"scanned", "hybrid"} /\ ~doc.ocr /\ doc.imagePages > 0
ImageOnly == Pdf /\ doc.class = "scanned" /\ doc.textPages = 0 /\ doc.pages >= 1

HeadingIssues ==
  [HEADING_HIERARCHY |-> Flag(doc.levels # <<>> /\ doc.levels[1] > 2),
   HEADING_SKIP |-> Cardinality(Skips)]
PageIssues ==
  [LARGE_BLOCK |-> doc.large, EMPTY_BLOCK |-> doc.blank,
   MISSING_PAGE |-> IF Pdf THEN MissingPages ELSE 0]
TextIssues ==
  [NEAR_EMPTY_OUTPUT |-> Flag(Sparse), LOW_TEXT_DENSITY |-> Flag(Thin),
   GLYPH_ARTIFACTS |-> Flag(Garbled), REPEATED_CONTENT |-> Flag(doc.repeated >= 3),
   TOKEN_BLOAT |-> Flag(Bloated)]
OcrIssues ==
  [OCR_REQUIRED |-> Flag(OcrMissing), OCR_HALLUCINATION |-> Flag(Pdf /\ doc.hallucinated),
   W_IMAGE_ONLY_TEXT_BAR_FAIL |-> Flag(ImageOnly)]

Found == [c \in Codes |-> Of(HeadingIssues, c) + Of(PageIssues, c)
                         + Of(TextIssues, c) + Of(OcrIssues, c)]
Structure ==
  Validate("structure", "table_expectation",
           IF doc.empty THEN [EMPTY_DOCUMENT |-> 1] ELSE Found)

----------------------------------------------------------------------------
(* TableExpectationValidator, page by page over the pages with blocks.  What *)
(* the parser rejected and lines of numbers react to the same charts: the    *)
(* two alone count for one unless a rejected candidate is substantial.       *)
Families(p) ==
  {f \in {"parser", "text", "content", "archetype"} :
     CASE f = "parser" -> p.rejected # {}
       [] f = "text" -> p.caption \/ p.numeric >= 3
       [] f = "content" -> (\E c \in p.rejected : c.dots) \/ p.dotted >= 3
       [] f = "archetype" -> doc.class = "table_heavy" /\ p.tables = <<>>}
ChartNoise(p) == /\ Families(p) = {"parser", "text"} /\ p.numeric >= 3 /\ ~p.caption
                 /\ ~\E c \in p.rejected : c.rows >= 10 /\ c.cols >= 3
Expected(p) == Cardinality(Families(p)) >= 2 /\ ~ChartNoise(p)
Undelivered == {p \in Pages : /\ doc.content[p].blocks /\ doc.content[p].tables = <<>>
                              /\ Expected(doc.content[p])}

TableExpectation ==
  Validate("table_expectation", "multicolumn",
           [W_TABLE_EXPECTED_NOT_EXTRACTED |-> Cardinality(Undelivered)])

(* MultiColumnOrderValidator: blocks that go to and fro over a column gap.   *)
Interleaved(c) ==
  LET rate(percent) == 100 * c.crossings >= percent * AtLeast(c.blocks - 1, 1) IN
  /\ c.blocks >= 5 /\ c.gap
  /\ \/ rate(28)
     \/ c.drops = 0 /\ rate(25) /\ 100 * c.short >= 55 * c.blocks

MultiColumn ==
  Validate("multicolumn", "header_footer",
           [W_MULTICOLUMN_ORDER |-> Flag(\E p \in Pages :
                                           Interleaved(doc.content[p].columns))])

(* HeaderFooterTableValidator: a table in the top or bottom margin of its    *)
(* page of which nearly half the cells are fragments.                        *)
Furniture(t) == t.margin /\ t.cells > 0 /\ 100 * t.short >= 45 * t.cells
HeaderFooter ==
  Validate("header_footer", "table_missing",
           [W_HEADER_FOOTER_TABLE_GARBLED |-> Flag(\E x \in Tables :
                                                     Furniture(doc.content[x[1]].tables[x[2]]))])

(* TableMissingValidator and EncodingArtifactsValidator stay silent when     *)
(* OCR_REQUIRED is in the report already, and on short documents.            *)
Judged == /\ doc.type \in {"pdf", "docx", "doc", "html"}
          /\ issues["OCR_REQUIRED"] = 0 /\ doc.lines >= 20
TableMissing ==
  Validate("table_missing", "encoding",
           [W_TABLE_MISSING |-> Flag(Judged /\ (doc.dottedLines >= 3 \/ doc.dotRuns >= 5))])
Encoding ==
  Validate("encoding", "score",
           [W_ENCODING_ARTIFACTS |-> Flag(Judged /\ \/ doc.fragments >= 3
                                                    \/ doc.chars > 0 /\ 200 * doc.mojibake >= doc.chars)])

----------------------------------------------------------------------------
(* compute_confidence: the rules in their order.  A rule that fires deducts, *)
(* or records that it is suppressed; a cap deducts what is above it.         *)
Rules == <<"PARSE_ERRORS", "MISSING_PAGE", "LARGE_BLOCK", "HEADING_ISSUES",
           "IMAGE_PLACEHOLDER_NO_FALLBACK", "OCR_REQUIRED", "OCR_ATTEMPTED_SPARSE",
           "NEAR_EMPTY_OUTPUT", "LOW_TEXT_DENSITY", "GLYPH_ARTIFACTS", "REPEATED_CONTENT",
           "TOKEN_BLOAT", "NO_HEADINGS_MULTIPAGE", "COL_GENERIC_TABLES", "NO_TEXT_IN_IMAGE",
           "W_MULTICOLUMN_ORDER", "W_HEADER_FOOTER_TABLE_GARBLED", "W_TABLE_MISSING",
           "W_ENCODING_ARTIFACTS", "W_IMAGE_ONLY_TEXT_BAR_FAIL",
           "W_TABLE_EXPECTED_NOT_EXTRACTED">>
CapAt == [W_MULTICOLUMN_ORDER |-> 69, W_HEADER_FOOTER_TABLE_GARBLED |-> 84,
          W_TABLE_MISSING |-> 69, W_ENCODING_ARTIFACTS |-> 69,
          W_IMAGE_ONLY_TEXT_BAR_FAIL |-> 69, W_TABLE_EXPECTED_NOT_EXTRACTED |-> 84]
Caps == DOMAIN CapAt

Base(type) == CASE type = "md" -> 95 [] type = "txt" -> 93 [] type = "pdf" -> 87
                [] type = "html" -> 87 [] type = "docx" -> 83 [] type = "png" -> 70
                [] type = "rtf" -> 63 [] OTHER -> 72

ParseErrors(w) == AtMost(30, 12 * w["PARSE_ERROR"])
Missing(d, w) == AtMost(30, 4 * w["MISSING_PAGE"])
                 + (IF 200 * w["MISSING_PAGE"] >= 99 * d.pages THEN 8 ELSE 0)
LargeBlocks(w) == AtMost(10, 4 * w["LARGE_BLOCK"])
HeadingCount(w) == w["HEADING_SKIP"] + w["HEADING_HIERARCHY"]
Headings(w) == AtMost(8, 2 * HeadingCount(w))
Unread(d) == AtMost(40, (40 * d.imagePages) \div AtLeast(d.pages, 1) + 10)
GenericTables(d) ==
  Cardinality({x \in (DOMAIN d.content) \X (1..3) :
                 x[2] \in DOMAIN d.content[x[1]].tables /\ d.content[x[1]].tables[x[2]].generic})
Above(s, limit) == AtLeast(0, s - limit)

(* Text that was never read is deducted once: by OCR_REQUIRED, or, where OCR *)
(* ran and brought little, by OCR_ATTEMPTED_SPARSE.                          *)
SparseOcr(d, w) == /\ w["OCR_REQUIRED"] = 0 /\ d.type = "pdf"
                   /\ w["NEAR_EMPTY_OUTPUT"] > 0 /\ d.ocr
(* A cap taken for a deduction.                                              *)
DeductedOrCapped(d, w) ==
  w["OCR_REQUIRED"] > 0 \/ SparseOcr(d, w) \/ w["W_IMAGE_ONLY_TEXT_BAR_FAIL"] > 0
Deducted(d, w) == w["OCR_REQUIRED"] > 0 \/ SparseOcr(d, w)

Fires(r, d, w) ==
  CASE r = "PARSE_ERRORS" -> w["PARSE_ERROR"] > 0
    [] r = "MISSING_PAGE" -> w[r] > 0 /\ d.pages > 0
    [] r = "HEADING_ISSUES" -> HeadingCount(w) > 0
    [] r = "IMAGE_PLACEHOLDER_NO_FALLBACK" -> d.placeholdersOnly /\ ~d.assets /\ w["OCR_REQUIRED"] = 0
    [] r = "OCR_ATTEMPTED_SPARSE" -> SparseOcr(d, w)
    [] r = "NO_HEADINGS_MULTIPAGE" -> d.levels = <<>> /\ d.pages > 3
    [] r = "COL_GENERIC_TABLES" -> GenericTables(d) > 0
    [] r = "NO_TEXT_IN_IMAGE" -> d.type = "png" /\ ~d.paragraphs
    [] OTHER -> w[r] > 0

(* Every cap compared with the softer one.                                   *)
SuppressedBelowOk(r, d, w, s) ==
  CASE r \in {"NEAR_EMPTY_OUTPUT", "LOW_TEXT_DENSITY"} -> Deducted(d, w)
    [] r \in Caps -> s <= 84
    [] OTHER -> FALSE
Suppressed(r, d, w, s) ==
  CASE r \in {"NEAR_EMPTY_OUTPUT", "LOW_TEXT_DENSITY"} -> Deducted(d, w)
    [] r \in Caps -> s <= CapAt[r]
    [] OTHER -> FALSE

Penalty(r, d, w, s) ==
  CASE r = "PARSE_ERRORS" -> ParseErrors(w)
    [] r = "MISSING_PAGE" -> Missing(d, w)
    [] r = "LARGE_BLOCK" -> LargeBlocks(w)
    [] r = "HEADING_ISSUES" -> Headings(w)
    [] r = "IMAGE_PLACEHOLDER_NO_FALLBACK" -> Above(s, 55)
    [] r \in {"OCR_REQUIRED", "OCR_ATTEMPTED_SPARSE"} -> Unread(d)
    [] r \in {"NEAR_EMPTY_OUTPUT", "GLYPH_ARTIFACTS"} -> 25
    [] r = "LOW_TEXT_DENSITY" -> 20
    [] r \in {"REPEATED_CONTENT", "TOKEN_BLOAT"} -> 8
    [] r = "NO_HEADINGS_MULTIPAGE" -> 6
    [] r = "COL_GENERIC_TABLES" -> AtMost(5, 2 * GenericTables(d))
    [] r = "NO_TEXT_IN_IMAGE" -> 10
    [] r \in Caps -> Above(s, CapAt[r])

Deduct(s, r, d, w) ==
  IF Fires(r, d, w) /\ ~Suppressed(r, d, w, s) THEN s - Penalty(r, d, w, s) ELSE s
Clamp(s) == AtLeast(0, AtMost(100, s))

StartScore ==
  /\ pc = "score" /\ next = 0
  /\ next' = 1
  /\ \/ doc.tokens = 0 /\ score' = 10 /\ pc' = "scored"
     \/ doc.tokens # 0 /\ score' = Base(doc.type) /\ UNCHANGED pc
  /\ UNCHANGED <<doc, issues, deductions>>

(* The penalty read off after the score is changed.                          *)
ApplyRuleFirst ==
  /\ pc = "score" /\ next \in DOMAIN Rules
  /\ next' = next + 1
  /\ score' = Deduct(score, Rules[next], doc, issues)
  /\ deductions' = IF Fires(Rules[next], doc, issues)
                   THEN Append(deductions,
                               [rule |-> Rules[next],
                                penalty |-> Penalty(Rules[next], doc, issues, score'),
                                suppressed |-> Suppressed(Rules[next], doc, issues, score)])
                   ELSE deductions
  /\ UNCHANGED <<doc, pc, issues>>
ApplyRule ==
  /\ pc = "score" /\ next \in DOMAIN Rules
  /\ next' = next + 1
  /\ score' = Deduct(score, Rules[next], doc, issues)
  /\ deductions' = IF Fires(Rules[next], doc, issues)
                   THEN Append(deductions,
                               [rule |-> Rules[next],
                                penalty |-> Penalty(Rules[next], doc, issues, score),
                                suppressed |-> Suppressed(Rules[next], doc, issues, score)])
                   ELSE deductions
  /\ UNCHANGED <<doc, pc, issues>>

Finish ==
  /\ pc = "score" /\ next = Len(Rules) + 1
  /\ pc' = "scored" /\ score' = Clamp(score)
  /\ UNCHANGED <<doc, issues, next, deductions>>

Scored == pc = "scored" /\ UNCHANGED vars

Init ==
  /\ doc \in Documents
  /\ pc = "structure" /\ next = 0 /\ score = 0 /\ deductions = <<>>
  /\ issues = [c \in Codes |-> IF c = "PARSE_ERROR" THEN doc.errors ELSE 0]

Next == \/ Structure \/ TableExpectation \/ MultiColumn \/ HeaderFooter \/ TableMissing
        \/ Encoding \/ StartScore \/ ApplyRule \/ Finish \/ Scored
Spec == Init /\ [][Next]_vars

----------------------------------------------------------------------------
(* The score of the document d with the warnings w, in one go: the score     *)
(* after each number of rules, and what becomes of the last.                 *)
ScoreAfter(d, w) ==
  LET after[n \in 0 .. Len(Rules)] ==
        IF n = 0 THEN Base(d.type) ELSE Deduct(after[n - 1], Rules[n], d, w)
  IN  after
Readiness(d, w) == Clamp(ScoreAfter(d, w)[Len(Rules)])

(* What the deductions ds, none of the suppressed ones, leave of base.       *)
Remains(base, ds) ==
  LET left[n \in 0 .. Len(ds)] ==
        IF n = 0 THEN base
        ELSE left[n - 1] - (IF ds[n].suppressed THEN 0 ELSE ds[n].penalty)
  IN  left

(* The deductions a user is shown account for the whole of the difference    *)
(* between the base of the format and the score.                             *)
ScoreExplained ==
  pc = "scored" /\ doc.tokens # 0 =>
    score = Clamp(Remains(Base(doc.type), deductions)[Len(deductions)])

(* A cap holds whatever other rules and caps do: no document with a warning  *)
(* of a cap is graded above it (docs/readiness-score.md, "Caps vs            *)
(* penalties").                                                              *)
CapsHold ==
  pc = "scored" /\ doc.tokens # 0 =>
    \A c \in Caps : issues[c] > 0 => score <= CapAt[c]

(* One issue less in the report never makes for a lower score.  Not said of   *)
(* OCR_REQUIRED and NEAR_EMPTY_OUTPUT, which suppress others: with one of    *)
(* them less, what it suppressed is deducted (README, 12).                   *)
NoWarningHelps ==
  pc = "scored" /\ doc.tokens # 0 =>
    \A c \in Codes \ {"OCR_REQUIRED", "NEAR_EMPTY_OUTPUT"} :
      issues[c] > 0 => Readiness(doc, [issues EXCEPT ![c] = @ - 1]) >= score

=============================================================================
