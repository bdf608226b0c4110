----------------------------- MODULE OcrDispatch -----------------------------
(***************************************************************************)
(* One PDF through PDFParser.execute (plugins/parsers/pdf.py) as far as OCR  *)
(* goes: the engine is chosen, the pages are processed (by threads when      *)
(* there are many), their blocks are put together, the scanned pages go to   *)
(* the Unlimited-OCR backend as one batch, an unsafe answer is refused or    *)
(* replaced by Tesseract, Marker rebuilds image pages, and the structure     *)
(* validator and the manifest (compiler.py) say what happened.  Text is      *)
(* reduced to where it came from; cleaners, optimizers and table stitching,  *)
(* which move no OCR text between pages, are left out.                       *)
(***************************************************************************)
EXTENDS Integers, Sequences, FiniteSets

CONSTANTS MaxPages,       \* longest document
          ParallelAbove,  \* documents with more pages use the thread pool
          MinUocPages,    \* _MIN_UOC_PAGES
          UocPercent,     \* _UOC_FRACTION_THRESHOLD
          HybridPercent   \* image pages that make a document "hybrid"

ASSUME DispatchAssumption ==
  /\ MaxPages \in Nat \ {0} /\ ParallelAbove \in Nat
  /\ MinUocPages \in Nat \ {0}
  /\ UocPercent \in Nat \ {0} /\ HybridPercent \in Nat \ {0}

\* What extraction found on a page: enough text; enough text and images whose
\* text is read too; no text; a few characters; no text and no raster either.
PageKind == {"text", "mixed", "scan", "sparse", "bare"}
Engine   == {"tesseract", "unlimited_ocr"}
Origin   == {"digital", "image", "unavailable", "tesseract", "unlimited_ocr", "marker",
             "tuple"}
Block    == [page : 1 .. MaxPages, origin : Origin]

VARIABLES kind,      \* page -> what extraction found: raw_pages
          requested, \* ctx.ocr_backend
          runnable,  \* availability().runnable_now of the UOC backend
          ocr,       \* _ocr_available(): Tesseract is installed
          marker,    \* _marker_available()
          phase,     \* where execute stands, and how it ended
          selected,  \* _ocr_backend_selected
          finished,  \* pages whose future has completed
          results,   \* page -> its blocks
          next,      \* the page Phase 4 or Phase 5 takes next
          blocks,    \* all_blocks
          replaced,  \* pages_replaced
          audit,     \* ctx.ocr_output_safety_audit is set
          answer,    \* what the UOC backend answered
          warned,    \* codes given to ctx.warn
          manifest   \* the engine the manifest names

docVars == <<kind, requested, runnable, ocr, marker>>
pageVars == <<finished, results>>
vars == <<docVars, phase, selected, pageVars, next, blocks, replaced, audit, answer, warned,
          manifest>>

Ended == {"done", "rejected", "crashed", "refused"}
Code  == {"AUTO_SELECTED", "AUTO_FALLBACK", "FALLBACK_REPETITION", "BACKEND_FAILED",
          "PAGE_FAILED", "OCR_REQUIRED"}
Answer == {"none", "raised", "failed", "empty", "safe", "unsafe"}

Pages    == DOMAIN kind
LowText  == {p \in Pages : kind[p] \in {"scan", "sparse", "bare"}}
OcrPages == {p \in Pages : kind[p] \in {"scan", "sparse"}}   \* ocr_pixmap is not None

TypeOK ==
  /\ kind \in UNION {[1 .. n -> PageKind] : n \in 1 .. MaxPages}
  /\ requested \in Engine \cup {"auto"}
  /\ {runnable, ocr, marker, audit} \subseteq BOOLEAN
  /\ phase \in {"open", "decide", "pages", "assemble", "uoc", "fallback", "index", "vision",
                "validate"} \cup Ended
  /\ selected \in Engine \cup {"none"}
  /\ finished \subseteq Pages
  /\ results \in [Pages -> Seq(Block)]
  /\ next \in 1 .. MaxPages + 1
  /\ blocks \in Seq(Block)
  /\ replaced \subseteq LowText
  /\ answer \in Answer
  /\ warned \subseteq Code
  /\ manifest \in Engine \cup {"none"}

Init ==
  /\ kind \in UNION {[1 .. n -> PageKind] : n \in 1 .. MaxPages}
  /\ requested \in Engine \cup {"auto"}
  /\ runnable \in BOOLEAN /\ ocr \in BOOLEAN /\ marker \in BOOLEAN
  /\ phase = "open" /\ selected = "none"
  /\ finished = {} /\ results = [p \in Pages |-> <<>>]
  /\ next = 1 /\ blocks = <<>> /\ replaced = {}
  /\ audit = FALSE /\ answer = "none" /\ warned = {} /\ manifest = "none"

-----------------------------------------------------------------------------

Open ==
  /\ phase = "open"
  /\ phase' \in {"decide", "refused"}   \* unreadable, encrypted, too many pages
  /\ UNCHANGED <<docVars, selected, pageVars, next, blocks, replaced, audit, answer, warned,
                 manifest>>

UocPreferred ==
  /\ Cardinality(OcrPages) >= MinUocPages
  /\ 100 * Cardinality(OcrPages) >= UocPercent * Len(kind)

\* An explicit request is taken as it is; "auto" asks the policy and the probe.
Decide ==
  /\ phase = "decide"
  /\ selected' = IF requested # "auto" THEN requested
                 ELSE IF UocPreferred /\ runnable THEN "unlimited_ocr" ELSE "tesseract"
  /\ warned' = warned \cup (IF requested = "auto" THEN {"AUTO_SELECTED"} ELSE {})
                      \cup (IF requested = "auto" /\ UocPreferred /\ ~runnable
                              THEN {"AUTO_FALLBACK"} ELSE {})
  /\ phase' = "pages"
  /\ UNCHANGED <<docVars, pageVars, next, blocks, replaced, audit, answer, manifest>>

On(p, origin) == <<[page |-> p, origin |-> origin]>>

DigitalOf(p) == IF kind[p] \in {"text", "mixed", "sparse"} THEN On(p, "digital") ELSE <<>>
ImageOf(p)   == IF kind[p] \in {"mixed", "scan", "sparse"} THEN On(p, "image") ELSE <<>>
Inline(p)    == kind[p] \in {"mixed", "scan", "sparse"}

\* Mutant of InlineOcr: skip_page_ocr is forgotten.
InlineOcrAlways(p) ==
  IF ~Inline(p) THEN {<<>>}
  ELSE IF ~ocr THEN {On(p, "unavailable")}
  ELSE {<<>>, On(p, "tesseract")}

\* What the inline Tesseract pass may add to the page: its failures are logged.
InlineOcr(p) ==
  IF ~Inline(p) \/ selected = "unlimited_ocr" THEN {<<>>}
  ELSE IF ~ocr THEN {On(p, "unavailable")}
  ELSE {<<>>, On(p, "tesseract")}

\* A short document is processed in a loop, a long one by the thread pool, whose
\* results come as they complete.
MyTurn(p) == Len(kind) > ParallelAbove \/ 1 .. p - 1 \subseteq finished

ProcessPage(p) ==
  /\ phase = "pages" /\ p \notin finished /\ MyTurn(p)
  /\ \E text \in InlineOcr(p) :
       results' = [results EXCEPT ![p] = DigitalOf(p) \o text \o ImageOf(p)]
  /\ finished' = finished \cup {p}
  /\ phase' = IF finished' = Pages THEN "assemble" ELSE phase
  /\ UNCHANGED <<docVars, selected, next, blocks, replaced, audit, answer, warned, manifest>>

\* Phase 4 goes through sorted(results), whatever order they came in.
Assemble ==
  /\ phase = "assemble"
  /\ blocks' = blocks \o results[next]
  /\ IF next < Len(kind)
       THEN next' = next + 1 /\ UNCHANGED phase
       ELSE /\ next' = 1
            /\ phase' = IF selected = "unlimited_ocr" /\ OcrPages # {} THEN "uoc" ELSE "vision"
  /\ UNCHANGED <<docVars, selected, pageVars, replaced, audit, answer, warned, manifest>>

-----------------------------------------------------------------------------
(* Phase 4b: _apply_alternate_ocr_backend.                                   *)

Warn(codes) == warned' = warned \cup codes

\* No text came back: the pages' own blocks stay and the reader is told, except
\* that an empty answer passes as a success.
UocYieldsNothing ==
  /\ phase = "uoc"
  /\ \/ answer' = "raised" /\ Warn({"BACKEND_FAILED"})
     \/ answer' = "failed" /\ Warn({"PAGE_FAILED"})
     \/ answer' = "empty" /\ UNCHANGED warned
  /\ phase' = "index"
  /\ UNCHANGED <<docVars, selected, pageVars, next, blocks, replaced, audit, manifest>>

\* ocr_source_pages[0].
FirstOcrPage == CHOOSE p \in OcrPages : \A q \in OcrPages : p <= q

\* Mutant of InsertAt: the text goes to the end of the document.
InsertAtEnd(p) == Len(blocks)

\* How many blocks come before the first one of the page: all if it has none.
InsertAt(p) ==
  LET At == {i \in DOMAIN blocks : blocks[i].page = p}
  IN  IF At = {} THEN Len(blocks) ELSE (CHOOSE i \in At : \A j \in At : i <= j) - 1

\* The anchor's Markdown covers every scanned page and goes in once.
Insert ==
  LET cut == InsertAt(FirstOcrPage)
  IN  blocks' = SubSeq(blocks, 1, cut) \o On(FirstOcrPage, "unlimited_ocr")
                \o SubSeq(blocks, cut + 1, Len(blocks))

UocDelivers ==
  /\ phase = "uoc"
  /\ answer' = "safe" /\ Insert /\ phase' = "index"
  /\ UNCHANGED <<docVars, selected, pageVars, next, replaced, audit, warned, manifest>>

\* raise_if_unsafe_uoc_result: the exception leaves the compile.
UocRejected ==
  /\ phase = "uoc" /\ requested = "unlimited_ocr"
  /\ answer' = "unsafe" /\ phase' = "rejected"
  /\ UNCHANGED <<docVars, selected, pageVars, next, blocks, replaced, audit, warned, manifest>>

\* Mutant of UocDiscarded: the unsafe text is inserted before Tesseract is asked.
UocKept ==
  /\ phase = "uoc" /\ requested = "auto"
  /\ answer' = "unsafe" /\ Insert
  /\ Warn({"FALLBACK_REPETITION"}) /\ audit' = TRUE /\ phase' = "fallback"
  /\ UNCHANGED <<docVars, selected, pageVars, next, replaced, manifest>>

\* Mutant of UocDiscarded: an explicit request falls back as well.
UocDiscardedAlways ==
  /\ phase = "uoc"
  /\ answer' = "unsafe"
  /\ Warn({"FALLBACK_REPETITION"}) /\ audit' = TRUE /\ phase' = "fallback"
  /\ UNCHANGED <<docVars, selected, pageVars, next, blocks, replaced, manifest>>

UocDiscarded ==
  /\ phase = "uoc" /\ requested = "auto"
  /\ answer' = "unsafe"
  /\ Warn({"FALLBACK_REPETITION"}) /\ audit' = TRUE /\ phase' = "fallback"
  /\ UNCHANGED <<docVars, selected, pageVars, next, blocks, replaced, manifest>>

FallbackRaises ==
  /\ phase = "fallback"
  /\ Warn({"BACKEND_FAILED"}) /\ phase' = "index"
  /\ UNCHANGED <<docVars, selected, pageVars, next, blocks, replaced, audit, answer, manifest>>

\* TesseractBackend.process: pages with text come back as tuples of
\* _try_ocr_structured, not as Blocks, and are appended as they are.  One page,
\* every page or none has text; the rest may fail to render.
FallbackRuns ==
  /\ phase = "fallback"
  /\ \E texts \in {{}} \cup (IF ocr THEN {{FirstOcrPage}, OcrPages} ELSE {}) :
       \E failed \in {{}, OcrPages \ texts} :
         /\ blocks' = blocks \o (IF texts = {} THEN <<>> ELSE On(FirstOcrPage, "tuple"))
         /\ Warn(IF failed = {} THEN {} ELSE {"PAGE_FAILED"})
  /\ phase' = "index"
  /\ UNCHANGED <<docVars, selected, pageVars, next, replaced, audit, answer, manifest>>

\* Every block is copied with its new index; a tuple has no model_copy.
Reindex ==
  /\ phase = "index"
  /\ phase' = IF \E i \in DOMAIN blocks : blocks[i].origin = "tuple" THEN "crashed" ELSE "vision"
  /\ UNCHANGED <<docVars, selected, pageVars, next, blocks, replaced, audit, answer, warned,
                 manifest>>

-----------------------------------------------------------------------------
(* Phase 5, the structure validator and the manifest.                        *)

VisionOn == marker /\ selected # "unlimited_ocr"

Upto(p) == Cardinality({i \in DOMAIN blocks : blocks[i].page <= p})

\* Mutant of Rebuilt: a page Marker found nothing on loses its blocks as well.
RebuiltOrDropped(p) ==
  \/ replaced' = replaced \cup {p}
     /\ blocks' = SubSeq(blocks, 1, Upto(p - 1)) \o On(p, "marker")
                  \o SubSeq(blocks, Upto(p) + 1, Len(blocks))
  \/ UNCHANGED replaced
     /\ blocks' = SubSeq(blocks, 1, Upto(p - 1)) \o SubSeq(blocks, Upto(p) + 1, Len(blocks))

\* Marker's blocks take the place of the page's, when it has any.
Rebuilt(p) ==
  \/ replaced' = replaced \cup {p}
     /\ blocks' = SubSeq(blocks, 1, Upto(p - 1)) \o On(p, "marker")
                  \o SubSeq(blocks, Upto(p) + 1, Len(blocks))
  \/ UNCHANGED <<replaced, blocks>>

Vision ==
  /\ phase = "vision" /\ VisionOn /\ next <= Len(kind)
  /\ IF next \in LowText THEN Rebuilt(next) ELSE UNCHANGED <<replaced, blocks>>
  /\ next' = next + 1
  /\ UNCHANGED <<docVars, phase, selected, pageVars, audit, answer, warned, manifest>>

VisionEnds ==
  /\ phase = "vision" /\ (~VisionOn \/ next > Len(kind))
  /\ phase' = "validate"
  /\ UNCHANGED <<docVars, selected, pageVars, next, blocks, replaced, audit, answer, warned,
                 manifest>>

OcrRequired ==
  /\ 100 * Cardinality(LowText) >= HybridPercent * Len(kind) /\ LowText # {}
  /\ ~ocr /\ replaced = {}                                \* pdf_ocr_available

\* ocr_backend_selected of the manifest: the final engine after a fallback.
Report ==
  /\ phase = "validate"
  /\ Warn(IF OcrRequired THEN {"OCR_REQUIRED"} ELSE {})
  /\ manifest' = IF audit THEN "tesseract" ELSE selected
  /\ phase' = "done"
  /\ UNCHANGED <<docVars, selected, pageVars, next, blocks, replaced, audit, answer>>

Next ==
  \/ Open \/ Decide \/ (\E p \in Pages : ProcessPage(p)) \/ Assemble
  \/ UocYieldsNothing \/ UocDelivers \/ UocRejected \/ UocDiscarded
  \/ FallbackRaises \/ FallbackRuns \/ Reindex
  \/ Vision \/ VisionEnds \/ Report

Spec == Init /\ [][Next]_vars

-----------------------------------------------------------------------------
(* Properties.                                                               *)

Origins == {blocks[i].origin : i \in DOMAIN blocks}

\* Text the output safety policy refused is nowhere in the document, and an
\* unsafe answer never ends as an ordinary explicit result (output_safety.py,
\* _apply_alternate_ocr_backend).
UnsafeDiscarded ==
  answer = "unsafe" =>
    /\ "unlimited_ocr" \notin Origins
    /\ requested = "unlimited_ocr" => phase = "rejected"

\* One engine per document, and the manifest names it: text of Unlimited-OCR
\* stands beside neither Tesseract's nor Marker's, and a document that has it
\* does not say it was made by Tesseract, nor the other way round.
ManifestNamesEngine ==
  phase = "done" =>
    /\ "unlimited_ocr" \in Origins => manifest = "unlimited_ocr" /\ "marker" \notin Origins
    /\ "tesseract" \in Origins => manifest = "tesseract"
    /\ audit <=> answer = "unsafe"

\* Whatever order the threads finish in and whatever is inserted or rebuilt, the
\* blocks of a finished document are in page order.
InPageOrder ==
  phase = "done" => \A i, j \in DOMAIN blocks : i <= j => blocks[i].page <= blocks[j].page

\* No later phase takes a page's content away: a page that had blocks when its
\* processing ended has some in the finished document, and its digital text is
\* there unless Marker rebuilt the page.
NoPageLost ==
  phase = "done" =>
    \A p \in Pages : results[p] # <<>> =>
      \E i \in DOMAIN blocks :
        /\ blocks[i].page = p
        /\ kind[p] \in {"text", "mixed", "sparse"} /\ p \notin replaced
             => blocks[i].origin = "digital"

\* The engine in effect.
Effective == IF audit THEN "tesseract" ELSE selected

\* The engine changes only under "auto", only from Unlimited-OCR to Tesseract, and
\* the reader is told; an explicit choice never falls back (context.py).
NoSilentDowngrade ==
  [][Effective' # Effective /\ Effective # "none" =>
       /\ requested = "auto" /\ Effective' = "tesseract"
       /\ "FALLBACK_REPETITION" \in warned']_vars

\* "Re-running the document via Tesseract" (pdf.py): after an unsafe answer under
\* "auto" the compile goes on with what Tesseract found.
FallbackCompletes == phase # "crashed"

\* OCR_REQUIRED, "Penalty when scanned/hybrid PDF has no OCR available"
\* (scoring/models.py), is not raised on a document whose scanned pages were read.
OcrRequiredMeansNone ==
  phase = "done" /\ "OCR_REQUIRED" \in warned =>
    Origins \cap {"tesseract", "unlimited_ocr", "marker"} = {}
=============================================================================
