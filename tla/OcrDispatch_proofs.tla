-------------------------- MODULE OcrDispatch_proofs --------------------------
(***************************************************************************)
(* Proofs about OcrDispatch, for documents of every length, every threshold  *)
(* and every order of the threads.                                          *)
(***************************************************************************)
EXTENDS OcrDispatch, FiniteSetTheorems, SequenceTheorems, WellFoundedInduction, TLAPS

USE DispatchAssumption DEF DispatchAssumption

-----------------------------------------------------------------------------
(* Sequences of blocks *)

\* Every block of s has a page of ps and an origin of os.
Only(s, ps, os) == s \in Seq([page : ps, origin : os])

LEMMA LeastNatural ==
  ASSUME NEW S \in SUBSET Nat, S # {}
  PROVE  \E n \in S : \A m \in S : n <= m
<1>1. PICK n \in S : \A m \in S : ~ (<<m, n>> \in OpToRel(<, Nat))
      BY NatLessThanWellFounded, WFMin, Zenon
<1>2. OpToRel(<, Nat) = {d \in Nat \X Nat : d[1] < d[2]}
      BY DEF OpToRel
<1>3. ASSUME NEW m \in S PROVE n <= m
  <2>1. <<m, n>> \notin {d \in Nat \X Nat : d[1] < d[2]}
        BY <1>1, <1>2
  <2> QED
    BY <2>1
<1> QED
  BY <1>3

LEMMA OnlyWider ==
  ASSUME NEW ps, NEW os, NEW qs, NEW us, ps \subseteq qs, os \subseteq us, NEW s,
         Only(s, ps, os)
  PROVE  Only(s, qs, us)
<1>1. [page : ps, origin : os] \subseteq [page : qs, origin : us]
      OBVIOUS
<1> QED
  BY <1>1, SeqMonotonic DEF Only

LEMMA OnlyConcat ==
  ASSUME NEW ps, NEW os, NEW s, NEW t, Only(s, ps, os), Only(t, ps, os)
  PROVE  Only(s \o t, ps, os)
BY ConcatProperties DEF Only

LEMMA OnlyOne ==
  ASSUME NEW ps, NEW os, NEW p \in ps, NEW o \in os
  PROVE  Only(On(p, o), ps, os)
BY DEF Only, On

LEMMA OnlyPart ==
  ASSUME NEW ps, NEW os, NEW s, Only(s, ps, os), NEW m \in 1 .. Len(s) + 1, NEW n \in 0 .. Len(s)
  PROVE  Only(SubSeq(s, m, n), ps, os)
<1> DEFINE B == [page : ps, origin : os]
<1>1. s \in Seq(B) /\ Len(s) \in Nat
      BY LenProperties DEF Only
<1>2. \A i \in m .. n : s[i] \in B
  <2> HIDE DEF B
  <2> QED
    BY <1>1, ElementOfSeq
<1>3. SubSeq(s, m, n) \in Seq(B)
  <2> HIDE DEF B
  <2>1. m \in Int /\ n \in Int
        BY <1>1
  <2> QED
    BY <1>2, <2>1, SubSeqProperties
<1> QED
  BY <1>3 DEF Only

LEMMA OnlyElement ==
  ASSUME NEW ps, NEW os, NEW s, Only(s, ps, os), NEW i \in DOMAIN s
  PROVE  s[i].page \in ps /\ s[i].origin \in os
<1> DEFINE B == [page : ps, origin : os]
<1>1. s \in Seq(B) /\ i \in 1 .. Len(s)
      BY LenProperties DEF Only
<1>2. s[i] \in B
  <2> HIDE DEF B
  <2> QED
    BY <1>1, ElementOfSeq
<1> QED
  BY <1>2

LEMMA OnlyNone ==
  ASSUME NEW ps, NEW os
  PROVE  Only(<<>>, ps, os)
BY DEF Only

-----------------------------------------------------------------------------
(* The inductive invariant *)

\* Where the extraction and Phase 4b may have put blocks of which origin.
Extracted == {"digital", "image"}
             \cup (IF selected = "unlimited_ocr" THEN {} ELSE {"unavailable", "tesseract"})
Merged == Extracted \cup
          (IF selected # "unlimited_ocr" THEN {"marker"}
           ELSE IF answer = "safe" THEN {"unlimited_ocr"}
           ELSE IF answer = "unsafe" THEN {"tuple"} ELSE {})

OriginInv ==
  /\ selected = "none" => blocks = <<>> /\ \A p \in Pages : results[p] = <<>>
  /\ \A p \in Pages : Only(results[p], {p}, Extracted)
  /\ Only(blocks, Pages, Merged)

\* What the phase says about the engine, the answer and the audit.
PhaseInv ==
  /\ phase \in {"open", "decide", "refused"} <=> selected = "none"
  /\ requested # "auto" /\ selected # "none" => selected = requested
  /\ phase \in {"open", "decide", "pages", "assemble", "uoc"} => answer = "none"
  /\ phase \in {"uoc", "fallback"} => selected = "unlimited_ocr" /\ OcrPages # {}
  /\ answer # "none" => selected = "unlimited_ocr"
  /\ audit <=> answer = "unsafe" /\ requested = "auto"
  /\ answer = "unsafe" /\ requested # "auto" => phase = "rejected"
  /\ phase = "fallback" => audit
  /\ phase = "done" => manifest = Effective
  /\ phase \in {"open", "decide", "pages", "assemble"} => next \in Pages

IInv == TypeOK /\ OriginInv /\ PhaseInv

LEMMA DocFacts ==
  ASSUME TypeOK
  PROVE  /\ Len(kind) \in 1 .. MaxPages
         /\ Pages = 1 .. Len(kind) /\ Pages \subseteq 1 .. MaxPages
         /\ OcrPages \subseteq LowText /\ LowText \subseteq Pages
<1>1. PICK n \in 1 .. MaxPages : kind \in [1 .. n -> PageKind]
      BY DEF TypeOK
<1>2. kind \in Seq(PageKind) /\ Len(kind) = n
      BY <1>1
<1> QED
  BY <1>1, <1>2 DEF Pages, OcrPages, LowText

LEMMA FirstIsOcrPage ==
  ASSUME TypeOK, OcrPages # {}
  PROVE  FirstOcrPage \in OcrPages /\ \A q \in OcrPages : FirstOcrPage <= q
<1>1. OcrPages \in SUBSET Nat
      BY DocFacts
<1>2. \E p \in OcrPages : \A q \in OcrPages : p <= q
      BY <1>1, LeastNatural
<1> QED
  BY <1>2 DEF FirstOcrPage

LEMMA InsertAtType ==
  ASSUME TypeOK, NEW p
  PROVE  InsertAt(p) \in 0 .. Len(blocks)
<1> DEFINE At == {i \in DOMAIN blocks : blocks[i].page = p}
<1>1. Len(blocks) \in Nat /\ DOMAIN blocks = 1 .. Len(blocks)
      BY LenProperties DEF TypeOK
<1>2. CASE At = {}
      BY <1>1, <1>2 DEF InsertAt
<1>3. CASE At # {}
  <2>1. At \in SUBSET Nat
        BY <1>1
  <2>2. \E i \in At : \A j \in At : i <= j
        BY <1>3, <2>1, LeastNatural
  <2> DEFINE m == CHOOSE i \in At : \A j \in At : i <= j
  <2>3. m \in At
        BY <2>2
  <2>4. InsertAt(p) = m - 1
        BY <1>3 DEF InsertAt
  <2> QED
    BY <1>1, <2>3, <2>4
<1> QED
  BY <1>2, <1>3

LEMMA UptoType ==
  ASSUME TypeOK, NEW p
  PROVE  Upto(p) \in 0 .. Len(blocks)
<1> DEFINE U == {i \in DOMAIN blocks : blocks[i].page <= p}
<1>1. Len(blocks) \in Nat /\ DOMAIN blocks = 1 .. Len(blocks)
      BY LenProperties DEF TypeOK
<1>2. IsFiniteSet(1 .. Len(blocks)) /\ Cardinality(1 .. Len(blocks)) = Len(blocks)
  <2> DEFINE n == Len(blocks)
  <2>1. n \in Int /\ 1 \in Int
        BY <1>1
  <2> HIDE DEF n
  <2>2. /\ IsFiniteSet(1 .. n)
        /\ Cardinality(1 .. n) = IF 1 > n THEN 0 ELSE n - 1 + 1
        BY <2>1, FS_Interval
  <2>3. n \in Nat
        BY <1>1 DEF n
  <2> QED
    BY <2>2, <2>3 DEF n
<1>3. U \subseteq 1 .. Len(blocks)
      BY <1>1
<1>4. IsFiniteSet(U) /\ Cardinality(U) <= Len(blocks)
      BY <1>2, <1>3, FS_Subset
<1>5. Cardinality(U) \in Nat
      BY <1>4, FS_CardinalityType
<1> QED
  BY <1>1, <1>4, <1>5 DEF Upto

-----------------------------------------------------------------------------
(* The steps *)

LEMMA InitIInv == ASSUME Init PROVE IInv
<1>1. TypeOK
  <2>1. PICK n \in 1 .. MaxPages : kind \in [1 .. n -> PageKind]
        BY DEF Init
  <2>2. blocks \in Seq(Block)
        BY EmptySeq DEF Init
  <2>5. {runnable, ocr, marker, audit} \subseteq BOOLEAN
        BY DEF Init
  <2>3. next \in 1 .. MaxPages + 1
        BY DEF Init
  <2>4. results \in [Pages -> Seq(Block)]
        BY DEF Init
  <2> QED
    BY <2>2, <2>3, <2>4, <2>5 DEF Init, TypeOK, Engine, Answer, Code, Ended
<1>2. OriginInv
      BY OnlyNone DEF Init, OriginInv
<1>3. PhaseInv
  <2>1. 1 \in Pages
        BY <1>1, DocFacts
  <2> QED
    BY <2>1 DEF Init, PhaseInv, Effective
<1> QED
  BY <1>1, <1>2, <1>3 DEF IInv

\* A step that leaves the blocks, the results, the answer and the engine alone.
LEMMA OriginKept ==
  ASSUME OriginInv, UNCHANGED <<kind, selected, answer, results, blocks>>
  PROVE  OriginInv'
BY DEF OriginInv, Extracted, Merged, Pages

LEMMA OpenInv == ASSUME IInv, Open PROVE IInv'
<1>1. TypeOK' BY DEF IInv, TypeOK, Open, docVars, pageVars, Pages, LowText, Ended
<1>2. OriginInv' BY OriginKept DEF IInv, Open, docVars, pageVars
<1>3. PhaseInv' BY DEF IInv, PhaseInv, Open, docVars, pageVars, Pages, OcrPages, Effective
<1> QED BY <1>1, <1>2, <1>3 DEF IInv

LEMMA DecideInv == ASSUME IInv, Decide PROVE IInv'
<1>1. TypeOK'
      BY DEF IInv, TypeOK, Decide, docVars, pageVars, Pages, LowText, Ended, Engine, Code
<1>2. OriginInv'
  <2>1. selected = "none"
        BY DEF IInv, PhaseInv, Decide
  <2>2. blocks' = <<>> /\ \A p \in Pages : results'[p] = <<>>
        BY <2>1 DEF IInv, OriginInv, Decide, pageVars
  <2>3. Pages' = Pages
        BY DEF Decide, docVars, Pages
  <2>4. selected' # "none"
        BY DEF IInv, TypeOK, Decide, Engine
  <2> QED
    BY <2>2, <2>3, <2>4, OnlyNone DEF OriginInv
<1>3. PhaseInv'
      BY DEF IInv, TypeOK, PhaseInv, Decide, docVars, pageVars, Pages, OcrPages, Effective, Engine
<1> QED
  BY <1>1, <1>2, <1>3 DEF IInv

LEMMA ProcessPageInv == ASSUME IInv, NEW p \in Pages, ProcessPage(p) PROVE IInv'
<1>1. Only(results'[p], {p}, Extracted)
  <2>1. PICK text \in InlineOcr(p) :
          results' = [results EXCEPT ![p] = (DigitalOf(p) \o text) \o ImageOf(p)]
        BY DEF ProcessPage
  <2>2. Only(DigitalOf(p), {p}, Extracted)
        BY OnlyNone, OnlyOne DEF DigitalOf, Extracted
  <2>3. Only(ImageOf(p), {p}, Extracted)
        BY OnlyNone, OnlyOne DEF ImageOf, Extracted
  <2>4. Only(text, {p}, Extracted)
        BY OnlyNone, OnlyOne DEF InlineOcr, Extracted
  <2>5. Only(DigitalOf(p) \o text, {p}, Extracted)
        BY <2>2, <2>4, OnlyConcat
  <2>6. Only((DigitalOf(p) \o text) \o ImageOf(p), {p}, Extracted)
        BY <2>3, <2>5, OnlyConcat
  <2> QED
    BY <2>1, <2>6 DEF IInv, TypeOK
<1>2. UNCHANGED <<docVars, selected, next, blocks, replaced, audit, answer, warned, manifest>>
      BY DEF ProcessPage
<1>3. Pages' = Pages /\ Extracted' = Extracted /\ Merged' = Merged /\ LowText' = LowText
      BY <1>2 DEF Pages, Extracted, Merged, LowText, docVars
<1>4. results'[p] \in Seq(Block)
  <2>1. {p} \subseteq 1 .. MaxPages /\ Extracted \subseteq Origin
        BY DocFacts DEF IInv, Extracted, Origin
  <2>2. Only(results'[p], 1 .. MaxPages, Origin)
        BY <1>1, <2>1, OnlyWider
  <2> QED
    BY <2>2 DEF Only, Block
<1>5. results' \in [Pages -> Seq(Block)] /\ \A q \in Pages \ {p} : results'[q] = results[q]
      BY <1>4 DEF IInv, TypeOK, ProcessPage
<1>6. TypeOK'
  <2>1. finished' \subseteq Pages /\ phase' \in {"pages", "assemble"}
        BY DEF IInv, TypeOK, ProcessPage
  <2> QED
    BY <1>2, <1>3, <1>5, <2>1 DEF IInv, TypeOK, docVars
<1>7. OriginInv'
  <2>1. selected # "none"
        BY DEF IInv, PhaseInv, ProcessPage
  <2> QED
    BY <1>1, <1>2, <1>3, <1>5, <2>1 DEF IInv, OriginInv
<1>8. PhaseInv'
  <2>1. phase = "pages" /\ phase' \in {"pages", "assemble"}
        BY DEF IInv, TypeOK, ProcessPage
  <2> QED
    BY <1>2, <1>3, <2>1 DEF IInv, PhaseInv, Effective, docVars
<1> QED
  BY <1>6, <1>7, <1>8 DEF IInv

LEMMA AssembleInv == ASSUME IInv, Assemble PROVE IInv'
<1>1. UNCHANGED <<docVars, selected, pageVars, replaced, audit, answer, warned, manifest>>
      BY DEF Assemble
<1>2. Pages' = Pages /\ Extracted' = Extracted /\ Merged' = Merged /\ LowText' = LowText
      /\ OcrPages' = OcrPages
      BY <1>1 DEF Pages, Extracted, Merged, LowText, OcrPages, docVars
<1>3. next \in Pages /\ Pages = 1 .. Len(kind) /\ Len(kind) \in 1 .. MaxPages
      BY DocFacts DEF IInv, PhaseInv, Assemble
<1>4. next' \in Pages
      BY <1>3 DEF Assemble
<1>5. phase' \in {"assemble", "uoc", "vision"}
      /\ (phase' = "uoc" => selected = "unlimited_ocr" /\ OcrPages # {})
      BY DEF Assemble
<1>6. Only(blocks', Pages, Merged)
  <2>1. {next} \subseteq Pages /\ Extracted \subseteq Merged
        BY <1>3 DEF Merged
  <2>2. Only(results[next], Pages, Merged)
        BY <1>3, <2>1, OnlyWider DEF IInv, OriginInv
  <2> QED
    BY <2>2, OnlyConcat DEF IInv, OriginInv, Assemble
<1>7. blocks' \in Seq(Block)
  <2>1. Pages \subseteq 1 .. MaxPages /\ Merged \subseteq Origin
        BY DocFacts DEF IInv, Merged, Extracted, Origin
  <2>2. Only(blocks', 1 .. MaxPages, Origin)
        BY <1>6, <2>1, OnlyWider
  <2> QED
    BY <2>2 DEF Only, Block
<1>8. TypeOK'
      BY <1>1, <1>2, <1>3, <1>4, <1>5, <1>7 DEF IInv, TypeOK, docVars, pageVars
<1>9. phase = "assemble" /\ selected # "none"
      BY DEF IInv, PhaseInv, Assemble
<1>10. OriginInv'
      BY <1>1, <1>2, <1>6, <1>9 DEF IInv, OriginInv, pageVars
<1>11. PhaseInv'
      BY <1>1, <1>2, <1>4, <1>5, <1>9 DEF IInv, PhaseInv, Effective, docVars
<1> QED
  BY <1>8, <1>10, <1>11 DEF IInv

\* Pages and the sets drawn from them change with kind only.
LEMMA DocKept ==
  ASSUME UNCHANGED docVars
  PROVE  Pages' = Pages /\ LowText' = LowText /\ OcrPages' = OcrPages
BY DEF docVars, Pages, LowText, OcrPages

\* Blocks with the right origins are blocks.
LEMMA MergedAreBlocks ==
  ASSUME TypeOK, NEW s, NEW os, os \subseteq Origin, Only(s, Pages, os)
  PROVE  s \in Seq(Block)
<1>1. Only(s, 1 .. MaxPages, Origin)
      BY DocFacts, OnlyWider
<1> QED
  BY <1>1 DEF Only, Block

\* The blocks with one more of page p between the first m and those after the n-th.
LEMMA SplicedOnly ==
  ASSUME NEW os, NEW us, os \subseteq us, Only(blocks, Pages, os),
         NEW p \in Pages, NEW o \in us, NEW m \in 0 .. Len(blocks), NEW n \in 0 .. Len(blocks)
  PROVE  Only((SubSeq(blocks, 1, m) \o On(p, o)) \o SubSeq(blocks, n + 1, Len(blocks)), Pages, us)
<1>1. Only(blocks, Pages, us)
      BY OnlyWider
<1>2. Len(blocks) \in Nat
      BY LenProperties DEF Only
<1>3. Only(SubSeq(blocks, 1, m), Pages, us)
      BY <1>1, <1>2, OnlyPart
<1>4. Only(SubSeq(blocks, n + 1, Len(blocks)), Pages, us)
      BY <1>1, <1>2, OnlyPart
<1> QED
  BY <1>3, <1>4, OnlyOne, OnlyConcat

LEMMA UocYieldsNothingInv == ASSUME IInv, UocYieldsNothing PROVE IInv'
<1>1. UNCHANGED <<docVars, selected, pageVars, next, blocks, replaced, audit, manifest>>
      BY DEF UocYieldsNothing
<1>2. answer' \in {"raised", "failed", "empty"} /\ phase' = "index" /\ warned' \subseteq Code
      BY DEF IInv, TypeOK, UocYieldsNothing, Warn, Code
<1>3. selected = "unlimited_ocr" /\ answer = "none"
      BY DEF IInv, PhaseInv, UocYieldsNothing
<1>4. Pages' = Pages /\ LowText' = LowText /\ OcrPages' = OcrPages
      BY <1>1, DocKept
<1>5. TypeOK'
      BY <1>1, <1>2, <1>4 DEF IInv, TypeOK, docVars, pageVars, Answer
<1>6. OriginInv'
      BY <1>1, <1>2, <1>3, <1>4 DEF IInv, OriginInv, Extracted, Merged, pageVars
<1>7. PhaseInv'
      BY <1>1, <1>2, <1>3, <1>4 DEF IInv, PhaseInv, Effective, docVars
<1> QED
  BY <1>5, <1>6, <1>7 DEF IInv

LEMMA UocDeliversInv == ASSUME IInv, UocDelivers PROVE IInv'
<1>1. UNCHANGED <<docVars, selected, pageVars, next, replaced, audit, warned, manifest>>
      BY DEF UocDelivers
<1>2. answer' = "safe" /\ phase' = "index"
      BY DEF UocDelivers
<1>3. selected = "unlimited_ocr" /\ answer = "none" /\ OcrPages # {}
      BY DEF IInv, PhaseInv, UocDelivers
<1>4. Pages' = Pages /\ LowText' = LowText /\ OcrPages' = OcrPages
      BY <1>1, DocKept
<1>5. Only(blocks', Pages, Merged')
  <2>1. FirstOcrPage \in Pages
        BY <1>3, FirstIsOcrPage, DocFacts DEF IInv
  <2>2. InsertAt(FirstOcrPage) \in 0 .. Len(blocks)
        BY InsertAtType DEF IInv
  <2>3. Merged \subseteq Merged' /\ "unlimited_ocr" \in Merged'
        BY <1>1, <1>2, <1>3 DEF Merged, Extracted
  <2> QED
    BY <2>1, <2>2, <2>3, SplicedOnly DEF IInv, OriginInv, UocDelivers, Insert
<1>6. blocks' \in Seq(Block)
  <2>1. Merged' \subseteq Origin
        BY DEF Merged, Extracted, Origin
  <2> QED
    BY <1>5, <2>1, MergedAreBlocks DEF IInv
<1>7. TypeOK'
      BY <1>1, <1>2, <1>4, <1>6 DEF IInv, TypeOK, docVars, pageVars, Answer
<1>8. OriginInv'
      BY <1>1, <1>3, <1>4, <1>5 DEF IInv, OriginInv, Extracted, pageVars
<1>9. PhaseInv'
      BY <1>1, <1>2, <1>3, <1>4 DEF IInv, PhaseInv, Effective, docVars
<1> QED
  BY <1>7, <1>8, <1>9 DEF IInv

\* The two ends of an unsafe answer: no block changes.
LEMMA UnsafeInv == ASSUME IInv, UocRejected \/ UocDiscarded PROVE IInv'
<1>1. UNCHANGED <<docVars, selected, pageVars, next, blocks, replaced, manifest>>
      BY DEF UocRejected, UocDiscarded
<1>2. answer' = "unsafe" /\ warned' \subseteq Code
      BY DEF IInv, TypeOK, UocRejected, UocDiscarded, Warn, Code
<1>3. \/ phase' = "rejected" /\ requested = "unlimited_ocr" /\ audit' = audit
      \/ phase' = "fallback" /\ requested = "auto" /\ audit' = TRUE
      BY DEF UocRejected, UocDiscarded
<1>4. selected = "unlimited_ocr" /\ answer = "none" /\ OcrPages # {}
      BY DEF IInv, PhaseInv, UocRejected, UocDiscarded
<1>5. Pages' = Pages /\ LowText' = LowText /\ OcrPages' = OcrPages
      BY <1>1, DocKept
<1>6. audit' \in BOOLEAN /\ ~audit
      BY <1>3, <1>4 DEF IInv, PhaseInv, TypeOK
<1>7. TypeOK'
      BY <1>1, <1>2, <1>3, <1>5, <1>6 DEF IInv, TypeOK, docVars, pageVars, Answer, Ended
<1>8. OriginInv'
  <2>1. Merged \subseteq Merged'
        BY <1>1, <1>2, <1>4 DEF Merged, Extracted
  <2>2. Only(blocks, Pages, Merged')
        BY <2>1, OnlyWider DEF IInv, OriginInv
  <2> QED
    BY <1>1, <1>4, <1>5, <2>2 DEF IInv, OriginInv, Extracted, pageVars
<1>9. PhaseInv'
      BY <1>1, <1>2, <1>3, <1>4, <1>5, <1>6 DEF IInv, PhaseInv, Effective, docVars
<1> QED
  BY <1>7, <1>8, <1>9 DEF IInv

LEMMA FallbackInv == ASSUME IInv, FallbackRaises \/ FallbackRuns PROVE IInv'
<1>1. UNCHANGED <<docVars, selected, pageVars, next, replaced, audit, answer, manifest>>
      BY DEF FallbackRaises, FallbackRuns
<1>2. phase' = "index" /\ warned' \subseteq Code
      BY DEF IInv, TypeOK, FallbackRaises, FallbackRuns, Warn, Code
<1>3. selected = "unlimited_ocr" /\ OcrPages # {} /\ audit /\ answer = "unsafe"
  <2>1. phase = "fallback"
        BY DEF FallbackRaises, FallbackRuns
  <2> QED
    BY <2>1 DEF IInv, PhaseInv
<1>4. Pages' = Pages /\ LowText' = LowText /\ OcrPages' = OcrPages
      BY <1>1, DocKept
<1>5. "tuple" \in Merged /\ Merged' = Merged /\ Merged \subseteq Origin
      BY <1>1, <1>3 DEF Merged, Extracted, Origin
<1>6. FirstOcrPage \in Pages
      BY <1>3, FirstIsOcrPage, DocFacts DEF IInv
<1>7. Only(blocks', Pages, Merged)
  <2>1. CASE FallbackRaises
        BY <2>1 DEF FallbackRaises, IInv, OriginInv
  <2>2. CASE FallbackRuns
    <3>1. \/ blocks' = blocks \o <<>>
          \/ blocks' = blocks \o On(FirstOcrPage, "tuple")
          BY <2>2 DEF FallbackRuns
    <3>2. Only(<<>>, Pages, Merged) /\ Only(On(FirstOcrPage, "tuple"), Pages, Merged)
          BY <1>5, <1>6, OnlyNone, OnlyOne
    <3> QED
      BY <3>1, <3>2, OnlyConcat DEF IInv, OriginInv
  <2> QED
    BY <2>1, <2>2
<1>8. blocks' \in Seq(Block)
      BY <1>5, <1>7, MergedAreBlocks DEF IInv
<1>9. TypeOK'
      BY <1>1, <1>2, <1>4, <1>8 DEF IInv, TypeOK, docVars, pageVars
<1>10. OriginInv'
      BY <1>1, <1>3, <1>4, <1>5, <1>7 DEF IInv, OriginInv, Extracted, pageVars
<1>11. PhaseInv'
      BY <1>1, <1>2, <1>3, <1>4 DEF IInv, PhaseInv, Effective, docVars
<1> QED
  BY <1>9, <1>10, <1>11 DEF IInv

\* Steps of the later phases that leave the document as it is.
LEMMA LaterInv == ASSUME IInv, Reindex \/ VisionEnds \/ Report PROVE IInv'
<1>1. UNCHANGED <<docVars, selected, pageVars, next, blocks, replaced, audit, answer>>
      BY DEF Reindex, VisionEnds, Report
<1>2. /\ phase' \in {"crashed", "vision", "validate", "done"}
      /\ warned' \subseteq Code
      /\ phase' = "done" => manifest' = Effective
      /\ manifest' \in {manifest, Effective}
      BY DEF IInv, TypeOK, Reindex, VisionEnds, Report, Warn, Code, Effective
<1>3. phase \in {"index", "vision", "validate"}
      BY DEF Reindex, VisionEnds, Report
<1>4. selected # "none" /\ (answer = "unsafe" => requested = "auto")
      BY <1>3 DEF IInv, PhaseInv
<1>5. Pages' = Pages /\ LowText' = LowText /\ OcrPages' = OcrPages /\ Effective' = Effective
      BY <1>1, DocKept DEF Effective
<1>6. TypeOK'
  <2>1. Effective \in Engine \cup {"none"}
        BY DEF IInv, TypeOK, Effective, Engine
  <2> QED
    BY <1>1, <1>2, <1>5, <2>1 DEF IInv, TypeOK, docVars, pageVars, Ended
<1>7. OriginInv'
      BY <1>1, OriginKept DEF IInv, docVars, pageVars
<1>8. PhaseInv'
      BY <1>1, <1>2, <1>4, <1>5 DEF IInv, PhaseInv, docVars
<1> QED
  BY <1>6, <1>7, <1>8 DEF IInv

LEMMA VisionInv == ASSUME IInv, Vision PROVE IInv'
<1>1. UNCHANGED <<docVars, phase, selected, pageVars, audit, answer, warned, manifest>>
      BY DEF Vision
<1>2. phase = "vision" /\ selected # "unlimited_ocr" /\ selected # "none"
      BY DEF IInv, PhaseInv, Vision, VisionOn
<1>3. Pages' = Pages /\ LowText' = LowText /\ OcrPages' = OcrPages
      BY <1>1, DocKept
<1>4. Merged' = Merged /\ "marker" \in Merged /\ Merged \subseteq Origin
      BY <1>1, <1>2 DEF Merged, Extracted, Origin
<1>5. \/ UNCHANGED <<replaced, blocks>>
      \/ /\ next \in LowText /\ replaced' = replaced \cup {next}
         /\ blocks' = (SubSeq(blocks, 1, Upto(next - 1)) \o On(next, "marker"))
                      \o SubSeq(blocks, Upto(next) + 1, Len(blocks))
      BY DEF Vision, Rebuilt
<1>6. Only(blocks', Pages, Merged) /\ replaced' \subseteq LowText
  <2>1. CASE UNCHANGED <<replaced, blocks>>
        BY <2>1 DEF IInv, OriginInv, TypeOK
  <2>2. CASE ~ UNCHANGED <<replaced, blocks>>
    <3>1. next \in Pages
          BY <1>5, <2>2, DocFacts DEF IInv
    <3>2. Upto(next - 1) \in 0 .. Len(blocks) /\ Upto(next) \in 0 .. Len(blocks)
          BY UptoType DEF IInv
    <3>3. Only((SubSeq(blocks, 1, Upto(next - 1)) \o On(next, "marker"))
               \o SubSeq(blocks, Upto(next) + 1, Len(blocks)), Pages, Merged)
          BY <1>4, <3>1, <3>2, SplicedOnly DEF IInv, OriginInv
    <3> QED
      BY <1>5, <2>2, <3>3 DEF IInv, TypeOK
  <2> QED
    BY <2>1, <2>2
<1>7. blocks' \in Seq(Block)
      BY <1>4, <1>6, MergedAreBlocks DEF IInv
<1>8. next' \in 1 .. MaxPages + 1
      BY DocFacts DEF IInv, TypeOK, Vision
<1>9. TypeOK'
      BY <1>1, <1>3, <1>6, <1>7, <1>8 DEF IInv, TypeOK, docVars, pageVars
<1>10. OriginInv'
      BY <1>1, <1>2, <1>3, <1>4, <1>6 DEF IInv, OriginInv, Extracted, pageVars
<1>11. PhaseInv'
      BY <1>1, <1>2, <1>3 DEF IInv, PhaseInv, Effective, docVars
<1> QED
  BY <1>9, <1>10, <1>11 DEF IInv

LEMMA StepIInv == ASSUME IInv, [Next]_vars PROVE IInv'
<1>1. CASE UNCHANGED vars
  <2>1. TypeOK'
        BY <1>1 DEF IInv, TypeOK, vars, docVars, pageVars, Pages, LowText
  <2>2. OriginInv'
        BY <1>1, OriginKept DEF IInv, vars, docVars, pageVars
  <2>3. PhaseInv'
        BY <1>1 DEF IInv, PhaseInv, vars, docVars, pageVars, Pages, OcrPages, Effective
  <2> QED
    BY <2>1, <2>2, <2>3 DEF IInv
<1>2. CASE Next
  <2>1. CASE \E p \in Pages : ProcessPage(p)
        BY <2>1, ProcessPageInv
  <2>2. CASE Open \/ Decide \/ Assemble
        BY <2>2, OpenInv, DecideInv, AssembleInv
  <2>3. CASE UocYieldsNothing \/ UocDelivers \/ UocRejected \/ UocDiscarded
        BY <2>3, UocYieldsNothingInv, UocDeliversInv, UnsafeInv
  <2>4. CASE FallbackRaises \/ FallbackRuns \/ Reindex \/ VisionEnds \/ Report
        BY <2>4, FallbackInv, LaterInv
  <2>5. CASE Vision
        BY <2>5, VisionInv
  <2> QED
    BY <1>2, <2>1, <2>2, <2>3, <2>4, <2>5 DEF Next
<1> QED
  BY <1>1, <1>2

-----------------------------------------------------------------------------
(* Theorems *)

\* The inductive invariant holds of every reachable state.
THEOREM Invariant == Spec => []IInv
<1>1. Init => IInv
      BY InitIInv
<1>2. IInv /\ [Next]_vars => IInv'
      BY StepIInv
<1> QED
  BY <1>1, <1>2, PTL DEF Spec

\* Every variable of a compile keeps its type: "auto" is always resolved to an engine,
\* and every block stays on a page of the document.
THEOREM TypeCorrect == Spec => []TypeOK
<1>1. IInv => TypeOK
      BY DEF IInv
<1> QED
  BY <1>1, Invariant, PTL

\* Text refused by the output safety policy reaches no document (pdf.py).
THEOREM UnsafeNowhere == Spec => []UnsafeDiscarded
<1>1. ASSUME IInv PROVE UnsafeDiscarded
  <2>1. SUFFICES ASSUME answer = "unsafe"
                 PROVE  /\ "unlimited_ocr" \notin Origins
                        /\ requested = "unlimited_ocr" => phase = "rejected"
        BY DEF UnsafeDiscarded
  <2>2. "unlimited_ocr" \notin Merged
        BY <1>1, <2>1 DEF IInv, PhaseInv, Merged, Extracted
  <2>3. \A i \in DOMAIN blocks : blocks[i].origin \in Merged
        BY <1>1, OnlyElement DEF IInv, OriginInv
  <2> QED
    BY <1>1, <2>1, <2>2, <2>3 DEF IInv, PhaseInv, Origins
<1> QED
  BY <1>1, Invariant, PTL

\* The engine the manifest names is the one whose text is in the document (compiler.py).
THEOREM ManifestSound == Spec => []ManifestNamesEngine
<1>1. ASSUME IInv PROVE ManifestNamesEngine
  <2>1. SUFFICES ASSUME phase = "done"
                 PROVE  /\ "unlimited_ocr" \in Origins =>
                             manifest = "unlimited_ocr" /\ "marker" \notin Origins
                        /\ "tesseract" \in Origins => manifest = "tesseract"
                        /\ audit <=> answer = "unsafe"
        BY DEF ManifestNamesEngine
  <2>2. \A i \in DOMAIN blocks : blocks[i].origin \in Merged
        BY <1>1, OnlyElement DEF IInv, OriginInv
  <2>3. Origins \subseteq Merged
        BY <2>2 DEF Origins
  <2>4. selected \in Engine /\ manifest = Effective /\ (audit <=> answer = "unsafe")
        /\ (answer # "none" => selected = "unlimited_ocr")
        BY <1>1, <2>1 DEF IInv, TypeOK, PhaseInv
  <2> QED
    BY <2>3, <2>4 DEF Merged, Extracted, Effective, Engine
<1> QED
  BY <1>1, Invariant, PTL

\* An explicit choice of an engine never falls back, and "auto" says when it does.
THEOREM NoDowngrade == Spec => NoSilentDowngrade
<1> DEFINE A == Effective' # Effective /\ Effective # "none" =>
                  /\ requested = "auto" /\ Effective' = "tesseract"
                  /\ "FALLBACK_REPETITION" \in warned'
<1>1. ASSUME IInv, Next PROVE A
  <2>1. CASE Decide
        BY <1>1, <2>1 DEF IInv, PhaseInv, Decide, Effective
  <2>2. CASE UocDiscarded
        BY <2>2 DEF UocDiscarded, Effective, Warn
  <2>3. CASE UNCHANGED <<selected, audit>>
        BY <2>3 DEF Effective
  <2>4. Decide \/ UocDiscarded \/ UNCHANGED <<selected, audit>>
        BY <1>1 DEF Next, Open, ProcessPage, Assemble, UocYieldsNothing, UocDelivers, UocRejected,
                    FallbackRaises, FallbackRuns, Reindex, Vision, VisionEnds, Report
  <2> QED
    BY <2>1, <2>2, <2>3, <2>4
<1>2. IInv /\ [Next]_vars => [A]_vars
      BY <1>1
<1> HIDE DEF A
<1>3. Spec => [][A]_vars
      BY <1>2, Invariant, PTL DEF Spec
<1> QED
  BY <1>3 DEF NoSilentDowngrade, A

-----------------------------------------------------------------------------
(* Page order and kept content *)

Sorted(s) == \A i, j \in 1 .. Len(s) : i <= j => s[i].page <= s[j].page

\* s with the blocks from m + 1 to n replaced by b.
Spliced(s, m, b, n) == (SubSeq(s, 1, m) \o <<b>>) \o SubSeq(s, n + 1, Len(s))

LEMMA BlockFacts ==
  ASSUME NEW s \in Seq(Block)
  PROVE  /\ Len(s) \in Nat /\ DOMAIN s = 1 .. Len(s)
         /\ \A i \in 1 .. Len(s) : s[i] \in Block /\ s[i].page \in 1 .. MaxPages
<1>1. Len(s) \in Nat /\ DOMAIN s = 1 .. Len(s)
      BY LenProperties
<1>2. \A i \in 1 .. Len(s) : s[i] \in Block
      BY ElementOfSeq
<1> QED
  BY <1>1, <1>2 DEF Block

LEMMA SplicedElements ==
  ASSUME NEW s \in Seq(Block), NEW b \in Block,
         NEW m \in 0 .. Len(s), NEW n \in 0 .. Len(s)
  PROVE  /\ Spliced(s, m, b, n) \in Seq(Block)
         /\ Len(Spliced(s, m, b, n)) = m + 1 + (Len(s) - n)
         /\ \A i \in 1 .. m : Spliced(s, m, b, n)[i] = s[i]
         /\ Spliced(s, m, b, n)[m + 1] = b
         /\ \A i \in n + 1 .. Len(s) : Spliced(s, m, b, n)[i - n + m + 1] = s[i]
<1> DEFINE u == SubSeq(s, 1, m)
           v == u \o <<b>>
           w == SubSeq(s, n + 1, Len(s))
<1>1. Len(s) \in Nat /\ m \in Nat /\ n \in Nat /\ \A i \in 1 .. Len(s) : s[i] \in Block
      BY BlockFacts
<1>2. u \in Seq(Block) /\ Len(u) = m /\ \A i \in 1 .. m : u[i] = s[i]
  <2>1. \A i \in 1 .. m : s[i] \in Block
        BY <1>1
  <2>2. /\ SubSeq(s, 1, m) \in Seq(Block)
        /\ Len(SubSeq(s, 1, m)) = IF 1 <= m THEN m - 1 + 1 ELSE 0
        /\ \A i \in 1 .. m - 1 + 1 : SubSeq(s, 1, m)[i] = s[1 + i - 1]
        BY <1>1, <2>1, SubSeqProperties
  <2> QED
    BY <1>1, <2>2
<1>3. w \in Seq(Block) /\ Len(w) = Len(s) - n /\ \A i \in 1 .. Len(s) - n : w[i] = s[n + i]
  <2>1. \A i \in n + 1 .. Len(s) : s[i] \in Block
        BY <1>1
  <2>2. /\ SubSeq(s, n + 1, Len(s)) \in Seq(Block)
        /\ Len(SubSeq(s, n + 1, Len(s))) =
             IF n + 1 <= Len(s) THEN Len(s) - (n + 1) + 1 ELSE 0
        /\ \A i \in 1 .. Len(s) - (n + 1) + 1 :
             SubSeq(s, n + 1, Len(s))[i] = s[n + 1 + i - 1]
        BY <1>1, <2>1, SubSeqProperties
  <2> QED
    BY <1>1, <2>2
<1>4. <<b>> \in Seq(Block) /\ Len(<<b>>) = 1 /\ <<b>>[1] = b
      OBVIOUS
<1>5. v \in Seq(Block) /\ Len(v) = m + 1 /\ (\A i \in 1 .. m : v[i] = s[i]) /\ v[m + 1] = b
  <2> HIDE DEF u
  <2>1. /\ u \o <<b>> \in Seq(Block)
        /\ Len(u \o <<b>>) = Len(u) + Len(<<b>>)
        /\ \A i \in 1 .. Len(u) + Len(<<b>>) :
             (u \o <<b>>)[i] = IF i <= Len(u) THEN u[i] ELSE <<b>>[i - Len(u)]
        BY <1>2, <1>4, ConcatProperties
  <2> QED
    BY <1>1, <1>2, <1>4, <2>1
<1>6. /\ v \o w \in Seq(Block)
      /\ Len(v \o w) = m + 1 + (Len(s) - n)
      /\ \A i \in 1 .. m + 1 : (v \o w)[i] = v[i]
      /\ \A i \in 1 .. Len(s) - n : (v \o w)[m + 1 + i] = w[i]
  <2> HIDE DEF v, w
  <2>1. /\ v \o w \in Seq(Block)
        /\ Len(v \o w) = Len(v) + Len(w)
        /\ \A i \in 1 .. Len(v) + Len(w) :
             (v \o w)[i] = IF i <= Len(v) THEN v[i] ELSE w[i - Len(v)]
        BY <1>3, <1>5, ConcatProperties
  <2> QED
    BY <1>1, <1>3, <1>5, <2>1, SMTT(30)
<1>7. Spliced(s, m, b, n) = v \o w
      BY DEF Spliced
<1> HIDE DEF v, w
<1>8. \A i \in n + 1 .. Len(s) : (v \o w)[i - n + m + 1] = s[i]
  <2>1. TAKE i \in n + 1 .. Len(s)
  <2>2. i - n \in 1 .. Len(s) - n /\ m + 1 + (i - n) = i - n + m + 1 /\ n + (i - n) = i
        BY <1>1
  <2>3. (v \o w)[m + 1 + (i - n)] = w[i - n] /\ w[i - n] = s[n + (i - n)]
        BY <1>3, <1>6, <2>2
  <2> QED
    BY <2>2, <2>3
<1>9. \A i \in 1 .. m : (v \o w)[i] = s[i]
  <2>1. \A i \in 1 .. m : i \in 1 .. m + 1
        BY <1>1
  <2> QED
    BY <1>5, <1>6, <2>1
<1>10. (v \o w)[m + 1] = b
  <2>1. m + 1 \in 1 .. m + 1
        BY <1>1
  <2> QED
    BY <1>5, <1>6, <2>1
<1>11. v \o w \in Seq(Block) /\ Len(v \o w) = m + 1 + (Len(s) - n)
      BY <1>6
<1> HIDE DEF u
<1> QED
  BY <1>7, <1>8, <1>9, <1>10, <1>11, Zenon

\* Putting a block of page p where the pages up to p end keeps the order.
LEMMA SplicedSorted ==
  ASSUME NEW s \in Seq(Block), NEW b \in Block, Sorted(s),
         NEW m \in 0 .. Len(s), NEW n \in 0 .. Len(s),
         \A i \in 1 .. m : s[i].page <= b.page,
         \A i \in n + 1 .. Len(s) : b.page <= s[i].page
  PROVE  Sorted(Spliced(s, m, b, n))
<1> DEFINE t == Spliced(s, m, b, n)
<1>1. Len(s) \in Nat /\ m \in Nat /\ n \in Nat /\ b.page \in Int
      /\ \A i \in 1 .. Len(s) : s[i].page \in Int
  <2>1. Len(s) \in Nat /\ \A i \in 1 .. Len(s) : s[i].page \in 1 .. MaxPages
        BY BlockFacts
  <2>2. b.page \in 1 .. MaxPages
        BY DEF Block
  <2> QED
    BY <2>1, <2>2
<1>2. /\ Len(t) = m + 1 + (Len(s) - n)
      /\ \A i \in 1 .. m : t[i] = s[i]
      /\ t[m + 1] = b
      /\ \A i \in n + 1 .. Len(s) : t[i - n + m + 1] = s[i]
  <2> HIDE DEF t
  <2>1. t = Spliced(s, m, b, n)
        BY DEF t
  <2>2. Len(Spliced(s, m, b, n)) = m + 1 + (Len(s) - n) /\ Spliced(s, m, b, n)[m + 1] = b
        BY SplicedElements
  <2>3. \A i \in 1 .. m : Spliced(s, m, b, n)[i] = s[i]
        BY SplicedElements
  <2>4. \A i \in n + 1 .. Len(s) : Spliced(s, m, b, n)[i - n + m + 1] = s[i]
        BY SplicedElements
  <2> QED
    BY <2>1, <2>2, <2>3, <2>4, Zenon
<1> HIDE DEF t
<1>3. ASSUME NEW i \in 1 .. Len(t)
      PROVE  \/ i \in 1 .. m /\ t[i] = s[i]
             \/ i = m + 1 /\ t[i] = b
             \/ /\ i > m + 1 /\ i + n - m - 1 \in n + 1 .. Len(s)
                /\ t[i] = s[i + n - m - 1]
  <2>1. CASE i > m + 1
    <3>1. i + n - m - 1 \in n + 1 .. Len(s) /\ (i + n - m - 1) - n + m + 1 = i
          BY <1>1, <1>2, <2>1
    <3> QED
      BY <1>2, <2>1, <3>1
  <2> QED
    BY <1>1, <1>2, <2>1
<1>4. ASSUME NEW i \in 1 .. Len(t), NEW j \in 1 .. Len(t), i <= j
      PROVE  t[i].page <= t[j].page
  <2>1. CASE i \in 1 .. m
    <3>1. t[i] = s[i] /\ i \in 1 .. Len(s)
          BY <1>1, <1>2, <2>1
    <3>2. CASE j \in 1 .. m
          BY <1>1, <1>2, <1>4, <3>1, <3>2, SMTT(30) DEF Sorted
    <3>3. CASE j = m + 1
          BY <1>1, <1>2, <2>1, <3>1, <3>3
    <3>4. CASE j > m + 1
      <4>1. j + n - m - 1 \in n + 1 .. Len(s) /\ t[j] = s[j + n - m - 1]
            BY <1>1, <1>3, <3>4
      <4>2. s[i].page <= b.page /\ b.page <= s[j + n - m - 1].page
            BY <2>1, <4>1
      <4>3. s[i].page \in Int /\ s[j + n - m - 1].page \in Int
            BY <1>1, <3>1, <4>1
      <4> QED
        BY <1>1, <3>1, <4>1, <4>2, <4>3
    <3> QED
      BY <1>1, <3>2, <3>3, <3>4
  <2>2. CASE i = m + 1
    <3>1. t[i] = b
          BY <1>2, <2>2
    <3>2. CASE j = m + 1
          BY <1>1, <1>2, <3>1, <3>2
    <3>3. CASE j > m + 1
      <4>1. j + n - m - 1 \in n + 1 .. Len(s) /\ t[j] = s[j + n - m - 1]
            BY <1>1, <1>3, <3>3
      <4> QED
        BY <3>1, <4>1
    <3> QED
      BY <1>1, <1>4, <2>2, <3>2, <3>3
  <2>3. CASE i > m + 1
    <3>1. i + n - m - 1 \in 1 .. Len(s) /\ t[i] = s[i + n - m - 1]
          BY <1>1, <1>3, <2>3
    <3>2. j + n - m - 1 \in 1 .. Len(s) /\ t[j] = s[j + n - m - 1]
          BY <1>1, <1>3, <1>4, <2>3
    <3>3. i + n - m - 1 <= j + n - m - 1
          BY <1>1, <1>4
    <3> QED
      BY <3>1, <3>2, <3>3 DEF Sorted
  <2> QED
    BY <1>1, <2>1, <2>2, <2>3
<1> QED
  BY <1>4 DEF Sorted, t

\* In a sorted document the blocks of the pages up to q are the first Upto(q) ones.
LEMMA UptoMeans ==
  ASSUME blocks \in Seq(Block), Sorted(blocks), NEW q \in Int
  PROVE  \A i \in 1 .. Len(blocks) : i <= Upto(q) <=> blocks[i].page <= q
<1> DEFINE n == Len(blocks)
           U == {i \in DOMAIN blocks : blocks[i].page <= q}
           C == {i \in 1 .. n : ~ (blocks[i].page <= q)}
<1>1. n \in Nat /\ DOMAIN blocks = 1 .. n /\ \A i \in 1 .. n : blocks[i].page \in Int
      BY BlockFacts
<1>2. \A k \in Nat : Cardinality(1 .. k) = k
  <2>1. TAKE k \in Nat
  <2>2. Cardinality(1 .. k) = IF 1 > k THEN 0 ELSE k - 1 + 1
        BY FS_Interval
  <2> QED
    BY <2>2
<1>3. \E k \in Nat : U = 1 .. k
  <2>1. CASE C = {}
        BY <1>1, <2>1
  <2>2. CASE C # {}
    <3>1. C \in SUBSET Nat
          BY <1>1
    <3>2. PICK c \in C : \A d \in C : c <= d
          BY <2>2, <3>1, LeastNatural
    <3>3. ASSUME NEW i \in 1 .. n PROVE i <= c - 1 <=> blocks[i].page <= q
      <4>1. c \in 1 .. n /\ ~ (blocks[c].page <= q)
            BY <3>2
      <4>2. i < c => blocks[i].page <= q
            BY <1>1, <3>2
      <4>3. i >= c => blocks[c].page <= blocks[i].page
            BY <1>1, <4>1 DEF Sorted
      <4>4. blocks[i].page \in Int /\ blocks[c].page \in Int
            BY <1>1, <4>1
      <4> QED
        BY <1>1, <4>1, <4>2, <4>3, <4>4
    <3>4. c - 1 \in 0 .. n
          BY <1>1, <3>2
    <3>5. U = 1 .. c - 1
          BY <1>1, <3>3, <3>4
    <3> QED
      BY <3>4, <3>5
  <2> QED
    BY <2>1, <2>2
<1>4. PICK k \in Nat : U = 1 .. k
      BY <1>3
<1>5. Upto(q) = k
      BY <1>2, <1>4 DEF Upto
<1>6. ASSUME NEW i \in 1 .. n PROVE i <= k <=> blocks[i].page <= q
  <2>1. i \in U <=> blocks[i].page <= q
        BY <1>1
  <2> QED
    BY <1>1, <1>4, <2>1
<1> QED
  BY <1>5, <1>6

\* A splice loses no block outside the part it replaces.
LEMMA SplicedKeeps ==
  ASSUME NEW s \in Seq(Block), NEW b \in Block,
         NEW m \in 0 .. Len(s), NEW n \in 0 .. Len(s),
         NEW i \in 1 .. Len(s), i <= m \/ i > n
  PROVE  \E k \in 1 .. Len(Spliced(s, m, b, n)) : Spliced(s, m, b, n)[k] = s[i]
<1> DEFINE t == Spliced(s, m, b, n)
<1>1. Len(s) \in Nat /\ m \in Nat /\ n \in Nat
      BY BlockFacts
<1>2. Len(t) = m + 1 + (Len(s) - n)
      BY SplicedElements
<1>3. \A j \in 1 .. m : t[j] = s[j]
      BY SplicedElements
<1>4. \A j \in n + 1 .. Len(s) : t[j - n + m + 1] = s[j]
      BY SplicedElements
<1> HIDE DEF t
<1>5. CASE i <= m
  <2>1. i \in 1 .. Len(t) /\ t[i] = s[i]
        BY <1>1, <1>2, <1>3, <1>5
  <2> QED
    BY <2>1 DEF t
<1>6. CASE i > n
  <2>1. i \in n + 1 .. Len(s) /\ i - n + m + 1 \in 1 .. Len(t)
        BY <1>1, <1>2, <1>6
  <2>2. t[i - n + m + 1] = s[i]
        BY <1>4, <2>1
  <2> QED
    BY <2>1, <2>2 DEF t
<1> QED
  BY <1>5, <1>6

\* The page has digital text.
Written(p) == kind[p] \in {"text", "mixed", "sparse"}

\* What NoPageLost asks of page p.
Kept(p) ==
  \E i \in 1 .. Len(blocks) :
    /\ blocks[i].page = p
    /\ Written(p) /\ p \notin replaced => blocks[i].origin = "digital"

\* What each phase leaves to the next about order and content.
OrderInv ==
  /\ phase \in {"open", "decide", "pages"} => blocks = <<>> /\ next = 1
  /\ phase \notin {"open", "decide", "pages", "refused"} => finished = Pages
  /\ \A p \in finished : p \in OcrPages \/ Written(p) => results[p] # <<>>
  /\ \A p \in finished : Written(p) => results[p][1].origin = "digital"
  /\ phase = "assemble" => Sorted(blocks) /\ \A i \in 1 .. Len(blocks) : blocks[i].page < next
  /\ phase = "assemble" => \A p \in Pages : p < next /\ results[p] # <<>> => Kept(p)
  /\ phase \in {"uoc", "fallback", "vision", "validate", "done"} => Sorted(blocks)
  /\ phase \in {"uoc", "fallback", "index", "vision", "validate", "done"} =>
       \A p \in Pages : results[p] # <<>> => Kept(p)
  /\ phase = "index" => Sorted(blocks) \/ \E i \in DOMAIN blocks : blocks[i].origin = "tuple"

LEMMA InitOrder == ASSUME Init PROVE OrderInv
BY DEF Init, OrderInv

\* Steps that touch neither the blocks nor the pages.
LEMMA QuietOrder ==
  ASSUME OrderInv,
         \/ Open \/ Decide \/ UocYieldsNothing \/ UocRejected \/ UocDiscarded
         \/ FallbackRaises \/ Reindex \/ VisionEnds \/ Report
  PROVE  OrderInv'
<1>1. UNCHANGED <<kind, finished, results, next, blocks, replaced>>
      BY DEF Open, Decide, UocYieldsNothing, UocRejected, UocDiscarded, FallbackRaises,
             Reindex, VisionEnds, Report, docVars, pageVars
<1>2. /\ Pages' = Pages /\ OcrPages' = OcrPages /\ Sorted(blocks)' = Sorted(blocks)
      /\ \A p : Written(p)' = Written(p) /\ Kept(p)' = Kept(p)
      BY <1>1 DEF Pages, OcrPages, Sorted, Written, Kept
<1>3. \/ phase = "open" /\ phase' \in {"decide", "refused"}
      \/ phase = "decide" /\ phase' = "pages"
      \/ phase = "uoc" /\ phase' \in {"index", "rejected", "fallback"}
      \/ phase = "fallback" /\ phase' = "index"
      \/ phase = "index" /\ phase' = "crashed"
      \/ /\ phase = "index" /\ phase' = "vision"
         /\ ~ \E i \in DOMAIN blocks : blocks[i].origin = "tuple"
      \/ phase = "vision" /\ phase' = "validate"
      \/ phase = "validate" /\ phase' = "done"
      BY DEF Open, Decide, UocYieldsNothing, UocRejected, UocDiscarded, FallbackRaises,
             Reindex, VisionEnds, Report
<1> QED
  BY <1>1, <1>2, <1>3 DEF OrderInv

LEMMA ProcessPageOrder ==
  ASSUME IInv, OrderInv, NEW p \in Pages, ProcessPage(p)
  PROVE  OrderInv'
<1>1. UNCHANGED <<kind, next, blocks, replaced>> /\ phase = "pages"
      /\ finished' = finished \cup {p}
      /\ phase' = IF finished' = Pages THEN "assemble" ELSE phase
      BY DEF ProcessPage, docVars
<1>2. Pages' = Pages /\ OcrPages' = OcrPages /\ \A q : Written(q)' = Written(q)
      BY <1>1 DEF Pages, OcrPages, Written
<1>3. PICK text \in InlineOcr(p) :
        results' = [results EXCEPT ![p] = (DigitalOf(p) \o text) \o ImageOf(p)]
      BY DEF ProcessPage
<1>4. results'[p] = (DigitalOf(p) \o text) \o ImageOf(p)
      /\ \A q \in Pages \ {p} : results'[q] = results[q]
      BY <1>3 DEF IInv, TypeOK
<1>5. Len(text) \in Nat
  <2>1. text = <<>> \/ \E o : text = On(p, o)
        BY <1>3 DEF InlineOcr
  <2> QED
    BY <2>1 DEF On
<1>6. /\ p \in OcrPages \/ Written(p) => results'[p] # <<>>
      /\ Written(p) => results'[p][1].origin = "digital"
  <2> DEFINE r == (DigitalOf(p) \o text) \o ImageOf(p)
  <2>1. CASE Written(p)
    <3>1. DigitalOf(p) = <<[page |-> p, origin |-> "digital"]>>
          BY <2>1 DEF Written, DigitalOf, On
    <3> QED
      BY <1>4, <1>5, <3>1
  <2>2. CASE p \in OcrPages /\ ~Written(p)
    <3>1. DigitalOf(p) = <<>> /\ ImageOf(p) = <<[page |-> p, origin |-> "image"]>>
          BY <2>2 DEF Written, OcrPages, DigitalOf, ImageOf, On
    <3> QED
      BY <1>4, <1>5, <2>2, <3>1
  <2> QED
    BY <2>1, <2>2
<1>7. blocks' = <<>> /\ next' = 1
      BY <1>1 DEF OrderInv
<1>8. Pages \subseteq Nat \ {0} /\ finished \subseteq Pages
      BY DocFacts DEF IInv, TypeOK
<1>9. \A q \in finished' : /\ q \in OcrPages \/ Written(q) => results'[q] # <<>>
                           /\ Written(q) => results'[q][1].origin = "digital"
      BY <1>1, <1>4, <1>6, <1>8 DEF OrderInv
<1>10. Sorted(blocks)'
      BY <1>7 DEF Sorted
<1> QED
  BY <1>1, <1>2, <1>7, <1>8, <1>9, <1>10 DEF OrderInv

\* Blocks added at the end lose none that were there.
LEMMA AppendedElements ==
  ASSUME NEW s \in Seq(Block), NEW r \in Seq(Block)
  PROVE  /\ s \o r \in Seq(Block) /\ Len(s \o r) = Len(s) + Len(r)
         /\ \A i \in 1 .. Len(s) : (s \o r)[i] = s[i]
         /\ \A i \in 1 .. Len(r) : (s \o r)[Len(s) + i] = r[i]
<1>1. Len(s) \in Nat /\ Len(r) \in Nat
      BY BlockFacts
<1>2. /\ s \o r \in Seq(Block)
      /\ Len(s \o r) = Len(s) + Len(r)
      /\ \A i \in 1 .. Len(s) + Len(r) :
           (s \o r)[i] = IF i <= Len(s) THEN s[i] ELSE r[i - Len(s)]
      BY ConcatProperties
<1> QED
  BY <1>1, <1>2

LEMMA AssembleOrder == ASSUME IInv, OrderInv, Assemble PROVE OrderInv'
<1> DEFINE r == results[next]
           n == Len(blocks)
<1>1. UNCHANGED <<kind, finished, results, replaced>> /\ phase = "assemble"
      BY DEF Assemble, docVars, pageVars
<1>2. Pages' = Pages /\ OcrPages' = OcrPages /\ \A q : Written(q)' = Written(q)
      BY <1>1 DEF Pages, OcrPages, Written
<1>3. /\ \/ phase' = "assemble" /\ next' = next + 1
         \/ phase' \in {"uoc", "vision"} /\ next = Len(kind)
      /\ Pages = 1 .. Len(kind) /\ Len(kind) \in Nat /\ next \in Pages
  <2>1. next \in Pages /\ Pages = 1 .. Len(kind) /\ Len(kind) \in Nat
        BY DocFacts DEF IInv, PhaseInv, Assemble
  <2> QED
    BY <1>1, <2>1 DEF Assemble
<1>4. blocks \in Seq(Block) /\ r \in Seq(Block)
      BY <1>3 DEF IInv, TypeOK
<1>5. n \in Nat /\ Len(r) \in Nat /\ (\A i \in 1 .. n : blocks[i].page \in Int)
      /\ DOMAIN r = 1 .. Len(r)
      BY <1>4, BlockFacts
<1>6. \A i \in 1 .. Len(r) : r[i].page = next
  <2>1. Only(results[next], {next}, Extracted)
        BY <1>3 DEF IInv, OriginInv
  <2> QED
    BY <1>5, <2>1, OnlyElement
<1>7. blocks' = blocks \o r
      BY DEF Assemble
<1> HIDE DEF r
<1>8. Len(blocks') = n + Len(r)
      BY <1>4, <1>7, AppendedElements
<1>9. \A i \in 1 .. n : blocks'[i] = blocks[i]
      BY <1>4, <1>7, AppendedElements
<1>10. \A i \in 1 .. Len(r) : blocks'[n + i] = r[i]
      BY <1>4, <1>7, AppendedElements
<1> HIDE DEF n
<1>11. /\ \A i, j \in 1 .. n : i <= j => blocks[i].page <= blocks[j].page
       /\ \A i \in 1 .. n : blocks[i].page < next
      BY <1>1 DEF OrderInv, Sorted, n
<1>12. \A i \in 1 .. Len(blocks') :
         \/ i \in 1 .. n /\ blocks'[i].page = blocks[i].page
         \/ i > n /\ blocks'[i].page = next
  <2>1. TAKE i \in 1 .. Len(blocks')
  <2>2. CASE i > n
    <3>1. i - n \in 1 .. Len(r) /\ n + (i - n) = i
          BY <1>5, <1>8, <2>2 DEF n
    <3> QED
      BY <1>6, <1>10, <2>2, <3>1
  <2>3. CASE ~ (i > n)
    <3>1. i \in 1 .. n
          BY <1>5, <1>8, <2>3 DEF n
    <3> QED
      BY <1>9, <3>1
  <2> QED
    BY <2>2, <2>3
<1>13. Sorted(blocks)' /\ \A i \in 1 .. Len(blocks') : blocks'[i].page <= next
  <2>1. next \in Int /\ n \in Nat /\ Len(blocks') \in Nat
        BY <1>3, <1>5, <1>8 DEF n
  <2>2. \A i \in 1 .. Len(blocks') : blocks'[i].page <= next
        BY <1>5, <1>11, <1>12, <2>1 DEF n
  <2>3. ASSUME NEW i \in 1 .. Len(blocks'), NEW j \in 1 .. Len(blocks'), i <= j
        PROVE  blocks'[i].page <= blocks'[j].page
    <3>1. CASE j > n
          BY <1>12, <2>1, <2>2, <3>1
    <3>2. CASE ~ (j > n)
          BY <1>11, <1>12, <2>1, <2>3, <3>2
    <3> QED
      BY <3>1, <3>2
  <2> QED
    BY <2>2, <2>3 DEF Sorted
<1>14. \A p \in Pages : p <= next /\ results[p] # <<>> => Kept(p)'
  <2>1. SUFFICES ASSUME NEW p \in Pages, p <= next, results[p] # <<>> PROVE Kept(p)'
        OBVIOUS
  <2>2. CASE p < next
    <3>1. PICK i \in 1 .. Len(blocks) :
            /\ blocks[i].page = p
            /\ Written(p) /\ p \notin replaced => blocks[i].origin = "digital"
          BY <1>1, <2>1, <2>2 DEF OrderInv, Kept
    <3>2. i \in 1 .. Len(blocks') /\ blocks'[i] = blocks[i]
          BY <1>5, <1>8, <1>9 DEF n
    <3> QED
      BY <1>1, <1>2, <3>1, <3>2 DEF Kept
  <2>3. CASE p = next
    <3>1. r # <<>>
          BY <2>1, <2>3 DEF r
    <3>2. 1 \in 1 .. Len(r)
          BY <1>4, <1>5, <3>1, EmptySeq
    <3>3. n + 1 \in 1 .. Len(blocks') /\ blocks'[n + 1] = r[1] /\ r[1].page = p
          BY <1>5, <1>6, <1>8, <1>10, <2>3, <3>2 DEF n
    <3>4. Written(p) => r[1].origin = "digital"
          BY <1>1, <2>3 DEF OrderInv, r
    <3> QED
      BY <1>2, <3>3, <3>4 DEF Kept
  <2> QED
    BY <1>3, <2>1, <2>2, <2>3
<1>15. finished = Pages /\ finished' = Pages'
      BY <1>1, <1>2 DEF OrderInv
<1>16. CASE phase' = "assemble" /\ next' = next + 1
  <2>1. /\ \A i \in 1 .. Len(blocks') : blocks'[i].page < next'
        /\ \A p \in Pages : p < next' => p <= next
    <3>1. \A i \in 1 .. Len(blocks') : blocks'[i].page \in Int
          BY <1>3, <1>5, <1>12 DEF n
    <3> QED
      BY <1>3, <1>13, <1>16, <3>1
  <2> QED
    BY <1>1, <1>2, <1>13, <1>14, <1>15, <1>16, <2>1 DEF OrderInv
<1>17. CASE phase' \in {"uoc", "vision"} /\ next = Len(kind)
  <2>1. \A p \in Pages : p <= next
        BY <1>3, <1>17
  <2> QED
    BY <1>1, <1>2, <1>13, <1>14, <1>15, <1>17, <2>1 DEF OrderInv
<1> QED
  BY <1>3, <1>16, <1>17

\* A step that leaves the pages alone and every block of an unreplaced page somewhere.
LEMMA KeptKept ==
  ASSUME NEW p, UNCHANGED kind, replaced \subseteq replaced', Kept(p),
         \A i \in 1 .. Len(blocks) : blocks[i].page = p =>
           \E k \in 1 .. Len(blocks') : blocks'[k] = blocks[i]
  PROVE  Kept(p)'
BY DEF Kept, Written

\* The blocks before the first one of the page are those of earlier pages.
LEMMA InsertAtMeans ==
  ASSUME TypeOK, Sorted(blocks), NEW p \in Int,
         \E i \in 1 .. Len(blocks) : blocks[i].page = p
  PROVE  /\ \A i \in 1 .. InsertAt(p) : blocks[i].page <= p
         /\ \A i \in InsertAt(p) + 1 .. Len(blocks) : p <= blocks[i].page
<1> DEFINE At == {i \in DOMAIN blocks : blocks[i].page = p}
           c == CHOOSE i \in At : \A j \in At : i <= j
<1>1. Len(blocks) \in Nat /\ DOMAIN blocks = 1 .. Len(blocks)
      /\ \A i \in 1 .. Len(blocks) : blocks[i].page \in Int
      BY BlockFacts DEF TypeOK
<1>2. At # {} /\ At \in SUBSET Nat
      BY <1>1
<1>3. c \in At
  <2>1. \E i \in At : \A j \in At : i <= j
        BY <1>2, LeastNatural
  <2> QED
    BY <2>1
<1>4. InsertAt(p) = c - 1
      BY <1>2 DEF InsertAt
<1>5. c \in 1 .. Len(blocks) /\ blocks[c].page = p
      BY <1>1, <1>3
<1> HIDE DEF c
<1>6. \A i \in 1 .. c - 1 : blocks[i].page <= p
      BY <1>1, <1>5 DEF Sorted
<1>7. \A i \in c .. Len(blocks) : p <= blocks[i].page
      BY <1>1, <1>5 DEF Sorted
<1> QED
  BY <1>1, <1>4, <1>5, <1>6, <1>7

LEMMA UocDeliversOrder == ASSUME IInv, OrderInv, UocDelivers PROVE OrderInv'
<1> DEFINE cut == InsertAt(FirstOcrPage)
           b == [page |-> FirstOcrPage, origin |-> "unlimited_ocr"]
<1>1. UNCHANGED <<kind, finished, results, next, replaced>>
      /\ phase = "uoc" /\ phase' = "index"
      BY DEF UocDelivers, docVars, pageVars
<1>2. Pages' = Pages /\ OcrPages' = OcrPages /\ \A q : Written(q)' = Written(q)
      BY <1>1 DEF Pages, OcrPages, Written
<1>3. FirstOcrPage \in OcrPages /\ FirstOcrPage \in Pages /\ FirstOcrPage \in 1 .. MaxPages
  <2>1. OcrPages # {}
        BY <1>1 DEF IInv, PhaseInv
  <2> QED
    BY <2>1, FirstIsOcrPage, DocFacts DEF IInv
<1>4. finished = Pages /\ Sorted(blocks) /\ \A p \in Pages : results[p] # <<>> => Kept(p)
      BY <1>1 DEF OrderInv
<1>5. \E i \in 1 .. Len(blocks) : blocks[i].page = FirstOcrPage
  <2>1. results[FirstOcrPage] # <<>>
        BY <1>3, <1>4 DEF OrderInv
  <2> QED
    BY <1>3, <1>4, <2>1 DEF Kept
<1>6. blocks \in Seq(Block) /\ b \in Block /\ cut \in 0 .. Len(blocks)
  <2>1. cut \in 0 .. Len(blocks) /\ blocks \in Seq(Block)
        BY InsertAtType DEF IInv, TypeOK
  <2>2. b \in Block
        BY <1>3 DEF Block, Origin
  <2> QED
    BY <2>1, <2>2
<1>7. blocks' = Spliced(blocks, cut, b, cut)
      BY DEF UocDelivers, Insert, Spliced, On
<1>8. /\ \A i \in 1 .. cut : blocks[i].page <= FirstOcrPage
      /\ \A i \in cut + 1 .. Len(blocks) : FirstOcrPage <= blocks[i].page
      BY <1>3, <1>4, <1>5, InsertAtMeans DEF IInv
<1>9. b.page = FirstOcrPage
      OBVIOUS
<1> HIDE DEF cut, b
<1>10. Sorted(blocks')
      BY <1>4, <1>6, <1>7, <1>8, <1>9, SplicedSorted
<1>11. \A p \in Pages : results[p] # <<>> => Kept(p)'
  <2>1. SUFFICES ASSUME NEW p \in Pages, results[p] # <<>> PROVE Kept(p)'
        OBVIOUS
  <2>2. ASSUME NEW i \in 1 .. Len(blocks)
        PROVE  \E k \in 1 .. Len(blocks') : blocks'[k] = blocks[i]
    <3>1. i <= cut \/ i > cut
          BY <1>6
    <3>2. \E k \in 1 .. Len(Spliced(blocks, cut, b, cut)) :
            Spliced(blocks, cut, b, cut)[k] = blocks[i]
          BY <1>6, <3>1, SplicedKeeps, ZenonT(40)
    <3> QED
      BY <1>7, <3>2
  <2> QED
    BY <1>1, <1>4, <2>1, <2>2, KeptKept
<1>12. Sorted(blocks)'
      BY <1>10 DEF Sorted
<1> QED
  BY <1>1, <1>2, <1>4, <1>11, <1>12 DEF OrderInv

LEMMA FallbackRunsOrder == ASSUME IInv, OrderInv, FallbackRuns PROVE OrderInv'
<1>1. UNCHANGED <<kind, finished, results, next, replaced>>
      /\ phase = "fallback" /\ phase' = "index"
      BY DEF FallbackRuns, docVars, pageVars
<1>2. Pages' = Pages /\ OcrPages' = OcrPages /\ \A q : Written(q)' = Written(q)
      BY <1>1 DEF Pages, OcrPages, Written
<1>3. finished = Pages /\ Sorted(blocks) /\ \A p \in Pages : results[p] # <<>> => Kept(p)
      BY <1>1 DEF OrderInv
<1>4. FirstOcrPage \in 1 .. MaxPages /\ blocks \in Seq(Block)
  <2>1. OcrPages # {}
        BY <1>1 DEF IInv, PhaseInv
  <2> QED
    BY <2>1, FirstIsOcrPage, DocFacts DEF IInv, TypeOK
<1> DEFINE b == [page |-> FirstOcrPage, origin |-> "tuple"]
<1>5. blocks' = blocks \/ blocks' = blocks \o <<b>>
      BY <1>4 DEF FallbackRuns, On
<1>6. CASE blocks' = blocks
  <2>1. Sorted(blocks)' = Sorted(blocks) /\ \A p : Kept(p)' = Kept(p)
        BY <1>1, <1>6 DEF Sorted, Kept, Written
  <2> QED
    BY <1>1, <1>2, <1>3, <2>1 DEF OrderInv
<1>7. CASE blocks' = blocks \o <<b>>
  <2>1. <<b>> \in Seq(Block) /\ Len(<<b>>) = 1
    <3>1. b \in Block
          BY <1>4 DEF Block, Origin
    <3> QED
      BY <3>1
  <2>2. Len(blocks) \in Nat /\ blocks' \in Seq(Block)
        BY <1>4, <1>7, <2>1, BlockFacts, AppendedElements
  <2>3. Len(blocks') = Len(blocks) + 1
        BY <1>4, <1>7, <2>1, AppendedElements
  <2>4. \A i \in 1 .. Len(blocks) : blocks'[i] = blocks[i]
        BY <1>4, <1>7, <2>1, AppendedElements
  <2>5. blocks'[Len(blocks) + 1].origin = "tuple"
    <3>1. \A i \in 1 .. Len(<<b>>) : (blocks \o <<b>>)[Len(blocks) + i] = <<b>>[i]
          BY <1>4, <2>1, AppendedElements
    <3> QED
      BY <1>7, <2>1, <3>1
  <2>6. DOMAIN blocks' = 1 .. Len(blocks')
        BY <2>2, BlockFacts
  <2>7. \E i \in DOMAIN blocks' : blocks'[i].origin = "tuple"
        BY <2>2, <2>3, <2>5, <2>6
  <2>8. \A p \in Pages : results[p] # <<>> => Kept(p)'
    <3>1. \A i \in 1 .. Len(blocks) : \E k \in 1 .. Len(blocks') : blocks'[k] = blocks[i]
          BY <2>2, <2>3, <2>4
    <3> QED
      BY <1>1, <1>3, <3>1, KeptKept
  <2> QED
    BY <1>1, <1>2, <1>3, <2>7, <2>8 DEF OrderInv
<1> QED
  BY <1>5, <1>6, <1>7

LEMMA VisionOrder == ASSUME IInv, OrderInv, Vision PROVE OrderInv'
<1> DEFINE m == Upto(next - 1)
           n == Upto(next)
           b == [page |-> next, origin |-> "marker"]
<1>1. UNCHANGED <<kind, finished, results>> /\ phase = "vision" /\ phase' = "vision"
      BY DEF Vision, docVars, pageVars
<1>2. Pages' = Pages /\ OcrPages' = OcrPages /\ \A q : Written(q)' = Written(q)
      BY <1>1 DEF Pages, OcrPages, Written
<1>3. finished = Pages /\ Sorted(blocks) /\ \A p \in Pages : results[p] # <<>> => Kept(p)
      BY <1>1 DEF OrderInv
<1>4. CASE UNCHANGED <<replaced, blocks>>
  <2>1. Sorted(blocks)' = Sorted(blocks) /\ \A p : Kept(p)' = Kept(p)
        BY <1>1, <1>4 DEF Sorted, Kept, Written
  <2> QED
    BY <1>1, <1>2, <1>3, <2>1 DEF OrderInv
<1>5. CASE /\ next \in LowText /\ replaced' = replaced \cup {next}
           /\ blocks' = Spliced(blocks, m, b, n)
  <2>1. next \in Pages /\ Pages \subseteq 1 .. MaxPages
        BY <1>5, DocFacts DEF IInv
  <2>2. blocks \in Seq(Block) /\ m \in 0 .. Len(blocks) /\ n \in 0 .. Len(blocks)
        BY UptoType DEF IInv, TypeOK
  <2>3. b \in Block /\ b.page = next
        BY <2>1 DEF Block, Origin
  <2>4. \A i \in 1 .. Len(blocks) : i <= m <=> blocks[i].page <= next - 1
    <3>1. next - 1 \in Int
          BY <2>1
    <3> QED
      BY <1>3, <2>2, <3>1, UptoMeans
  <2>5. \A i \in 1 .. Len(blocks) : i <= n <=> blocks[i].page <= next
    <3>1. next \in Int
          BY <2>1
    <3> QED
      BY <1>3, <2>2, <3>1, UptoMeans
  <2>6. Len(blocks) \in Nat /\ \A i \in 1 .. Len(blocks) : blocks[i].page \in 1 .. MaxPages
        BY <2>2, BlockFacts
  <2> HIDE DEF m, n, b
  <2>7. Sorted(blocks')
    <3>1. \A i \in 1 .. m : blocks[i].page <= b.page
          BY <2>1, <2>2, <2>3, <2>4, <2>6
    <3>2. \A i \in n + 1 .. Len(blocks) : b.page <= blocks[i].page
          BY <2>1, <2>2, <2>3, <2>5, <2>6
    <3> QED
      BY <1>3, <1>5, <2>2, <2>3, <3>1, <3>2, SplicedSorted
  <2>8. ASSUME NEW q \in Pages, q = next PROVE Kept(q)'
    <3>1. Len(blocks') = m + 1 + (Len(blocks) - n)
          BY <1>5, <2>2, <2>3, SplicedElements
    <3>2. blocks'[m + 1] = b
      <4>1. Spliced(blocks, m, b, n)[m + 1] = b
            BY <2>2, <2>3, SplicedElements
      <4> QED
        BY <1>5, <4>1
    <3>3. m + 1 \in 1 .. Len(blocks') /\ blocks'[m + 1].page = q
          BY <2>2, <2>3, <2>6, <2>8, <3>1, <3>2
    <3>4. q \in replaced'
          BY <1>5, <2>8
    <3> QED
      BY <3>3, <3>4 DEF Kept
  <2>9. \A p \in Pages : results[p] # <<>> => Kept(p)'
    <3>1. SUFFICES ASSUME NEW p \in Pages, results[p] # <<>>, p # next PROVE Kept(p)'
          BY <2>8
    <3>2. ASSUME NEW i \in 1 .. Len(blocks), blocks[i].page = p
          PROVE  \E k \in 1 .. Len(blocks') : blocks'[k] = blocks[i]
      <4>1. i <= m \/ i > n
            BY <2>1, <2>2, <2>4, <2>5, <3>1, <3>2
      <4> QED
        BY <1>5, <2>2, <2>3, <4>1, SplicedKeeps
    <3>3. Kept(p) /\ replaced \subseteq replaced' /\ UNCHANGED kind
          BY <1>1, <1>3, <1>5, <3>1
    <3> QED
      BY <3>2, <3>3, KeptKept
  <2>10. Sorted(blocks)'
        BY <2>7 DEF Sorted
  <2> QED
    BY <1>1, <1>2, <1>3, <2>9, <2>10 DEF OrderInv
<1>6. \/ UNCHANGED <<replaced, blocks>>
      \/ /\ next \in LowText /\ replaced' = replaced \cup {next}
         /\ blocks' = Spliced(blocks, m, b, n)
      BY DEF Vision, Rebuilt, Spliced, On
<1> QED
  BY <1>4, <1>5, <1>6

LEMMA StepOrder == ASSUME IInv, OrderInv, [Next]_vars PROVE OrderInv'
<1>1. CASE UNCHANGED vars
  <2>1. /\ Pages' = Pages /\ OcrPages' = OcrPages /\ Sorted(blocks)' = Sorted(blocks)
        /\ \A p : Written(p)' = Written(p) /\ Kept(p)' = Kept(p)
        BY <1>1 DEF vars, docVars, pageVars, Pages, OcrPages, Sorted, Written, Kept
  <2> QED
    BY <1>1, <2>1 DEF OrderInv, vars, docVars, pageVars
<1>2. CASE \E p \in Pages : ProcessPage(p)
      BY <1>2, ProcessPageOrder
<1>3. CASE Assemble \/ UocDelivers \/ FallbackRuns \/ Vision
      BY <1>3, AssembleOrder, UocDeliversOrder, FallbackRunsOrder, VisionOrder
<1>4. CASE \/ Open \/ Decide \/ UocYieldsNothing \/ UocRejected \/ UocDiscarded
           \/ FallbackRaises \/ Reindex \/ VisionEnds \/ Report
      BY <1>4, QuietOrder
<1> QED
  BY <1>1, <1>2, <1>3, <1>4 DEF Next

\* The order invariant holds of every reachable state: what a phase of execute leaves
\* to the next one about the pages' blocks.
THEOREM Order == Spec => []OrderInv
<1>1. Init => OrderInv
      BY InitOrder
<1>2. IInv /\ OrderInv /\ [Next]_vars => OrderInv'
      BY StepOrder
<1> QED
  BY <1>1, <1>2, Invariant, PTL DEF Spec

\* A finished document is in page order, whatever order the threads completed in and
\* wherever OCR text was inserted or a page rebuilt (PDFParser.execute).
THEOREM PageOrder == Spec => []InPageOrder
<1>1. ASSUME IInv, OrderInv PROVE InPageOrder
  <2>1. DOMAIN blocks = 1 .. Len(blocks)
        BY <1>1, BlockFacts DEF IInv, TypeOK
  <2> QED
    BY <1>1, <2>1 DEF OrderInv, InPageOrder, Sorted
<1> QED
  BY <1>1, Invariant, Order, PTL

\* No phase after the extraction loses a page's content (PDFParser.execute).
THEOREM PagesKept == Spec => []NoPageLost
<1>1. ASSUME IInv, OrderInv PROVE NoPageLost
  <2>1. DOMAIN blocks = 1 .. Len(blocks)
        BY <1>1, BlockFacts DEF IInv, TypeOK
  <2> QED
    BY <1>1, <2>1 DEF OrderInv, NoPageLost, Kept, Written
<1> QED
  BY <1>1, Invariant, Order, PTL
=============================================================================
