--------------------------- MODULE Outputs_proofs ---------------------------
(***************************************************************************)
(* Proofs about what a compile hands on: the readiness score (Readiness),    *)
(* for every document, whatever number of pages it has and whatever the      *)
(* validators measure of it; and the package (Packaging), for every document *)
(* and profile, and whichever writes fail.                                   *)
(***************************************************************************)
EXTENDS Readiness, Packaging, FiniteSetTheorems, SequenceTheorems, TLAPS

-----------------------------------------------------------------------------
(* Induction, and functions defined by recursion *)

\* A set of naturals with 0 and the successor of each of its members has them all.
LEMMA Induction ==
  ASSUME NEW T \in SUBSET Nat, 0 \in T, \A n \in T : n + 1 \in T
  PROVE  T = Nat
<1> SUFFICES ASSUME Nat \ T # {} PROVE FALSE
    OBVIOUS
<1> DEFINE U == Nat \ T
<1>1. PICK x \in U : \A y \in U : ~(<<y, x>> \in OpToRel(<, Nat))
  <2>1. U \subseteq Nat /\ U # {}
        OBVIOUS
  <2> HIDE DEF U
  <2> QED
    BY <2>1, NatLessThanWellFounded, WFMin
<1>2. x \in Nat /\ x # 0 /\ x - 1 \in Nat
      OBVIOUS
<1>3. <<x - 1, x>> \in OpToRel(<, Nat)
      BY <1>2 DEF OpToRel
<1>4. x - 1 \in T
      BY <1>1, <1>2, <1>3
<1>5. x \in T
      BY <1>2, <1>4, x = (x - 1) + 1
<1> QED
  BY <1>5

\* The functions that start with base and go on with g.
Recursive(V, N, base, g) ==
  {f \in [0 .. N -> V] : f[0] = base /\ \A n \in 1 .. N : f[n] = g[<<f[n - 1], n>>]}

LEMMA Recursion ==
  ASSUME NEW V, NEW N \in Nat, NEW base \in V, NEW g \in [V \X (1 .. N) -> V]
  PROVE  Recursive(V, N, base, g) # {}
<1> DEFINE Steps(f, m) == f[0] = base /\ \A n \in 1 .. m : f[n] = g[<<f[n - 1], n>>]
           T == {m \in Nat : m <= N => \E f \in [0 .. m -> V] : Steps(f, m)}
<1>1. 0 \in T
  <2>1. [n \in 0 .. 0 |-> base] \in [0 .. 0 -> V] /\ Steps([n \in 0 .. 0 |-> base], 0)
        OBVIOUS
  <2> QED
    BY <2>1
<1>2. ASSUME NEW m \in T PROVE m + 1 \in T
  <2> SUFFICES ASSUME m + 1 <= N PROVE \E f \in [0 .. m + 1 -> V] : Steps(f, m + 1)
      OBVIOUS
  <2>1. PICK f \in [0 .. m -> V] : Steps(f, m)
        OBVIOUS
  <2> DEFINE h == [n \in 0 .. m + 1 |-> IF n = m + 1 THEN g[<<f[m], m + 1>>] ELSE f[n]]
  <2>2. m \in Nat /\ f[m] \in V /\ g[<<f[m], m + 1>>] \in V
        OBVIOUS
  <2>3. \A n \in 0 .. m + 1 : n # m + 1 => n \in 0 .. m
        BY <2>2
  <2>4. h \in [0 .. m + 1 -> V]
        BY <2>2, <2>3
  <2>5. \A n \in 0 .. m : h[n] = f[n]
        BY <2>2
  <2>6. h[m + 1] = g[<<h[m], m + 1>>]
    <3>1. m \in 0 .. m /\ m + 1 \in 0 .. m + 1
          BY <2>2
    <3>2. h[m + 1] = g[<<f[m], m + 1>>]
          BY <3>1
    <3>3. h[m] = f[m]
          BY <2>5, <3>1
    <3> QED
      BY <3>2, <3>3
  <2>7. h[0] = base
        BY <2>1, <2>2, <2>5
  <2>8. \A n \in 1 .. m : h[n] = g[<<h[n - 1], n>>]
    <3>1. \A n \in 1 .. m : n \in 0 .. m /\ n - 1 \in 0 .. m
          BY <2>2
    <3> QED
      BY <2>1, <2>5, <3>1
  <2>9. \A n \in 1 .. m + 1 : n = m + 1 \/ n \in 1 .. m
        BY <2>2
  <2> HIDE DEF h
  <2>10. Steps(h, m + 1)
    <3>1. \A n \in 1 .. m + 1 : h[n] = g[<<h[n - 1], n>>]
      <4> TAKE n \in 1 .. m + 1
      <4>1. CASE n = m + 1
        <5>1. n - 1 = m
              BY <2>2, <4>1
        <5> QED
          BY <2>6, <4>1, <5>1
      <4>2. CASE n \in 1 .. m
            BY <2>8, <4>2
      <4> QED
        BY <2>9, <4>1, <4>2
    <3> QED
      BY <2>7, <3>1
  <2> QED
    BY <2>4, <2>10
<1>3. N \in T
  <2> HIDE DEF T
  <2>1. T \in SUBSET Nat
        BY DEF T
  <2> QED
    BY <1>1, <1>2, <2>1, Induction
<1> QED
  BY <1>3 DEF Recursive

-----------------------------------------------------------------------------
(* The rules and their caps *)

RuleNames == {Rules[i] : i \in 1 .. 21}

LEMMA RulesAre ==
  /\ DOMAIN Rules = 1 .. 21 /\ Len(Rules) = 21
  /\ \A i \in 1 .. 21 : Rules[i] \in RuleNames
BY DEF Rules, RuleNames

LEMMA CapsAre ==
  /\ Caps = {"W_MULTICOLUMN_ORDER", "W_HEADER_FOOTER_TABLE_GARBLED", "W_TABLE_MISSING",
             "W_ENCODING_ARTIFACTS", "W_IMAGE_ONLY_TEXT_BAR_FAIL",
             "W_TABLE_EXPECTED_NOT_EXTRACTED"}
  /\ \A c \in Caps : CapAt[c] \in 69 .. 84
  /\ Caps \subseteq Codes
BY DEF Caps, CapAt, Codes

LEMMA CapsAreRules == \A c \in Caps : \E i \in 1 .. 21 : Rules[i] = c
BY CapsAre DEF Rules

LEMMA RuleNamesAre ==
  RuleNames = Caps \cup
              {"PARSE_ERRORS", "MISSING_PAGE", "LARGE_BLOCK", "HEADING_ISSUES",
               "IMAGE_PLACEHOLDER_NO_FALLBACK", "OCR_REQUIRED", "OCR_ATTEMPTED_SPARSE",
               "NEAR_EMPTY_OUTPUT", "LOW_TEXT_DENSITY", "GLYPH_ARTIFACTS",
               "REPEATED_CONTENT", "TOKEN_BLOAT", "NO_HEADINGS_MULTIPAGE",
               "COL_GENERIC_TABLES", "NO_TEXT_IN_IMAGE"}
BY CapsAre DEF RuleNames, Rules

-----------------------------------------------------------------------------
(* No rule adds to the score, and a cap that fires brings it down to the cap *)

LEMMA Interval ==
  ASSUME NEW n \in Nat
  PROVE  IsFiniteSet(1 .. n)
<1>1. 1 \in Int /\ n \in Int
      OBVIOUS
<1>2. /\ IsFiniteSet(1 .. n)
      /\ Cardinality(1 .. n) = IF 1 > n THEN 0 ELSE n - 1 + 1
      BY <1>1, FS_Interval
<1> QED
  BY <1>2

LEMMA GenericTablesType ==
  ASSUME NEW d \in Documents
  PROVE  GenericTables(d) \in Nat
<1> DEFINE S == {x \in (DOMAIN d.content) \X (1..3) :
                   x[2] \in DOMAIN d.content[x[1]].tables /\ d.content[x[1]].tables[x[2]].generic}
<1>1. IsFiniteSet(DOMAIN d.content) /\ IsFiniteSet(1..3)
  <2>1. IsFiniteSet(1..3)
        BY Interval
  <2>2. IsFiniteSet(DOMAIN d.content)
        BY DocumentsAssumption DEF DocumentsAssumption
  <2> QED
    BY <2>1, <2>2
<1>2. IsFiniteSet((DOMAIN d.content) \X (1..3))
      BY <1>1, FS_Product
<1>3. IsFiniteSet(S)
      BY <1>2, FS_Subset
<1> QED
  BY <1>3, FS_CardinalityType DEF GenericTables

LEMMA UnreadType ==
  ASSUME NEW d \in Documents
  PROVE  Unread(d) \in Nat
<1>1. d.pages \in Nat /\ d.imagePages \in Nat
      BY DocumentsAssumption DEF DocumentsAssumption
<1>2. AtLeast(d.pages, 1) \in Nat \ {0}
      BY <1>1 DEF AtLeast
<1>3. ASSUME NEW m \in Nat, NEW n \in Nat \ {0} PROVE m \div n \in Nat
      BY <1>3
<1>4. 40 * d.imagePages \in Nat
      BY <1>1
<1>5. (40 * d.imagePages) \div AtLeast(d.pages, 1) \in Nat
      BY <1>2, <1>3, <1>4
<1> QED
  BY <1>5 DEF Unread, AtMost

LEMMA PenaltyType ==
  ASSUME NEW d \in Documents, NEW w \in [Codes -> Nat], NEW s \in Int, NEW r \in RuleNames
  PROVE  Penalty(r, d, w, s) \in Nat
<1>1. /\ w["PARSE_ERROR"] \in Nat /\ w["MISSING_PAGE"] \in Nat /\ w["LARGE_BLOCK"] \in Nat
      /\ w["HEADING_SKIP"] \in Nat /\ w["HEADING_HIERARCHY"] \in Nat
      BY DEF Codes
<1>2. ParseErrors(w) \in Nat /\ LargeBlocks(w) \in Nat /\ Headings(w) \in Nat
      BY <1>1 DEF ParseErrors, LargeBlocks, Headings, HeadingCount, AtMost
<1>3. Missing(d, w) \in Nat
      BY <1>1 DEF Missing, AtMost
<1>4. \A n \in Int : Above(s, n) \in Nat
      BY DEF Above, AtLeast
<1>5. AtMost(5, 2 * GenericTables(d)) \in Nat
      BY GenericTablesType DEF AtMost
<1>6. CASE r \in Caps
  <2>1. CapAt[r] \in Int
        BY <1>6, CapsAre
  <2> QED
    BY <1>4, <1>6, <2>1, CapsAre DEF Penalty
<1>7. CASE r \notin Caps
      BY <1>2, <1>3, <1>4, <1>5, <1>7, RuleNamesAre, UnreadType DEF Penalty
<1> QED
  BY <1>6, <1>7

\* Neither a penalty nor a suppression raises a score; a cap that fires leaves it at
\* the cap or below.
LEMMA DeductLowers ==
  ASSUME NEW d \in Documents, NEW w \in [Codes -> Nat], NEW s \in Int, NEW r \in RuleNames
  PROVE  /\ Deduct(s, r, d, w) \in Int /\ Deduct(s, r, d, w) <= s
         /\ r \in Caps /\ w[r] > 0 => Deduct(s, r, d, w) <= CapAt[r]
<1>1. Deduct(s, r, d, w) \in Int /\ Deduct(s, r, d, w) <= s
      BY PenaltyType DEF Deduct
<1>2. ASSUME r \in Caps, w[r] > 0 PROVE Deduct(s, r, d, w) <= CapAt[r]
  <2>1. CapAt[r] \in Int
        BY <1>2, CapsAre
  <2>2. Fires(r, d, w)
        BY <1>2, CapsAre DEF Fires
  <2>3. Suppressed(r, d, w, s) <=> s <= CapAt[r]
        BY <1>2, CapsAre DEF Suppressed
  <2>4. Penalty(r, d, w, s) = Above(s, CapAt[r])
        BY <1>2, CapsAre DEF Penalty
  <2> QED
    BY <2>1, <2>2, <2>3, <2>4 DEF Deduct, Above, AtLeast
<1> QED
  BY <1>1, <1>2

-----------------------------------------------------------------------------
(* Types *)

Labels == {"structure", "table_expectation", "multicolumn", "header_footer",
           "table_missing", "encoding", "score", "scored"}

Deductions == [rule : RuleNames, penalty : Nat, suppressed : BOOLEAN]

TypeOK ==
  /\ doc \in Documents
  /\ pc \in Labels
  /\ issues \in [Codes -> Nat]
  /\ next \in 0 .. 22
  /\ score \in Int
  /\ deductions \in Seq(Deductions)
  /\ pc = "scored" => score \in 0 .. 100

\* What a validator reports are counts.
Counts(found) == \A c \in DOMAIN found : found[c] \in Nat

LEMMA OfType ==
  ASSUME NEW found, Counts(found), NEW c
  PROVE  Of(found, c) \in Nat
BY DEF Of, Counts

LEMMA FlagType == \A p : Flag(p) \in Nat
BY DEF Flag

LEMMA StructureCounts ==
  ASSUME doc \in Documents
  PROVE  Counts(Found)
<1>1. /\ doc.pages \in Nat /\ doc.large \in Nat /\ doc.blank \in Nat /\ Len(doc.levels) \in Nat
      BY DocumentsAssumption DEF DocumentsAssumption
<1>2. Cardinality(Skips) \in Nat
  <2>1. IsFiniteSet(2 .. Len(doc.levels))
        BY <1>1, FS_Interval
  <2> QED
    BY <2>1, FS_Subset, FS_CardinalityType DEF Skips
<1>3. MissingPages \in Nat
  <2> DEFINE S == {p \in 1 .. doc.pages : p \notin Pages \/ ~doc.content[p].blocks}
  <2>1. IsFiniteSet(1 .. doc.pages)
        BY <1>1, Interval
  <2>2. IsFiniteSet(S)
        BY <2>1, FS_Subset
  <2> QED
    BY <2>2, FS_CardinalityType DEF MissingPages
<1>4. Counts(HeadingIssues)
      BY <1>2, FlagType DEF HeadingIssues, Counts
<1>5. Counts(PageIssues)
      BY <1>1, <1>3 DEF PageIssues, Counts
<1>6. Counts(TextIssues)
      BY FlagType DEF TextIssues, Counts
<1>7. Counts(OcrIssues)
      BY FlagType DEF OcrIssues, Counts
<1> QED
  <2>1. \A c \in Codes : /\ Of(HeadingIssues, c) \in Nat /\ Of(PageIssues, c) \in Nat
                         /\ Of(TextIssues, c) \in Nat /\ Of(OcrIssues, c) \in Nat
        BY <1>4, <1>5, <1>6, <1>7, OfType
  <2> QED
    BY <2>1 DEF Found, Counts

LEMMA ValidateType ==
  ASSUME TypeOK, NEW name \in Labels \ {"score", "scored"}, NEW then \in Labels \ {"scored"},
         NEW found, Counts(found), Validate(name, then, found)
  PROVE  TypeOK'
<1>1. issues' \in [Codes -> Nat]
      BY OfType DEF Validate, Warn, TypeOK
<1> QED
  BY <1>1 DEF Validate, TypeOK
LEMMA ValidatorsType ==
  ASSUME TypeOK, Structure \/ TableExpectation \/ MultiColumn \/ HeaderFooter
                 \/ TableMissing \/ Encoding
  PROVE  TypeOK'
<1>1. CASE Structure
  <2>1. Counts(Found)
        BY StructureCounts DEF TypeOK
  <2>2. Counts([EMPTY_DOCUMENT |-> 1])
        BY DEF Counts
  <2>3. Counts(IF doc.empty THEN [EMPTY_DOCUMENT |-> 1] ELSE Found)
        BY <2>1, <2>2
  <2> QED
    BY <1>1, <2>3, ValidateType DEF Structure, Labels
<1>2. CASE TableExpectation
  <2>1. IsFiniteSet(Pages)
        BY DocumentsAssumption DEF DocumentsAssumption, TypeOK, Pages
  <2>2. Cardinality(Undelivered) \in Nat
        BY <2>1, FS_Subset, FS_CardinalityType DEF Undelivered
  <2>3. Counts([W_TABLE_EXPECTED_NOT_EXTRACTED |-> Cardinality(Undelivered)])
        BY <2>2 DEF Counts
  <2> QED
    BY <1>2, <2>3, ValidateType DEF TableExpectation, Labels
<1>3. CASE MultiColumn
  <2>1. \A p : Counts([W_MULTICOLUMN_ORDER |-> Flag(p)])
        BY FlagType DEF Counts
  <2> QED
    BY <1>3, <2>1, ValidateType DEF MultiColumn, Labels
<1>4. CASE HeaderFooter
  <2>1. \A p : Counts([W_HEADER_FOOTER_TABLE_GARBLED |-> Flag(p)])
        BY FlagType DEF Counts
  <2> QED
    BY <1>4, <2>1, ValidateType DEF HeaderFooter, Labels
<1>5. CASE TableMissing
  <2>1. \A p : Counts([W_TABLE_MISSING |-> Flag(p)])
        BY FlagType DEF Counts
  <2> QED
    BY <1>5, <2>1, ValidateType DEF TableMissing, Labels
<1>6. CASE Encoding
  <2>1. \A p : Counts([W_ENCODING_ARTIFACTS |-> Flag(p)])
        BY FlagType DEF Counts
  <2> QED
    BY <1>6, <2>1, ValidateType DEF Encoding, Labels
<1> QED
  BY <1>1, <1>2, <1>3, <1>4, <1>5, <1>6

LEMMA StartType == TypeOK /\ StartScore => TypeOK'
<1> SUFFICES ASSUME TypeOK, StartScore PROVE TypeOK'
    OBVIOUS
<1>1. \A type : Base(type) \in Int
      BY DEF Base
<1> QED
  BY <1>1 DEF StartScore, TypeOK, Labels

LEMMA SuppressedType ==
  ASSUME NEW r, NEW d, NEW w, NEW s
  PROVE  Suppressed(r, d, w, s) \in BOOLEAN
<1>1. CASE r \in {"NEAR_EMPTY_OUTPUT", "LOW_TEXT_DENSITY"}
      BY <1>1, CapsAre DEF Suppressed, Deducted
<1>2. CASE r \in Caps
      BY <1>2, CapsAre DEF Suppressed
<1>3. CASE r \notin Caps \cup {"NEAR_EMPTY_OUTPUT", "LOW_TEXT_DENSITY"}
      BY <1>3 DEF Suppressed
<1> QED
  BY <1>1, <1>2, <1>3

LEMMA ApplyType == TypeOK /\ ApplyRule => TypeOK'
<1> SUFFICES ASSUME TypeOK, ApplyRule PROVE TypeOK'
    OBVIOUS
<1> DEFINE r == Rules[next]
           x == [rule |-> r, penalty |-> Penalty(r, doc, issues, score),
                 suppressed |-> Suppressed(r, doc, issues, score)]
<1>1. next \in 1 .. 21 /\ next' = next + 1 /\ pc' = pc /\ pc = "score"
      BY RulesAre DEF ApplyRule
<1>2. r \in RuleNames
      BY <1>1, RulesAre
<1>3. score' \in Int
      BY <1>2, DeductLowers DEF ApplyRule, TypeOK
<1>4. deductions' \in Seq(Deductions)
  <2>1. Suppressed(r, doc, issues, score) \in BOOLEAN
        BY SuppressedType
  <2>2. x \in Deductions
        BY <1>2, <2>1, PenaltyType DEF Deductions, TypeOK
  <2>3. deductions' = Append(deductions, x) \/ deductions' = deductions
        BY DEF ApplyRule
  <2> HIDE DEF x
  <2> QED
    BY <2>2, <2>3 DEF TypeOK
<1> QED
  BY <1>1, <1>3, <1>4 DEF ApplyRule, TypeOK

LEMMA FinishType == TypeOK /\ Finish => TypeOK'
BY DEF Finish, TypeOK, Labels, Clamp, AtLeast, AtMost

-----------------------------------------------------------------------------
(* The score in one go, and what the deductions leave *)

LEMMA BaseType == \A type : Base(type) \in Int
BY DEF Base

LEMMA ScoreAfter_Steps ==
  ASSUME NEW d \in Documents, NEW w \in [Codes -> Nat]
  PROVE  /\ ScoreAfter(d, w) \in [0 .. 21 -> Int]
         /\ ScoreAfter(d, w)[0] = Base(d.type)
         /\ \A n \in 1 .. 21 :
              ScoreAfter(d, w)[n] = Deduct(ScoreAfter(d, w)[n - 1], Rules[n], d, w)
<1> DEFINE P(f) == f = [n \in 0 .. Len(Rules) |->
                          IF n = 0 THEN Base(d.type) ELSE Deduct(f[n - 1], Rules[n], d, w)]
           g == [x \in Int \X (1 .. 21) |-> Deduct(x[1], Rules[x[2]], d, w)]
<1>1. g \in [Int \X (1 .. 21) -> Int]
  <2>1. \A s \in Int, n \in 1 .. 21 : Deduct(s, Rules[n], d, w) \in Int
        BY RulesAre, DeductLowers
  <2> QED
    BY <2>1
<1>2. PICK f \in [0 .. 21 -> Int] :
        f[0] = Base(d.type) /\ \A n \in 1 .. 21 : f[n] = g[<<f[n - 1], n>>]
  <2>1. 21 \in Nat /\ Base(d.type) \in Int
        BY BaseType
  <2> HIDE DEF g
  <2>2. Recursive(Int, 21, Base(d.type), g) # {}
        BY <1>1, <2>1, Recursion
  <2> QED
    BY <2>2 DEF Recursive
<1>3. \A n \in 1 .. 21 : n - 1 \in 0 .. 21 /\ f[n] = Deduct(f[n - 1], Rules[n], d, w)
      BY <1>2
<1>4. \A n \in 0 .. 21 : f[n] = IF n = 0 THEN Base(d.type) ELSE Deduct(f[n - 1], Rules[n], d, w)
  <2>1. \A n \in 0 .. 21 : n = 0 \/ n \in 1 .. 21
        OBVIOUS
  <2> QED
    BY <1>2, <1>3, <2>1
<1>5. P(f)
      BY <1>2, <1>4, RulesAre
<1>6. ScoreAfter(d, w) = CHOOSE h : P(h)
      BY DEF ScoreAfter
<1>7. P(ScoreAfter(d, w))
  <2> HIDE DEF P
  <2> QED
    BY <1>5, <1>6
<1> DEFINE sc == ScoreAfter(d, w)
<1>8. sc = [n \in 0 .. 21 |-> IF n = 0 THEN Base(d.type) ELSE Deduct(sc[n - 1], Rules[n], d, w)]
      BY <1>7, RulesAre
<1> HIDE DEF sc
<1>9. sc[0] = Base(d.type) /\ \A n \in 1 .. 21 : sc[n] = Deduct(sc[n - 1], Rules[n], d, w)
  <2>1. 0 \in 0 .. 21 /\ \A n \in 1 .. 21 : n \in 0 .. 21 /\ n # 0
        OBVIOUS
  <2> QED
    BY <1>8, <2>1
\* Every score is an integer, by induction.
<1>10. \A n \in 0 .. 21 : sc[n] \in Int
  <2> DEFINE T == {n \in Nat : n <= 21 => sc[n] \in Int}
  <2>1. 0 \in T
        BY <1>9, BaseType
  <2>2. ASSUME NEW n \in T PROVE n + 1 \in T
    <3> SUFFICES ASSUME n + 1 <= 21 PROVE sc[n + 1] \in Int
        OBVIOUS
    <3>1. n + 1 \in 1 .. 21 /\ (n + 1) - 1 = n /\ sc[n] \in Int
          OBVIOUS
    <3>2. sc[n + 1] = Deduct(sc[n], Rules[n + 1], d, w)
          BY <1>9, <3>1
    <3> QED
      BY <3>1, <3>2, RulesAre, DeductLowers
  <2>3. T = Nat
    <3>1. T \in SUBSET Nat
          OBVIOUS
    <3> HIDE DEF T
    <3> QED
      BY <2>1, <2>2, <3>1, Induction
  <2> QED
    BY <2>3
<1>11. sc \in [0 .. 21 -> Int]
       BY <1>8, <1>10
<1> QED
  BY <1>9, <1>11 DEF sc

LEMMA Remains_Steps ==
  ASSUME NEW base \in Int, NEW ds \in Seq(Deductions)
  PROVE  /\ Remains(base, ds)[0] = base
         /\ \A n \in 1 .. Len(ds) :
              Remains(base, ds)[n]
                = Remains(base, ds)[n - 1] - (IF ds[n].suppressed THEN 0 ELSE ds[n].penalty)
<1> DEFINE Off(n) == IF ds[n].suppressed THEN 0 ELSE ds[n].penalty
           P(f) == f = [n \in 0 .. Len(ds) |-> IF n = 0 THEN base ELSE f[n - 1] - Off(n)]
           g == [x \in Int \X (1 .. Len(ds)) |-> x[1] - Off(x[2])]
<1>1. Len(ds) \in Nat
      BY LenProperties
<1>2. g \in [Int \X (1 .. Len(ds)) -> Int]
  <2>1. ASSUME NEW n \in 1 .. Len(ds) PROVE Off(n) \in Int
    <3>1. ds[n] \in Deductions
          BY ElementOfSeq
    <3> QED
      BY <3>1 DEF Deductions
  <2> HIDE DEF Off
  <2> QED
    BY <2>1
<1>3. PICK f \in [0 .. Len(ds) -> Int] :
        f[0] = base /\ \A n \in 1 .. Len(ds) : f[n] = g[<<f[n - 1], n>>]
  <2> HIDE DEF g
  <2>1. Recursive(Int, Len(ds), base, g) # {}
        BY <1>1, <1>2, Recursion
  <2> QED
    BY <2>1 DEF Recursive
<1> HIDE DEF Off
<1>4. \A n \in 1 .. Len(ds) : n - 1 \in 0 .. Len(ds) /\ f[n] = f[n - 1] - Off(n)
  <2> TAKE n \in 1 .. Len(ds)
  <2>1. n - 1 \in 0 .. Len(ds) /\ f[n - 1] \in Int
        BY <1>1
  <2>2. f[n] = g[<<f[n - 1], n>>]
        BY <1>3
  <2> QED
    BY <2>1, <2>2
<1>5. \A n \in 0 .. Len(ds) : f[n] = IF n = 0 THEN base ELSE f[n - 1] - Off(n)
  <2>1. \A n \in 0 .. Len(ds) : n = 0 \/ n \in 1 .. Len(ds)
        BY <1>1
  <2> QED
    BY <1>3, <1>4, <2>1
<1>6. P(f)
      BY <1>3, <1>5
<1>7. Remains(base, ds) = CHOOSE h : P(h)
      BY DEF Remains, Off
<1>8. P(Remains(base, ds))
  <2> HIDE DEF P
  <2> QED
    BY <1>6, <1>7
<1> DEFINE re == Remains(base, ds)
<1>9. re = [n \in 0 .. Len(ds) |-> IF n = 0 THEN base ELSE re[n - 1] - Off(n)]
      BY <1>8
<1> HIDE DEF re
<1>10. re[0] = base /\ \A n \in 1 .. Len(ds) : re[n] = re[n - 1] - Off(n)
  <2>1. 0 \in 0 .. Len(ds) /\ \A n \in 1 .. Len(ds) : n \in 0 .. Len(ds) /\ n # 0
        BY <1>1
  <2> QED
    BY <1>9, <2>1
<1> QED
  BY <1>10 DEF re, Off

\* One more deduction takes its penalty off what the others leave, unless it is
\* suppressed.
LEMMA Remains_Append ==
  ASSUME NEW base \in Int, NEW ds \in Seq(Deductions), NEW x \in Deductions
  PROVE  LET more == Append(ds, x) IN
         Remains(base, more)[Len(more)]
           = Remains(base, ds)[Len(ds)] - (IF x.suppressed THEN 0 ELSE x.penalty)
<1> DEFINE more == Append(ds, x)
           old == Remains(base, ds)
           new == Remains(base, more)
           T == {m \in Nat : m <= Len(ds) => new[m] = old[m]}
<1>1. /\ Len(ds) \in Nat /\ more \in Seq(Deductions) /\ Len(more) = Len(ds) + 1
      /\ \A i \in 1 .. Len(ds) : more[i] = ds[i]
      /\ more[Len(ds) + 1] = x
      BY LenProperties, AppendProperties
<1> HIDE DEF more
<1>2. /\ old[0] = base
      /\ \A n \in 1 .. Len(ds) :
           old[n] = old[n - 1] - (IF ds[n].suppressed THEN 0 ELSE ds[n].penalty)
      BY Remains_Steps
<1>3. /\ new[0] = base
      /\ \A n \in 1 .. Len(ds) + 1 :
           new[n] = new[n - 1] - (IF more[n].suppressed THEN 0 ELSE more[n].penalty)
  <2>1. /\ new[0] = base
        /\ \A n \in 1 .. Len(more) :
             new[n] = new[n - 1] - (IF more[n].suppressed THEN 0 ELSE more[n].penalty)
        BY <1>1, Remains_Steps
  <2> QED
    BY <1>1, <2>1
<1> HIDE DEF old, new
<1>4. 0 \in T
      BY <1>2, <1>3
<1>5. ASSUME NEW m \in T PROVE m + 1 \in T
  <2> SUFFICES ASSUME m + 1 <= Len(ds) PROVE new[m + 1] = old[m + 1]
      OBVIOUS
  <2>1. /\ m + 1 \in 1 .. Len(ds) /\ m + 1 \in 1 .. Len(ds) + 1 /\ (m + 1) - 1 = m
        /\ new[m] = old[m]
        BY <1>1
  <2> QED
    BY <1>1, <1>2, <1>3, <2>1
<1>6. T = Nat
  <2>1. T \in SUBSET Nat
        OBVIOUS
  <2> HIDE DEF T
  <2> QED
    BY <1>4, <1>5, <2>1, Induction
<1>7. new[Len(ds)] = old[Len(ds)]
      BY <1>1, <1>6
<1>8. Len(ds) + 1 \in 1 .. Len(ds) + 1 /\ (Len(ds) + 1) - 1 = Len(ds)
      BY <1>1
<1> QED
  BY <1>1, <1>3, <1>7, <1>8 DEF old, new, more

-----------------------------------------------------------------------------
(* Less in the report, no lower score *)

\* The report less has no more of any issue than more has, and as much of the two
\* that suppress others.
Fewer(less, more) ==
  /\ \A c \in Codes : less[c] <= more[c]
  /\ \A c \in {"OCR_REQUIRED", "NEAR_EMPTY_OUTPUT"} : less[c] = more[c]

LEMMA Fires_Fewer ==
  ASSUME NEW d \in Documents, NEW w \in [Codes -> Nat], NEW v \in [Codes -> Nat],
         Fewer(v, w), NEW r \in RuleNames, Fires(r, d, v)
  PROVE  Fires(r, d, w)
<1>1. \A c \in Codes : v[c] \in Nat /\ w[c] \in Nat /\ v[c] <= w[c] /\ (v[c] > 0 => w[c] > 0)
      BY DEF Fewer
<1>2. v["OCR_REQUIRED"] = w["OCR_REQUIRED"] /\ v["NEAR_EMPTY_OUTPUT"] = w["NEAR_EMPTY_OUTPUT"]
      BY DEF Fewer
<1>3. SparseOcr(d, v) <=> SparseOcr(d, w)
      BY <1>2 DEF SparseOcr
<1>4. HeadingCount(v) > 0 => HeadingCount(w) > 0
  <2>1. "HEADING_SKIP" \in Codes /\ "HEADING_HIERARCHY" \in Codes
        BY DEF Codes
  <2> QED
    BY <1>1, <2>1 DEF HeadingCount
<1>5. CASE r \in Codes
      BY <1>1, <1>2, <1>5 DEF Fires, Codes
<1>6. CASE r \notin Codes
  <2>1. r \in {"PARSE_ERRORS", "HEADING_ISSUES", "IMAGE_PLACEHOLDER_NO_FALLBACK",
               "OCR_ATTEMPTED_SPARSE", "NO_HEADINGS_MULTIPAGE", "COL_GENERIC_TABLES",
               "NO_TEXT_IN_IMAGE"}
        BY <1>6, CapsAre, RuleNamesAre DEF Codes
  <2>2. "PARSE_ERROR" \in Codes
        BY DEF Codes
  <2> QED
    BY <1>1, <1>2, <1>3, <1>4, <2>1, <2>2 DEF Fires
<1> QED
  BY <1>5, <1>6

\* The rules that take the same off every score.
Flat == RuleNames \ (Caps \cup {"IMAGE_PLACEHOLDER_NO_FALLBACK"})

LEMMA Penalty_Fewer ==
  ASSUME NEW d \in Documents, NEW w \in [Codes -> Nat], NEW v \in [Codes -> Nat],
         Fewer(v, w), NEW r \in Flat, NEW s \in Int, NEW t \in Int
  PROVE  Penalty(r, d, v, t) <= Penalty(r, d, w, s)
<1>1. \A c \in {"PARSE_ERROR", "MISSING_PAGE", "LARGE_BLOCK", "HEADING_SKIP",
                "HEADING_HIERARCHY"} : v[c] \in Nat /\ w[c] \in Nat /\ v[c] <= w[c]
      BY DEF Fewer, Codes
<1>2. ParseErrors(v) <= ParseErrors(w)
      BY <1>1 DEF ParseErrors, AtMost
<1>3. Missing(d, v) <= Missing(d, w)
  <2>1. d.pages \in Nat
        BY DocumentsAssumption DEF DocumentsAssumption
  <2> QED
    BY <1>1, <2>1 DEF Missing, AtMost
<1>4. LargeBlocks(v) <= LargeBlocks(w)
      BY <1>1 DEF LargeBlocks, AtMost
<1>5. Headings(v) <= Headings(w)
      BY <1>1 DEF Headings, HeadingCount, AtMost
<1>6. r \in RuleNames /\ r \notin Caps /\ r # "IMAGE_PLACEHOLDER_NO_FALLBACK"
      BY DEF Flat
<1>7. Unread(d) <= Unread(d) /\ AtMost(5, 2 * GenericTables(d)) <= AtMost(5, 2 * GenericTables(d))
      BY UnreadType, GenericTablesType DEF AtMost
<1>8. CASE r \in {"PARSE_ERRORS", "MISSING_PAGE", "LARGE_BLOCK", "HEADING_ISSUES"}
  <2>1. CASE r = "PARSE_ERRORS"
        BY <1>2, <2>1, <1>6 DEF Penalty
  <2>2. CASE r = "MISSING_PAGE"
        BY <1>3, <2>2, <1>6 DEF Penalty
  <2>3. CASE r = "LARGE_BLOCK"
        BY <1>4, <2>3, <1>6 DEF Penalty
  <2>4. CASE r = "HEADING_ISSUES"
        BY <1>5, <2>4, <1>6 DEF Penalty
  <2> QED
    BY <1>8, <2>1, <2>2, <2>3, <2>4
<1>9. CASE r \in {"OCR_REQUIRED", "OCR_ATTEMPTED_SPARSE"}
      BY <1>7, <1>9, <1>6 DEF Penalty
<1>10. CASE r = "COL_GENERIC_TABLES"
       BY <1>7, <1>10, <1>6 DEF Penalty
<1>11. CASE r \in {"NEAR_EMPTY_OUTPUT", "LOW_TEXT_DENSITY", "GLYPH_ARTIFACTS",
                   "REPEATED_CONTENT", "TOKEN_BLOAT", "NO_HEADINGS_MULTIPAGE",
                   "NO_TEXT_IN_IMAGE"}
       BY <1>11, <1>6 DEF Penalty
<1> QED
  BY <1>6, <1>8, <1>9, <1>10, <1>11, RuleNamesAre

\* What is left of the higher score with less in the report is not lower.
LEMMA Deduct_Fewer ==
  ASSUME NEW d \in Documents, NEW w \in [Codes -> Nat], NEW v \in [Codes -> Nat],
         Fewer(v, w), NEW r \in RuleNames, NEW s \in Int, NEW t \in Int, s <= t
  PROVE  Deduct(s, r, d, w) <= Deduct(t, r, d, v)
<1>0. Fires(r, d, v) => Fires(r, d, w)
      BY Fires_Fewer
<1>1. CASE r \in Flat
  <2>1. Penalty(r, d, v, t) <= Penalty(r, d, w, s)
        BY <1>1, Penalty_Fewer
  <2>2. Penalty(r, d, v, t) \in Nat /\ Penalty(r, d, w, s) \in Nat
        BY PenaltyType
  <2>3. Suppressed(r, d, w, s) <=> Suppressed(r, d, v, t)
    <3>2. r \notin Caps
          BY <1>1 DEF Flat
    <3>3. CASE r \in {"NEAR_EMPTY_OUTPUT", "LOW_TEXT_DENSITY"}
          BY <3>2, <3>3 DEF Suppressed, Deducted, SparseOcr, Fewer
    <3>4. CASE r \notin {"NEAR_EMPTY_OUTPUT", "LOW_TEXT_DENSITY"}
          BY <3>2, <3>4 DEF Suppressed
    <3> QED
      BY <3>3, <3>4
  <2> QED
    BY <1>0, <2>1, <2>2, <2>3 DEF Deduct
<1>2. CASE r = "IMAGE_PLACEHOLDER_NO_FALLBACK"
  <2>1. Fires(r, d, w) <=> Fires(r, d, v)
        BY <1>2 DEF Fires, Fewer
  <2>2. \A u : \A x \in Int : ~Suppressed(r, d, u, x) /\ Penalty(r, d, u, x) = Above(x, 55)
        BY <1>2, CapsAre DEF Suppressed, Penalty
  <2> QED
    BY <2>1, <2>2 DEF Deduct, Above, AtLeast
<1>3. CASE r \in Caps
  <2>1. CapAt[r] \in Int
        BY <1>3, CapsAre
  <2>2. \A u : \A x \in Int : /\ Suppressed(r, d, u, x) <=> x <= CapAt[r]
                              /\ Penalty(r, d, u, x) = Above(x, CapAt[r])
        BY <1>3, CapsAre DEF Suppressed, Penalty
  <2> QED
    BY <1>0, <2>1, <2>2 DEF Deduct, Above, AtLeast
<1> QED
  BY <1>1, <1>2, <1>3 DEF Flat

LEMMA Readiness_Fewer ==
  ASSUME NEW d \in Documents, NEW w \in [Codes -> Nat], NEW v \in [Codes -> Nat], Fewer(v, w)
  PROVE  Readiness(d, w) <= Readiness(d, v)
<1> DEFINE a == ScoreAfter(d, w)
           b == ScoreAfter(d, v)
           T == {n \in Nat : n <= 21 => a[n] <= b[n]}
<1>1. /\ a \in [0 .. 21 -> Int] /\ a[0] = Base(d.type)
      /\ \A n \in 1 .. 21 : a[n] = Deduct(a[n - 1], Rules[n], d, w)
      BY ScoreAfter_Steps
<1>2. /\ b \in [0 .. 21 -> Int] /\ b[0] = Base(d.type)
      /\ \A n \in 1 .. 21 : b[n] = Deduct(b[n - 1], Rules[n], d, v)
      BY ScoreAfter_Steps
<1> HIDE DEF a, b
<1>3. 0 \in T
      BY <1>1, <1>2, BaseType
<1>4. ASSUME NEW n \in T PROVE n + 1 \in T
  <2> SUFFICES ASSUME n + 1 <= 21 PROVE a[n + 1] <= b[n + 1]
      OBVIOUS
  <2>1. n + 1 \in 1 .. 21 /\ (n + 1) - 1 = n /\ n \in 0 .. 21 /\ a[n] <= b[n]
        OBVIOUS
  <2>2. a[n + 1] = Deduct(a[n], Rules[n + 1], d, w) /\ b[n + 1] = Deduct(b[n], Rules[n + 1], d, v)
        BY <1>1, <1>2, <2>1
  <2>3. a[n] \in Int /\ b[n] \in Int /\ Rules[n + 1] \in RuleNames
        BY <1>1, <1>2, <2>1, RulesAre
  <2> QED
    BY <2>1, <2>2, <2>3, Deduct_Fewer
<1>5. T = Nat
  <2>1. T \in SUBSET Nat
        OBVIOUS
  <2> HIDE DEF T
  <2> QED
    BY <1>3, <1>4, <2>1, Induction
<1>6. a[21] <= b[21] /\ a[21] \in Int /\ b[21] \in Int
      BY <1>1, <1>2, <1>5
<1>7. Clamp(a[21]) <= Clamp(b[21])
      BY <1>6 DEF Clamp, AtLeast, AtMost
<1> QED
  BY <1>7, RulesAre DEF Readiness, a, b

-----------------------------------------------------------------------------
(* The caps *)

\* The caps of the rules that have run hold, and nothing after them raises a score;
\* a document without tokens has no rules applied to it.
CapsSoFar ==
  \A i \in 1 .. 21 :
    i < next /\ Rules[i] \in Caps /\ issues[Rules[i]] > 0 => score <= CapAt[Rules[i]]

RulesDone ==
  /\ pc = "scored" /\ doc.tokens # 0 => next = 22
  /\ pc \notin {"score", "scored"} => next = 0

\* No rule has run before the first.
NothingDeducted == next = 0 => deductions = <<>>

\* The running score is what the deductions so far leave of the base, and what the
\* rules so far make of the document with these warnings.
ScoreSoFar ==
  /\ pc = "score" /\ next > 0 =>
       /\ doc.tokens # 0
       /\ score = Remains(Base(doc.type), deductions)[Len(deductions)]
       /\ score = ScoreAfter(doc, issues)[next - 1]
  /\ pc = "scored" /\ doc.tokens # 0 =>
       /\ score = Clamp(Remains(Base(doc.type), deductions)[Len(deductions)])
       /\ score = Readiness(doc, issues)

IInv == /\ TypeOK /\ RulesDone /\ (doc.tokens # 0 => CapsSoFar)
        /\ NothingDeducted /\ ScoreSoFar

LEMMA ApplyCaps ==
  ASSUME TypeOK, CapsSoFar, ApplyRule
  PROVE  CapsSoFar'
<1>1. /\ next \in 1 .. 21 /\ next' = next + 1 /\ issues' = issues
      /\ score' = Deduct(score, Rules[next], doc, issues)
      BY RulesAre DEF ApplyRule
<1>2. Rules[next] \in RuleNames
      BY <1>1, RulesAre
<1>3. /\ score' \in Int /\ score' <= score
      /\ Rules[next] \in Caps /\ issues[Rules[next]] > 0 => score' <= CapAt[Rules[next]]
      BY <1>1, <1>2, DeductLowers DEF TypeOK
<1> SUFFICES ASSUME NEW i \in 1 .. 21, i < next + 1, Rules[i] \in Caps, issues[Rules[i]] > 0
             PROVE  score' <= CapAt[Rules[i]]
    BY <1>1 DEF CapsSoFar
<1>4. CASE i = next
      BY <1>3, <1>4
<1>5. CASE i < next
  <2>1. score <= CapAt[Rules[i]] /\ CapAt[Rules[i]] \in Int
        BY <1>5, CapsAre DEF CapsSoFar
  <2> QED
    BY <1>3, <2>1 DEF TypeOK
<1> QED
  BY <1>1, <1>4, <1>5 DEF TypeOK

LEMMA FinishCaps ==
  ASSUME TypeOK, CapsSoFar, Finish
  PROVE  CapsSoFar'
<1>1. next' = next /\ issues' = issues /\ score' = Clamp(score)
      BY DEF Finish
<1>2. \A n \in 69 .. 84 : score <= n => Clamp(score) <= n
      BY DEF Clamp, AtLeast, AtMost, TypeOK
<1> QED
  BY <1>1, <1>2, CapsAre DEF CapsSoFar

LEMMA StartSoFar ==
  ASSUME TypeOK, NothingDeducted, StartScore
  PROVE  NothingDeducted' /\ ScoreSoFar'
<1>1. /\ pc = "score" /\ next' = 1 /\ deductions' = <<>> /\ doc' = doc /\ issues' = issues
      BY DEF StartScore, NothingDeducted
<1>2. CASE doc.tokens = 0
      BY <1>1, <1>2 DEF StartScore, NothingDeducted, ScoreSoFar
<1>3. CASE doc.tokens # 0
  <2>1. score' = Base(doc.type) /\ pc' = pc
        BY <1>3 DEF StartScore
  <2>2. Remains(Base(doc.type), <<>>)[0] = Base(doc.type)
    <3>1. <<>> \in Seq(Deductions)
          OBVIOUS
    <3> QED
      BY <3>1, BaseType, Remains_Steps
  <2>3. ScoreAfter(doc, issues)[0] = Base(doc.type)
        BY ScoreAfter_Steps DEF TypeOK
  <2>4. Len(<<>>) = 0 /\ 1 - 1 = 0
        OBVIOUS
  <2> QED
    BY <1>1, <1>3, <2>1, <2>2, <2>3, <2>4 DEF NothingDeducted, ScoreSoFar
<1> QED
  BY <1>2, <1>3

LEMMA ApplySoFar ==
  ASSUME TypeOK, ScoreSoFar, ApplyRule
  PROVE  NothingDeducted' /\ ScoreSoFar'
<1> DEFINE r == Rules[next]
           x == [rule |-> r, penalty |-> Penalty(r, doc, issues, score),
                 suppressed |-> Suppressed(r, doc, issues, score)]
           base == Base(doc.type)
<1>1. /\ next \in 1 .. 21 /\ next' = next + 1 /\ pc = "score" /\ pc' = "score"
      /\ doc' = doc /\ issues' = issues /\ score' = Deduct(score, r, doc, issues)
      BY RulesAre DEF ApplyRule
<1>2. /\ doc.tokens # 0 /\ score = Remains(base, deductions)[Len(deductions)]
      /\ score = ScoreAfter(doc, issues)[next - 1]
      BY <1>1 DEF ScoreSoFar
<1>3. score' = ScoreAfter(doc, issues)[next' - 1]
  <2>1. ScoreAfter(doc, issues)[next] = Deduct(ScoreAfter(doc, issues)[next - 1], r, doc, issues)
        BY <1>1, ScoreAfter_Steps DEF TypeOK
  <2>2. next' - 1 = next
        BY <1>1
  <2> QED
    BY <1>1, <1>2, <2>1, <2>2
<1>4. score' = Remains(base, deductions')[Len(deductions')]
  <2>1. CASE Fires(r, doc, issues)
    <3>1. deductions' = Append(deductions, x)
          BY <2>1 DEF ApplyRule
    <3>2. x \in Deductions
          BY <1>1, RulesAre, PenaltyType, SuppressedType DEF Deductions, TypeOK
    <3>3. Remains(base, deductions')[Len(deductions')]
            = Remains(base, deductions)[Len(deductions)]
              - (IF x.suppressed THEN 0 ELSE x.penalty)
      <4> HIDE DEF x
      <4> QED
        BY <3>1, <3>2, BaseType, Remains_Append DEF TypeOK
    <3>4. score' = score - (IF x.suppressed THEN 0 ELSE x.penalty)
      <4>1. score \in Int
            BY DEF TypeOK
      <4>2. CASE Suppressed(r, doc, issues, score)
            BY <1>1, <4>1, <4>2 DEF Deduct
      <4>3. CASE ~Suppressed(r, doc, issues, score)
            BY <1>1, <2>1, <4>3 DEF Deduct
      <4> QED
        BY <4>2, <4>3
    <3> QED
      BY <1>2, <3>3, <3>4
  <2>2. CASE ~Fires(r, doc, issues)
        BY <1>1, <1>2, <2>2 DEF ApplyRule, Deduct
  <2> QED
    BY <2>1, <2>2
<1> QED
  BY <1>1, <1>2, <1>3, <1>4 DEF NothingDeducted, ScoreSoFar

LEMMA FinishSoFar ==
  ASSUME TypeOK, ScoreSoFar, Finish
  PROVE  NothingDeducted' /\ ScoreSoFar'
<1>1. /\ next = 22 /\ next' = 22 /\ pc = "score" /\ pc' = "scored"
      /\ UNCHANGED <<doc, issues, deductions>> /\ score' = Clamp(score)
      BY RulesAre DEF Finish
<1>2. /\ score = Remains(Base(doc.type), deductions)[Len(deductions)]
      /\ score = ScoreAfter(doc, issues)[21]
      BY <1>1 DEF ScoreSoFar
<1>3. Readiness(doc, issues) = Clamp(score)
      BY <1>2, RulesAre DEF Readiness
<1> QED
  BY <1>1, <1>2, <1>3 DEF NothingDeducted, ScoreSoFar

LEMMA InitIInv == Init => IInv
<1> SUFFICES ASSUME Init PROVE IInv
    OBVIOUS
<1>1. doc.errors \in Nat
      BY DocumentsAssumption DEF Init, DocumentsAssumption
<1>2. TypeOK
      BY <1>1 DEF Init, TypeOK, Labels
<1> QED
  BY <1>2 DEF Init, IInv, RulesDone, CapsSoFar, NothingDeducted, ScoreSoFar

LEMMA NextIInv == IInv /\ [Next]_vars => IInv'
<1> SUFFICES ASSUME IInv, [Next]_vars PROVE IInv'
    OBVIOUS
<1> USE DEF IInv
<1>1. CASE Structure \/ TableExpectation \/ MultiColumn \/ HeaderFooter
           \/ TableMissing \/ Encoding
  <2>1. TypeOK'
        BY <1>1, ValidatorsType
  <2>2. next' = 0 /\ next = 0 /\ pc' # "scored" /\ deductions' = deductions
        BY <1>1 DEF Structure, TableExpectation, MultiColumn, HeaderFooter, TableMissing,
                    Encoding, Validate, RulesDone
  <2> QED
    BY <2>1, <2>2 DEF RulesDone, CapsSoFar, NothingDeducted, ScoreSoFar
<1>2. CASE StartScore
  <2>1. TypeOK'
        BY <1>2, StartType
  <2> QED
    BY <1>2, <2>1, StartSoFar DEF StartScore, RulesDone, CapsSoFar
<1>3. CASE ApplyRule
  <2>1. TypeOK'
        BY <1>3, ApplyType
  <2>2. doc' = doc /\ pc = "score" /\ pc' = "score"
        BY <1>3 DEF ApplyRule
  <2> QED
    BY <1>3, <2>1, <2>2, ApplyCaps, ApplySoFar DEF RulesDone
<1>4. CASE Finish
  <2>1. TypeOK'
        BY <1>4, FinishType
  <2>2. doc' = doc /\ next' = 22 /\ pc' = "scored"
        BY <1>4, RulesAre DEF Finish
  <2> QED
    BY <1>4, <2>1, <2>2, FinishCaps, FinishSoFar DEF RulesDone
<1>5. CASE UNCHANGED vars
      BY <1>5 DEF vars, TypeOK, RulesDone, CapsSoFar, NothingDeducted, ScoreSoFar
<1> QED
  BY <1>1, <1>2, <1>3, <1>4, <1>5 DEF Next, Scored

LEMMA Inductive == Spec => []IInv
BY InitIInv, NextIInv, PTL DEF Spec

-----------------------------------------------------------------------------
(* The theorems *)

\* The report holds counts, the rules run in their order, every deduction a user is
\* shown is not negative, and a finished score lies between 0 and 100.
THEOREM TypeCorrect == Spec => []TypeOK
<1>1. IInv => TypeOK
      BY DEF IInv
<1> QED
  BY <1>1, Inductive, PTL

\* A document with the warning of a cap is never graded above that cap, whatever else
\* is wrong with it and whichever rules are suppressed (docs/readiness-score.md,
\* "Caps vs penalties").
THEOREM CapsSound == Spec => []CapsHold
<1>1. IInv => CapsHold
  <2> SUFFICES ASSUME IInv, pc = "scored", doc.tokens # 0, NEW c \in Caps, issues[c] > 0
               PROVE  score <= CapAt[c]
      BY DEF CapsHold
  <2>1. PICK i \in 1 .. 21 : Rules[i] = c
        BY CapsAreRules
  <2>2. next = 22
        BY DEF IInv, RulesDone
  <2> QED
    BY <2>1, <2>2 DEF IInv, CapsSoFar
<1> QED
  BY <1>1, Inductive, PTL

\* The deductions a user is shown, none of the suppressed ones, account for the whole
\* of the difference between the base of the format and the score.
THEOREM ScoreIsExplained == Spec => []ScoreExplained
<1>1. IInv => ScoreExplained
      BY DEF IInv, ScoreSoFar, ScoreExplained
<1> QED
  BY <1>1, Inductive, PTL

\* With one issue less in the report the same document never scores lower, whatever
\* the warning but OCR_REQUIRED and NEAR_EMPTY_OUTPUT, which suppress others.
THEOREM LessIsNotWorse == Spec => []NoWarningHelps
<1>1. IInv => NoWarningHelps
  <2> SUFFICES ASSUME IInv, pc = "scored", doc.tokens # 0,
                      NEW c \in Codes \ {"OCR_REQUIRED", "NEAR_EMPTY_OUTPUT"}, issues[c] > 0
               PROVE  Readiness(doc, [issues EXCEPT ![c] = @ - 1]) >= score
      BY DEF NoWarningHelps
  <2> DEFINE less == [issues EXCEPT ![c] = @ - 1]
  <2>1. issues \in [Codes -> Nat] /\ doc \in Documents /\ score = Readiness(doc, issues)
        /\ score \in Int
        BY DEF IInv, TypeOK, ScoreSoFar
  <2>2. less \in [Codes -> Nat] /\ Fewer(less, issues)
        BY <2>1 DEF Fewer, Codes
  <2>3. Readiness(doc, issues) <= Readiness(doc, less)
        BY <2>1, <2>2, Readiness_Fewer
  <2>4. Readiness(doc, less) \in Int
    <3>1. ScoreAfter(doc, less)[21] \in Int
      <4> HIDE DEF less
      <4>1. ScoreAfter(doc, less) \in [0 .. 21 -> Int]
            BY <2>1, <2>2, ScoreAfter_Steps
      <4> QED
        BY <4>1
    <3> QED
      BY <3>1, RulesAre DEF Readiness, Clamp, AtLeast, AtMost
  <2> QED
    BY <2>1, <2>3, <2>4
<1> QED
  BY <1>1, Inductive, PTL

-----------------------------------------------------------------------------
(*                             THE PACKAGE                                 *)
-----------------------------------------------------------------------------
(* The least and the greatest of a set of numbers, and functions that are   *)
(* defined alike                                                             *)

\* Two functions that start alike and go on alike are the same.
GoAlike(f, h, N) ==
  f[0] = h[0] /\ \A n \in 1 .. N : f[n - 1] = h[n - 1] => f[n] = h[n]

LEMMA SameSteps ==
  ASSUME NEW N \in Nat, NEW f, NEW h, GoAlike(f, h, N)
  PROVE  \A n \in 0 .. N : f[n] = h[n]
<1> USE DEF GoAlike
<1> DEFINE T == {n \in Nat : n <= N => f[n] = h[n]}
<1>1. 0 \in T
      OBVIOUS
<1>2. ASSUME NEW n \in T PROVE n + 1 \in T
  <2> SUFFICES ASSUME n + 1 <= N PROVE f[n + 1] = h[n + 1]
      OBVIOUS
  <2>1. n + 1 \in 1 .. N /\ (n + 1) - 1 = n /\ f[n] = h[n]
        OBVIOUS
  <2> QED
    BY <2>1
<1>3. T = Nat
  <2>1. T \in SUBSET Nat
        OBVIOUS
  <2> HIDE DEF T
  <2> QED
    BY <1>1, <1>2, <2>1, Induction
<1> QED
  BY <1>3

LEMMA MinIs ==
  ASSUME NEW S \in SUBSET Nat, S # {}
  PROVE  Min(S) \in S /\ \A y \in S : Min(S) <= y
<1>1. PICK x \in S : \A y \in S : ~(<<y, x>> \in OpToRel(<, Nat))
      BY NatLessThanWellFounded, WFMin, Zenon
<1>2. \A y \in S : x <= y
  <2> SUFFICES ASSUME NEW y \in S, y < x PROVE FALSE
      OBVIOUS
  <2>1. <<y, x>> \in OpToRel(<, Nat)
        BY DEF OpToRel
  <2> QED
    BY <1>1, <2>1
<1> QED
  BY <1>2 DEF Min

LEMMA MaxIs ==
  ASSUME NEW S \in SUBSET Nat, S # {}, NEW N \in Nat, \A x \in S : x <= N
  PROVE  Max(S) \in S /\ \A y \in S : y <= Max(S)
<1> DEFINE D == {n \in Nat : n <= N /\ N - n \in S}
<1>1. D \in SUBSET Nat /\ D # {}
  <2>1. PICK x \in S : TRUE
        OBVIOUS
  <2>2. N - x \in D
        BY <2>1
  <2> QED
    BY <2>2
<1>2. Min(D) \in D /\ \A d \in D : Min(D) <= d
  <2> HIDE DEF D
  <2> QED
    BY <1>1, MinIs
<1>3. N - Min(D) \in S
      BY <1>2
<1>4. \A y \in S : y <= N - Min(D)
  <2> TAKE y \in S
  <2>1. N - y \in D
        OBVIOUS
  <2>2. Min(D) <= N - y
        BY <1>2, <2>1
  <2>3. Min(D) \in Nat
        BY <1>2
  <2> QED
    BY <2>2, <2>3
<1>5. \E x \in S : \A y \in S : x >= y
      BY <1>3, <1>4
<1> QED
  BY <1>5 DEF Max

-----------------------------------------------------------------------------
(* What is filtered out of a sequence *)

FilteredTo(V, s, S) ==
  {h \in [0 .. Len(s) -> Seq(V)] :
     /\ h[0] = <<>>
     /\ \A n \in 1 .. Len(s) : h[n] = IF s[n] \in S THEN Append(h[n - 1], s[n]) ELSE h[n - 1]
     /\ Filtered(s, S) = h[Len(s)]}

LEMMA FilteredExists ==
  ASSUME NEW V, NEW s \in Seq(V), NEW S
  PROVE  FilteredTo(V, s, S) # {}
<1> DEFINE N == Len(s)
           P(h) == h = [n \in 0 .. N |->
                          IF n = 0 THEN <<>>
                          ELSE IF s[n] \in S THEN Append(h[n - 1], s[n]) ELSE h[n - 1]]
           g == [x \in Seq(V) \X (1 .. N) |-> IF s[x[2]] \in S THEN Append(x[1], s[x[2]]) ELSE x[1]]
<1>0. N \in Nat
      OBVIOUS
<1>1. g \in [Seq(V) \X (1 .. N) -> Seq(V)]
  <2>1. \A t \in Seq(V), k \in 1 .. N : Append(t, s[k]) \in Seq(V)
        OBVIOUS
  <2> QED
    BY <2>1
<1>2. PICK h \in [0 .. N -> Seq(V)] : h[0] = <<>> /\ \A k \in 1 .. N : h[k] = g[<<h[k - 1], k>>]
  <2> HIDE DEF g, N
  <2>1. <<>> \in Seq(V)
        BY EmptySeq
  <2>2. Recursive(Seq(V), N, <<>>, g) # {}
        BY <1>0, <1>1, <2>1, Recursion
  <2> QED
    BY <2>2 DEF Recursive
<1>3. \A k \in 1 .. N : h[k] = IF s[k] \in S THEN Append(h[k - 1], s[k]) ELSE h[k - 1]
  <2> TAKE k \in 1 .. N
  <2>1. k - 1 \in 0 .. N
        OBVIOUS
  <2>2. <<h[k - 1], k>> \in Seq(V) \X (1 .. N)
        BY <2>1
  <2>3. g[<<h[k - 1], k>>] = IF s[k] \in S THEN Append(h[k - 1], s[k]) ELSE h[k - 1]
        BY <2>2
  <2> HIDE DEF g
  <2> QED
    BY <1>2, <2>3
<1>4. P(h)
  <2>1. \A k \in 0 .. N : k = 0 \/ k \in 1 .. N
        OBVIOUS
  <2>2. \A k \in 0 .. N : h[k] = IF k = 0 THEN <<>>
                                 ELSE IF s[k] \in S THEN Append(h[k - 1], s[k]) ELSE h[k - 1]
    <3> TAKE k \in 0 .. N
    <3>1. CASE k = 0
          BY <1>2, <3>1
    <3>2. CASE k \in 1 .. N
      <4>1. k # 0
            BY <3>2
      <4> QED
        BY <1>3, <3>2, <4>1, Zenon
    <3> QED
      BY <2>1, <3>1, <3>2
  <2> QED
    BY <2>2
<1> DEFINE u == CHOOSE x : P(x)
<1>5. P(u)
  <2> HIDE DEF P
  <2> QED
    BY <1>4
<1>6. Filtered(s, S) = u[N]
      BY DEF Filtered
<1>7. \A k \in 0 .. N : u[k] = h[k]
  <2>1. \A k \in 0 .. N : u[k] = IF k = 0 THEN <<>>
                                 ELSE IF s[k] \in S THEN Append(u[k - 1], s[k]) ELSE u[k - 1]
    <3> HIDE DEF u
    <3> QED
      BY <1>5
  <2> HIDE DEF u
  <2>2. u[0] = h[0]
        BY <1>0, <1>2, <2>1
  <2>3. \A k \in 1 .. N : u[k - 1] = h[k - 1] => u[k] = h[k]
    <3> TAKE k \in 1 .. N
    <3>1. k \in 0 .. N /\ k # 0
          OBVIOUS
    <3> QED
      BY <1>3, <2>1, <3>1
  <2>4. N \in Nat /\ GoAlike(u, h, N)
        BY <1>0, <2>2, <2>3 DEF GoAlike
  <2> HIDE DEF N
  <2> QED
    BY <2>4, SameSteps
<1>8. Filtered(s, S) = h[N]
  <2>1. N \in 0 .. N
        BY <1>0
  <2> HIDE DEF u
  <2> QED
    BY <1>6, <1>7, <2>1
<1>9. h \in FilteredTo(V, s, S)
  <2> HIDE DEF P, u, g
  <2> QED
    BY <1>2, <1>3, <1>8 DEF FilteredTo
<1> QED
  BY <1>9

\* Where the members of f stand among the first n of s: f has all of those
\* that are in S, and in their order.
Takes(s, S, n, f) ==
  {m \in [1 .. Len(f) -> 1 .. n] :
     /\ \A k \in 1 .. Len(f) : f[k] = s[m[k]] /\ f[k] \in S
     /\ \A k, l \in 1 .. Len(f) : k < l => m[k] < m[l]
     /\ \A i \in 1 .. n : s[i] \in S => \E k \in 1 .. Len(f) : m[k] = i}

LEMMA TakesOne ==
  ASSUME NEW V, NEW s \in Seq(V), NEW S, NEW n \in Nat, n + 1 <= Len(s),
         NEW f \in Seq(V), Takes(s, S, n, f) # {},
         NEW t, t = IF s[n + 1] \in S THEN Append(f, s[n + 1]) ELSE f
  PROVE  Takes(s, S, n + 1, t) # {}
<1>1. PICK m \in [1 .. Len(f) -> 1 .. n] :
        /\ \A k \in 1 .. Len(f) : f[k] = s[m[k]] /\ f[k] \in S
        /\ \A k, l \in 1 .. Len(f) : k < l => m[k] < m[l]
        /\ \A i \in 1 .. n : s[i] \in S => \E k \in 1 .. Len(f) : m[k] = i
      BY DEF Takes
<1>2. \A i \in 1 .. n + 1 : i = n + 1 \/ i \in 1 .. n
      OBVIOUS
<1>3. CASE s[n + 1] \notin S
  <2>1. t = f /\ m \in [1 .. Len(f) -> 1 .. n + 1]
        BY <1>3
  <2>2. \A i \in 1 .. n + 1 : s[i] \in S => \E k \in 1 .. Len(f) : m[k] = i
        BY <1>1, <1>2, <1>3
  <2>3. m \in Takes(s, S, n + 1, t)
        BY <1>1, <2>1, <2>2 DEF Takes
  <2> QED
    BY <2>3
<1>4. CASE s[n + 1] \in S
  <2> DEFINE L == Len(f)
             q == [k \in 1 .. L + 1 |-> IF k = L + 1 THEN n + 1 ELSE m[k]]
  <2>1. s[n + 1] \in V
        OBVIOUS
  <2>2. /\ Len(t) = L + 1 /\ L \in Nat /\ t[L + 1] = s[n + 1]
        /\ \A k \in 1 .. L : t[k] = f[k]
        BY <1>4, <2>1, AppendProperties
  <2>3. \A k \in 1 .. L + 1 : k = L + 1 \/ k \in 1 .. L
        BY <2>2
  <2>4. \A k \in 1 .. L : k \in 1 .. L + 1 /\ k # L + 1 /\ m[k] \in 1 .. n
        BY <2>2
  <2>5. q[L + 1] = n + 1 /\ \A k \in 1 .. L : q[k] = m[k]
        BY <2>2, <2>4
  <2>6. q \in [1 .. L + 1 -> 1 .. n + 1]
    <3>1. \A k \in 1 .. L : m[k] \in 1 .. n + 1
          BY <2>4
    <3>2. \A k \in 1 .. L + 1 : q[k] \in 1 .. n + 1
          BY <2>3, <2>5, <3>1
    <3> QED
      BY <3>2
  <2> HIDE DEF q
  <2>7. \A k \in 1 .. L + 1 : t[k] = s[q[k]] /\ t[k] \in S
        BY <1>1, <1>4, <2>2, <2>3, <2>5
  <2>8. \A k, l \in 1 .. L + 1 : k < l => q[k] < q[l]
    <3> SUFFICES ASSUME NEW k \in 1 .. L + 1, NEW l \in 1 .. L + 1, k < l PROVE q[k] < q[l]
        OBVIOUS
    <3>1. k \in 1 .. L
          BY <2>2, <2>3
    <3>2. CASE l = L + 1
          BY <2>4, <2>5, <3>1, <3>2
    <3>3. CASE l \in 1 .. L
          BY <1>1, <2>5, <3>1, <3>3
    <3> QED
      BY <2>3, <3>2, <3>3
  <2>9. \A i \in 1 .. n + 1 : s[i] \in S => \E k \in 1 .. L + 1 : q[k] = i
    <3> SUFFICES ASSUME NEW i \in 1 .. n + 1, s[i] \in S PROVE \E k \in 1 .. L + 1 : q[k] = i
        OBVIOUS
    <3>1. CASE i = n + 1
          BY <2>2, <2>5, <3>1
    <3>2. CASE i \in 1 .. n
      <4>1. PICK k \in 1 .. L : m[k] = i
            BY <1>1, <3>2
      <4> QED
        BY <2>4, <2>5, <4>1
    <3> QED
      BY <1>2, <3>1, <3>2
  <2>10. q \in Takes(s, S, n + 1, t)
    <3> HIDE DEF L
    <3> QED
      BY <2>2, <2>6, <2>7, <2>8, <2>9 DEF Takes
  <2> QED
    BY <2>10
<1> QED
  BY <1>3, <1>4

LEMMA FilteredTakes ==
  ASSUME NEW V, NEW s \in Seq(V), NEW S
  PROVE  /\ Filtered(s, S) \in Seq(V)
         /\ Takes(s, S, Len(s), Filtered(s, S)) # {}
<1>0. Len(s) \in Nat
      OBVIOUS
<1>1. PICK h \in [0 .. Len(s) -> Seq(V)] :
        /\ h[0] = <<>>
        /\ \A n \in 1 .. Len(s) : h[n] = IF s[n] \in S THEN Append(h[n - 1], s[n]) ELSE h[n - 1]
        /\ Filtered(s, S) = h[Len(s)]
  <2>1. FilteredTo(V, s, S) # {}
        BY FilteredExists
  <2> QED
    BY <2>1 DEF FilteredTo
<1> DEFINE Here(n) == Takes(s, S, n, h[n]) # {}
           T == {n \in Nat : n <= Len(s) => Here(n)}
<1>2. Here(0)
  <2> DEFINE m == [k \in {} |-> 0]
  <2>1. Len(<<>>) = 0
        BY EmptySeq
  <2>2. m \in Takes(s, S, 0, <<>>)
        BY <2>1 DEF Takes
  <2> QED
    BY <1>1, <2>2
<1>3. ASSUME NEW n \in Nat, n + 1 <= Len(s), Here(n) PROVE Here(n + 1)
  <2>1. n + 1 \in 1 .. Len(s) /\ n \in 0 .. Len(s) /\ (n + 1) - 1 = n
        BY <1>0, <1>3
  <2>2. h[n] \in Seq(V)
        BY <2>1
  <2>3. h[n + 1] = IF s[n + 1] \in S THEN Append(h[n], s[n + 1]) ELSE h[n]
        BY <1>1, <2>1
  <2> QED
    BY <1>3, <2>2, <2>3, TakesOne
<1>4. T = Nat
  <2> HIDE DEF Here
  <2>1. T \in SUBSET Nat
        OBVIOUS
  <2>2. 0 \in T
        BY <1>2
  <2>3. ASSUME NEW n \in T PROVE n + 1 \in T
    <3> SUFFICES ASSUME n + 1 <= Len(s) PROVE Here(n + 1)
        OBVIOUS
    <3>1. n \in Nat /\ Here(n)
          BY <1>0
    <3> QED
      BY <1>3, <3>1
  <2> HIDE DEF T
  <2> QED
    BY <2>1, <2>2, <2>3, Induction
<1>5. Here(Len(s))
      BY <1>0, <1>4
<1>6. h[Len(s)] \in Seq(V)
      BY <1>0
<1> QED
  BY <1>1, <1>5, <1>6

\* The positive members of a bounded set, each once and in order.
LEMMA AscendingIs ==
  ASSUME NEW S \in SUBSET Nat, NEW N \in Nat, \A x \in S : x <= N
  PROVE  /\ Ascending(S) \in Seq(Nat)
         /\ \A k \in 1 .. Len(Ascending(S)) : Ascending(S)[k] \in S \ {0}
         /\ \A k, l \in 1 .. Len(Ascending(S)) : k < l => Ascending(S)[k] < Ascending(S)[l]
         /\ \A x \in S \ {0} : \E k \in 1 .. Len(Ascending(S)) : Ascending(S)[k] = x
<1> DEFINE M == Max(S \cup {0})
           s == [n \in 1 .. M |-> n]
           f == Ascending(S)
<1>1. M \in Nat /\ \A x \in S : x <= M
  <2> DEFINE U == S \cup {0}
  <2>1. U \in SUBSET Nat /\ U # {} /\ \A x \in U : x <= N
        OBVIOUS
  <2> HIDE DEF U
  <2>2. Max(U) \in U /\ \A y \in U : y <= Max(U)
        BY <2>1, MaxIs
  <2> QED
    BY <2>1, <2>2 DEF U
<1> HIDE DEF M
<1>2. s \in Seq(Nat) /\ Len(s) = M /\ \A n \in 1 .. M : s[n] = n
      BY <1>1
<1>3. f = Filtered(s, S)
      BY DEF Ascending, M
<1> HIDE DEF s, f
<1>4. f \in Seq(Nat) /\ Takes(s, S, Len(s), f) # {}
      BY <1>2, <1>3, FilteredTakes
<1>5. PICK m \in [1 .. Len(f) -> 1 .. M] :
        /\ \A k \in 1 .. Len(f) : f[k] = s[m[k]] /\ f[k] \in S
        /\ \A k, l \in 1 .. Len(f) : k < l => m[k] < m[l]
        /\ \A i \in 1 .. M : s[i] \in S => \E k \in 1 .. Len(f) : m[k] = i
  <2>1. PICK m \in Takes(s, S, M, f) : TRUE
        BY <1>2, <1>4
  <2>2. /\ m \in [1 .. Len(f) -> 1 .. M]
        /\ \A k \in 1 .. Len(f) : f[k] = s[m[k]] /\ f[k] \in S
        /\ \A k, l \in 1 .. Len(f) : k < l => m[k] < m[l]
        /\ \A i \in 1 .. M : s[i] \in S => \E k \in 1 .. Len(f) : m[k] = i
        BY <2>1 DEF Takes
  <2> QED
    BY <2>2
<1>6. \A k \in 1 .. Len(f) : f[k] = m[k] /\ m[k] \in 1 .. M
      BY <1>2, <1>5
<1>7. \A k \in 1 .. Len(f) : f[k] \in S \ {0}
      BY <1>1, <1>5, <1>6
<1>8. \A k, l \in 1 .. Len(f) : k < l => f[k] < f[l]
      BY <1>5, <1>6
<1>9. \A x \in S \ {0} : \E k \in 1 .. Len(f) : f[k] = x
  <2> TAKE x \in S \ {0}
  <2>1. x \in 1 .. M
        BY <1>1
  <2>2. PICK k \in 1 .. Len(f) : m[k] = x
        BY <1>2, <1>5, <2>1
  <2> QED
    BY <1>6, <2>2
<1> QED
  BY <1>4, <1>7, <1>8, <1>9 DEF f

ConcatTo(S, s) ==
  {h \in [0 .. Len(s) -> Seq(S)] :
     /\ h[0] = <<>>
     /\ \A n \in 1 .. Len(s) : h[n] = h[n - 1] \o s[n]
     /\ Concat(s) = h[Len(s)]}

LEMMA ConcatExists ==
  ASSUME NEW S, NEW s \in Seq(Seq(S))
  PROVE  ConcatTo(S, s) # {}
<1> DEFINE N == Len(s)
           P(h) == h = [n \in 0 .. N |-> IF n = 0 THEN <<>> ELSE h[n - 1] \o s[n]]
           g == [x \in Seq(S) \X (1 .. N) |-> x[1] \o s[x[2]]]
<1>0. N \in Nat /\ \A k \in 1 .. N : s[k] \in Seq(S)
      OBVIOUS
<1> HIDE DEF N
<1>1. g \in [Seq(S) \X (1 .. N) -> Seq(S)]
  <2>1. \A t \in Seq(S), k \in 1 .. N : t \o s[k] \in Seq(S)
        BY <1>0, ConcatProperties
  <2> QED
    BY <2>1
<1>2. PICK h \in [0 .. N -> Seq(S)] : h[0] = <<>> /\ \A k \in 1 .. N : h[k] = g[<<h[k - 1], k>>]
  <2> HIDE DEF g
  <2>1. <<>> \in Seq(S)
        BY EmptySeq
  <2>2. Recursive(Seq(S), N, <<>>, g) # {}
        BY <1>0, <1>1, <2>1, Recursion
  <2> QED
    BY <2>2 DEF Recursive
<1>3. \A k \in 1 .. N : h[k] = h[k - 1] \o s[k]
  <2> TAKE k \in 1 .. N
  <2>1. k - 1 \in 0 .. N
        BY <1>0
  <2>2. <<h[k - 1], k>> \in Seq(S) \X (1 .. N)
        BY <2>1
  <2>3. g[<<h[k - 1], k>>] = h[k - 1] \o s[k]
        BY <2>2
  <2> HIDE DEF g
  <2> QED
    BY <1>2, <2>3
<1>4. P(h)
  <2>1. \A k \in 0 .. N : k = 0 \/ k \in 1 .. N
        BY <1>0
  <2>2. \A k \in 0 .. N : h[k] = IF k = 0 THEN <<>> ELSE h[k - 1] \o s[k]
    <3> TAKE k \in 0 .. N
    <3>1. CASE k = 0
          BY <1>2, <3>1
    <3>2. CASE k \in 1 .. N
      <4>1. k # 0
            BY <3>2
      <4> QED
        BY <1>3, <3>2, <4>1, Zenon
    <3> QED
      BY <2>1, <3>1, <3>2
  <2> QED
    BY <2>2
<1> DEFINE u == CHOOSE x : P(x)
<1>5. P(u)
  <2> HIDE DEF P
  <2> QED
    BY <1>4
<1>6. Concat(s) = u[N]
      BY DEF Concat, N
<1>7. \A k \in 0 .. N : u[k] = h[k]
  <2>1. \A k \in 0 .. N : u[k] = IF k = 0 THEN <<>> ELSE u[k - 1] \o s[k]
    <3> HIDE DEF u
    <3> QED
      BY <1>5
  <2> HIDE DEF u
  <2>2. u[0] = h[0]
        BY <1>0, <1>2, <2>1
  <2>3. \A k \in 1 .. N : u[k - 1] = h[k - 1] => u[k] = h[k]
    <3> TAKE k \in 1 .. N
    <3>1. k \in 0 .. N /\ k # 0
          BY <1>0
    <3> QED
      BY <1>3, <2>1, <3>1
  <2>4. N \in Nat /\ GoAlike(u, h, N)
        BY <1>0, <2>2, <2>3 DEF GoAlike
  <2> QED
    BY <2>4, SameSteps
<1>8. Concat(s) = h[N]
  <2>1. N \in 0 .. N
        BY <1>0
  <2> HIDE DEF u
  <2> QED
    BY <1>6, <1>7, <2>1
<1>9. h \in ConcatTo(S, s)
  <2> HIDE DEF P, u, g
  <2> QED
    BY <1>2, <1>3, <1>8 DEF ConcatTo, N
<1> QED
  BY <1>9

-----------------------------------------------------------------------------
(* The elements of a plan *)

Reps == {"omit", "markdown", "structured_table", "image", "reference_only", "key_value_group",
         "image_and_text"}
Element == [source : {"block", "page_region", "page"}, block : Nat, page : Nat, rep : Reps,
            include : BOOLEAN, why : {"block", "visual_fallback", "expected_not_extracted"}]

Chosen == document \in Inputs /\ profile \in Profiles

LEMMA BlocksType ==
  ASSUME Chosen
  PROVE  /\ Blocks \in Seq(Block) /\ Positions = 1 .. Len(Blocks) /\ Len(Blocks) \in Nat
         /\ \A i \in Positions : Blocks[i] \in Block
<1>1. Blocks \in Seq(Block)
      BY InputsAssumption DEF Chosen, Blocks
<1>2. Positions = DOMAIN Blocks
      BY DEF Positions, Blocks
<1> HIDE DEF Blocks
<1> QED
  BY <1>1, <1>2

LEMMA BlockElementIs ==
  ASSUME Chosen, NEW i \in Positions
  PROVE  /\ BlockElement(i) \in Element /\ Crop(i) \in Element
         /\ BlockElement(i).block = i /\ Crop(i).block = 0 /\ i \in Nat \ {0}
<1>1. Blocks[i] \in Block /\ i \in Nat \ {0}
      BY BlocksType
<1>2. Route(Blocks[i]) \in Reps
      BY <1>1 DEF Route, Reps, Block, Kinds, TextKinds
<1>3. Selected(Route(Blocks[i])) \in BOOLEAN
      BY DEF Selected
<1>4. Blocks[i].page \in Nat
      BY <1>1 DEF Block
<1>5. BlockElement(i) \in Element
      BY <1>1, <1>2, <1>3, <1>4 DEF BlockElement, Element
<1>6. Crop(i) \in Element
      BY <1>4 DEF Crop, Element, Reps
<1> QED
  BY <1>1, <1>5, <1>6 DEF BlockElement, Crop

LEMMA ElementsOfType ==
  ASSUME Chosen, NEW i \in Positions
  PROVE  ElementsOf(i) \in Seq(Element)
<1>1. BlockElement(i) \in Element /\ Crop(i) \in Element
      BY BlockElementIs
<1> QED
  BY <1>1 DEF ElementsOf

\* Which block each of the elements f of the blocks up to n belongs to.
Owned(n, f) ==
  {g \in [1 .. Len(f) -> 1 .. n] :
     /\ \A e \in 1 .. Len(f) : f[e] = BlockElement(g[e]) \/ f[e] = Crop(g[e])
     /\ \A d, e \in 1 .. Len(f) :
          d < e => g[d] <= g[e] /\ (f[d].block # 0 /\ f[e].block # 0 => g[d] < g[e])
     /\ \A i \in 1 .. n : \E e \in 1 .. Len(f) : f[e] = BlockElement(i)}

LEMMA OwnedOne ==
  ASSUME Chosen, NEW n \in Nat, n + 1 \in Positions, NEW f \in Seq(Element), Owned(n, f) # {}
  PROVE  Owned(n + 1, f \o ElementsOf(n + 1)) # {}
<1> DEFINE L == Len(f)
           new == ElementsOf(n + 1)
           M == Len(new)
           t == f \o new
           i0 == n + 1
<1>1. PICK g \in [1 .. L -> 1 .. n] :
        /\ \A e \in 1 .. L : f[e] = BlockElement(g[e]) \/ f[e] = Crop(g[e])
        /\ \A d, e \in 1 .. L :
             d < e => g[d] <= g[e] /\ (f[d].block # 0 /\ f[e].block # 0 => g[d] < g[e])
        /\ \A i \in 1 .. n : \E e \in 1 .. L : f[e] = BlockElement(i)
      BY DEF Owned
<1>2. /\ M \in 1 .. 2 /\ new[1] = BlockElement(i0)
      /\ M = 2 => new[2] = Crop(i0)
      BY DEF ElementsOf
<1>3. new \in Seq(Element)
      BY ElementsOfType
<1>4. Crop(i0).block = 0
      BY BlockElementIs
<1> HIDE DEF new
<1>5. /\ L \in Nat /\ Len(t) = L + M
      /\ \A e \in 1 .. L : t[e] = f[e]
      /\ t[L + 1] = new[1] /\ (M = 2 => t[L + 2] = new[2])
  <2>1. Len(t) = Len(f) + Len(new) /\ \A e \in 1 .. Len(t) : t[e] = IF e <= Len(f) THEN f[e] ELSE new[e - Len(f)]
        BY <1>3, ConcatProperties
  <2>2. L \in Nat /\ M \in Nat
        BY <1>3
  <2>3. \A e \in 1 .. L : e \in 1 .. Len(t)
        BY <2>1, <2>2
  <2>4. L + 1 \in 1 .. Len(t) /\ ~(L + 1 <= L) /\ (L + 1) - L = 1
        BY <1>2, <2>1, <2>2
  <2>5. M = 2 => L + 2 \in 1 .. Len(t) /\ ~(L + 2 <= L) /\ (L + 2) - L = 2
        BY <2>1, <2>2
  <2> QED
    BY <2>1, <2>2, <2>3, <2>4, <2>5
<1> HIDE DEF t, L, M
<1> DEFINE q == [e \in 1 .. L + M |-> IF e <= L THEN g[e] ELSE i0]
<1>6. \A e \in 1 .. L + M : e \in 1 .. L \/ e = L + 1 \/ (e = L + 2 /\ M = 2)
      BY <1>2, <1>5
<1>7. \A e \in 1 .. L : e \in 1 .. L + M /\ q[e] = g[e] /\ g[e] \in 1 .. n
  <2>1. \A e \in 1 .. L : e \in 1 .. L + M /\ e <= L
        BY <1>2, <1>5
  <2> QED
    BY <2>1
<1>8. q[L + 1] = i0 /\ L + 1 \in 1 .. L + M /\ (M = 2 => q[L + 2] = i0 /\ L + 2 \in 1 .. L + M)
      BY <1>2, <1>5
<1>9. q \in [1 .. L + M -> 1 .. n + 1]
  <2>1. \A e \in 1 .. L + M : q[e] \in 1 .. n + 1
    <3> TAKE e \in 1 .. L + M
    <3> HIDE DEF q
    <3>1. CASE e \in 1 .. L
      <4>1. q[e] \in 1 .. n
            BY <1>7, <3>1
      <4> QED
        BY <4>1
    <3>2. CASE e = L + 1 \/ (e = L + 2 /\ M = 2)
      <4>1. q[e] = n + 1
            BY <1>8, <3>2
      <4> QED
        BY <4>1
    <3> QED
      BY <1>6, <3>1, <3>2
  <2> QED
    BY <2>1
<1> HIDE DEF q
<1>10. \A e \in 1 .. L + M : t[e] = BlockElement(q[e]) \/ t[e] = Crop(q[e])
  <2> TAKE e \in 1 .. L + M
  <2>1. CASE e \in 1 .. L
        BY <1>1, <1>5, <1>7, <2>1
  <2>2. CASE e = L + 1
        BY <1>2, <1>5, <1>8, <2>2
  <2>3. CASE e = L + 2 /\ M = 2
        BY <1>2, <1>5, <1>8, <2>3
  <2> QED
    BY <1>6, <2>1, <2>2, <2>3
<1>11. \A d, e \in 1 .. L + M :
         d < e => q[d] <= q[e] /\ (t[d].block # 0 /\ t[e].block # 0 => q[d] < q[e])
  <2> SUFFICES ASSUME NEW d \in 1 .. L + M, NEW e \in 1 .. L + M, d < e
               PROVE  q[d] <= q[e] /\ (t[d].block # 0 /\ t[e].block # 0 => q[d] < q[e])
      OBVIOUS
  <2>1. CASE e \in 1 .. L
    <3>1. d \in 1 .. L
          BY <1>5, <2>1
    <3> QED
      BY <1>1, <1>5, <1>7, <2>1, <3>1
  <2>2. CASE d \in 1 .. L /\ e \notin 1 .. L
    <3>1. q[e] = n + 1
          BY <1>6, <1>8, <2>2
    <3>2. q[d] \in 1 .. n
          BY <1>7, <2>2
    <3> QED
      BY <3>1, <3>2
  <2>3. CASE d \notin 1 .. L /\ e \notin 1 .. L
    <3>1. d = L + 1 /\ e = L + 2 /\ M = 2
          BY <1>5, <1>6, <2>3
    <3>2. q[d] = n + 1 /\ q[e] = n + 1 /\ t[e] = Crop(i0)
          BY <1>2, <1>5, <1>8, <3>1
    <3> QED
      BY <1>4, <3>2
  <2>4. e \in 1 .. L => d \in 1 .. L
        BY <1>5
  <2> QED
    BY <2>1, <2>2, <2>3
<1>12. \A i \in 1 .. n + 1 : \E e \in 1 .. L + M : t[e] = BlockElement(i)
  <2> TAKE i \in 1 .. n + 1
  <2>1. CASE i = n + 1
        BY <1>2, <1>5, <1>8, <2>1
  <2>2. CASE i \in 1 .. n
    <3>1. PICK e \in 1 .. L : f[e] = BlockElement(i)
          BY <1>1, <2>2
    <3> QED
      BY <1>5, <1>7, <3>1
  <2>3. i = n + 1 \/ i \in 1 .. n
        OBVIOUS
  <2> QED
    BY <2>1, <2>2, <2>3
<1>13. q \in Owned(n + 1, t)
      BY <1>5, <1>9, <1>10, <1>11, <1>12 DEF Owned
<1> QED
  BY <1>13 DEF t, new

LEMMA BlockElementsOwned ==
  ASSUME Chosen
  PROVE  BlockElements \in Seq(Element) /\ Owned(Len(Blocks), BlockElements) # {}
<1> DEFINE N == Len(Blocks)
<1>0. N \in Nat /\ Positions = 1 .. N
      BY BlocksType
<1>1. PICK h \in [0 .. N -> Seq(Element)] :
        /\ h[0] = <<>>
        /\ \A n \in 1 .. N : h[n] = h[n - 1] \o ElementsOf(n)
        /\ BlockElements = h[N]
  <2> DEFINE s == [i \in Positions |-> ElementsOf(i)]
  <2>1. s \in Seq(Seq(Element)) /\ Len(s) = N /\ \A i \in 1 .. N : s[i] = ElementsOf(i)
        BY <1>0, ElementsOfType
  <2>2. BlockElements = Concat(s)
        BY DEF BlockElements
  <2> HIDE DEF s, N
  <2>3. ConcatTo(Element, s) # {}
        BY <2>1, ConcatExists
  <2> QED
    BY <2>1, <2>2, <2>3 DEF ConcatTo
<1> HIDE DEF N
<1> DEFINE Here(n) == Owned(n, h[n]) # {}
           T == {n \in Nat : n <= N => Here(n)}
<1>2. Here(0)
  <2> DEFINE m == [k \in {} |-> 0]
  <2>1. Len(<<>>) = 0
        BY EmptySeq
  <2>2. m \in Owned(0, <<>>)
        BY <2>1 DEF Owned
  <2> QED
    BY <1>1, <2>2
<1>3. ASSUME NEW n \in Nat, n + 1 <= N, Here(n) PROVE Here(n + 1)
  <2>1. n + 1 \in 1 .. N /\ n \in 0 .. N /\ (n + 1) - 1 = n
        BY <1>0, <1>3
  <2>2. h[n] \in Seq(Element) /\ n + 1 \in Positions
        BY <1>0, <2>1
  <2>3. h[n + 1] = h[n] \o ElementsOf(n + 1)
        BY <1>1, <2>1
  <2> QED
    BY <1>3, <2>2, <2>3, OwnedOne
<1>4. T = Nat
  <2> HIDE DEF Here
  <2>1. T \in SUBSET Nat
        OBVIOUS
  <2>2. 0 \in T
        BY <1>2
  <2>3. ASSUME NEW n \in T PROVE n + 1 \in T
    <3> SUFFICES ASSUME n + 1 <= N PROVE Here(n + 1)
        OBVIOUS
    <3>1. n \in Nat /\ Here(n)
          BY <1>0
    <3> QED
      BY <1>3, <3>1
  <2> HIDE DEF T
  <2> QED
    BY <2>1, <2>2, <2>3, Induction
<1>5. Here(N)
      BY <1>0, <1>4
<1>6. h[N] \in Seq(Element)
      BY <1>0
<1> QED
  BY <1>1, <1>5, <1>6 DEF N

LEMMA Bounded ==
  ASSUME NEW S, IsFiniteSet(S), S \subseteq [page : Nat, bbox : BOOLEAN]
  PROVE  \E N \in Nat : \A m \in S : m.page <= N
<1>1. PICK n \in Nat : ExistsSurjection(1 .. n, S)
      BY FS_NatSurjection
<1>2. PICK f \in [1 .. n -> S] : \A m \in S : \E k \in 1 .. n : f[k] = m
      BY <1>1 DEF ExistsSurjection, Surjection
<1> DEFINE Under(j) == \E N \in Nat : \A k \in 1 .. j : f[k].page <= N
           T == {j \in Nat : j <= n => Under(j)}
<1>3. Under(0)
      OBVIOUS
<1>4. ASSUME NEW j \in Nat, j + 1 <= n, Under(j) PROVE Under(j + 1)
  <2>1. PICK N \in Nat : \A k \in 1 .. j : f[k].page <= N
        BY <1>4
  <2>2. j + 1 \in 1 .. n
        BY <1>4
  <2>3. f[j + 1] \in S
        BY <2>2
  <2>4. f[j + 1].page \in Nat
        BY <2>3
  <2>5. \A k \in 1 .. j : k \in 1 .. n /\ f[k] \in S /\ f[k].page \in Nat
        BY <1>4
  <2> DEFINE p == f[j + 1].page
  <2>6. p \in Nat
        BY <2>4
  <2>7. \A k \in 1 .. j + 1 : f[k].page <= N + p
    <3> TAKE k \in 1 .. j + 1
    <3>1. CASE k = j + 1
      <4>1. f[k].page = p
            BY <3>1
      <4> HIDE DEF p
      <4> QED
        BY <2>6, <4>1
    <3>2. CASE k \in 1 .. j
      <4>1. f[k].page <= N /\ f[k].page \in Nat
            BY <2>1, <2>5, <3>2
      <4> HIDE DEF p
      <4> QED
        BY <2>6, <4>1
    <3> QED
      BY <3>1, <3>2
  <2>8. N + p \in Nat
        BY <2>6
  <2> QED
    BY <2>7, <2>8
<1>5. T = Nat
  <2> HIDE DEF Under
  <2>1. T \in SUBSET Nat
        OBVIOUS
  <2>2. 0 \in T
        BY <1>3
  <2>3. ASSUME NEW j \in T PROVE j + 1 \in T
    <3> SUFFICES ASSUME j + 1 <= n PROVE Under(j + 1)
        OBVIOUS
    <3>1. j \in Nat /\ Under(j)
          OBVIOUS
    <3> QED
      BY <1>4, <3>1
  <2> HIDE DEF T
  <2> QED
    BY <2>1, <2>2, <2>3, Induction
<1>6. Under(n)
  <2> HIDE DEF Under
  <2> QED
    BY <1>5
<1>7. PICK N \in Nat : \A k \in 1 .. n : f[k].page <= N
      BY <1>6
<1> QED
  BY <1>2, <1>7

LEMMA MissedPagesIs ==
  ASSUME Chosen
  PROVE  /\ MissedPages \in SUBSET Nat /\ 0 \notin MissedPages
         /\ \E N \in Nat : \A x \in MissedPages : x <= N
<1>1. IsFiniteSet(document.expected) /\ document.expected \subseteq [page : Nat, bbox : BOOLEAN]
      BY InputsAssumption DEF Chosen
<1>2. PICK N \in Nat : \A m \in document.expected : m.page <= N
      BY <1>1, Bounded
<1>3. 0 \notin MissedPages
      BY DEF MissedPages
<1>4. \A x \in MissedPages : \E m \in document.expected : m.page = x
  <2> TAKE x \in MissedPages
  <2>1. PICK m \in Missed : m.page = x /\ x # 0
        BY DEF MissedPages
  <2>2. CASE document.handed
        BY <2>1, <2>2 DEF Missed
  <2>3. CASE ~document.handed
        BY <2>1, <2>3 DEF Missed
  <2> QED
    BY <2>2, <2>3
<1>5. \A x \in MissedPages : x \in Nat /\ x <= N
      BY <1>1, <1>2, <1>4
<1> QED
  BY <1>3, <1>5

LEMMA PageElementIs ==
  ASSUME Chosen, NEW p \in Nat
  PROVE  PageElement(p) \in Element /\ PageElement(p).page = p /\ PageElement(p).block = 0
<1>1. profile.uncertain \in BOOLEAN
      BY ProfilesAssumption DEF Chosen, Profile
<1>2. (profile.mode # "text_first" /\ profile.uncertain) \in BOOLEAN
      BY <1>1
<1> QED
  BY <1>2 DEF PageElement, Element, Reps

LEMMA PageElementsAre ==
  ASSUME Chosen
  PROVE  /\ PageElements \in Seq(Element)
         /\ \A k \in 1 .. Len(PageElements) :
              /\ PageElements[k] = PageElement(PageElements[k].page)
              /\ PageElements[k].page \in MissedPages
         /\ \A k, l \in 1 .. Len(PageElements) :
              k < l => PageElements[k].page < PageElements[l].page
         /\ \A p \in MissedPages : \E k \in 1 .. Len(PageElements) : PageElements[k].page = p
<1>1. MissedPages \in SUBSET Nat /\ 0 \notin MissedPages
      BY MissedPagesIs
<1>2. PICK N \in Nat : \A x \in MissedPages : x <= N
      BY MissedPagesIs
<1> DEFINE f == Ascending(MissedPages)
<1>3. /\ f \in Seq(Nat)
      /\ \A k \in 1 .. Len(f) : f[k] \in MissedPages \ {0}
      /\ \A k, l \in 1 .. Len(f) : k < l => f[k] < f[l]
      /\ \A x \in MissedPages \ {0} : \E k \in 1 .. Len(f) : f[k] = x
      BY <1>1, <1>2, AscendingIs
<1>4. PageElements = [k \in 1 .. Len(f) |-> PageElement(f[k])]
      BY <1>3 DEF PageElements
<1> HIDE DEF f
<1>5. Len(f) \in Nat /\ \A k \in 1 .. Len(f) : PageElement(f[k]) \in Element
      BY <1>3, PageElementIs
<1>6. PageElements \in Seq(Element) /\ Len(PageElements) = Len(f)
      BY <1>4, <1>5
<1>7. \A k \in 1 .. Len(f) : PageElements[k] = PageElement(f[k]) /\ PageElements[k].page = f[k]
      BY <1>3, <1>4, PageElementIs
<1>8. \A k \in 1 .. Len(f) : PageElements[k] = PageElement(PageElements[k].page)
                             /\ PageElements[k].page \in MissedPages
      BY <1>3, <1>7
<1>9. \A k, l \in 1 .. Len(f) : k < l => PageElements[k].page < PageElements[l].page
      BY <1>3, <1>7
<1>10. \A p \in MissedPages : \E k \in 1 .. Len(f) : PageElements[k].page = p
      BY <1>1, <1>3, <1>7
<1> QED
  BY <1>6, <1>8, <1>9, <1>10

\* The elements of the blocks come first, then those of the pages.
AsPlanned == plan = BlockElements \o PageElements
BlocksEnd == Len(BlockElements)

LEMMA PlanIs ==
  ASSUME Chosen, AsPlanned
  PROVE  /\ plan \in Seq(Element) /\ BlocksEnd \in 0 .. Len(plan)
         /\ \A e \in 1 .. BlocksEnd : plan[e] = BlockElements[e]
         /\ \A e \in (BlocksEnd + 1) .. Len(plan) :
              /\ plan[e] = PageElement(plan[e].page) /\ plan[e].page \in MissedPages
         /\ \A d, e \in (BlocksEnd + 1) .. Len(plan) : d < e => plan[d].page < plan[e].page
<1> DEFINE A == BlockElements
           B == PageElements
<1>1. A \in Seq(Element) /\ B \in Seq(Element)
      BY BlockElementsOwned, PageElementsAre
<1>2. plan = A \o B
      BY DEF AsPlanned
<1> DEFINE L == Len(A)
<1>3. L \in Nat /\ Len(B) \in Nat /\ BlocksEnd = L
      BY <1>1 DEF BlocksEnd
<1>4. \A k \in 1 .. Len(B) : B[k] = PageElement(B[k].page) /\ B[k].page \in MissedPages
      BY PageElementsAre
<1>5. \A k, l \in 1 .. Len(B) : k < l => B[k].page < B[l].page
      BY PageElementsAre
<1> HIDE DEF A, B
<1>6. /\ plan \in Seq(Element) /\ Len(plan) = L + Len(B)
      /\ \A e \in 1 .. Len(plan) : plan[e] = IF e <= L THEN A[e] ELSE B[e - L]
      BY <1>1, <1>2, ConcatProperties
<1> HIDE DEF L
<1>7. \A e \in 1 .. L : e \in 1 .. Len(plan) /\ e <= L
      BY <1>3, <1>6
<1>8. \A e \in (L + 1) .. Len(plan) : e \in 1 .. Len(plan) /\ ~(e <= L) /\ e - L \in 1 .. Len(B)
      BY <1>3, <1>6
<1>9. \A e \in 1 .. L : plan[e] = A[e]
      BY <1>6, <1>7
<1>10. \A e \in (L + 1) .. Len(plan) : plan[e] = B[e - L]
      BY <1>6, <1>8
<1>11. \A e \in (L + 1) .. Len(plan) : plan[e] = PageElement(plan[e].page) /\ plan[e].page \in MissedPages
      BY <1>4, <1>8, <1>10
<1>12. \A d, e \in (L + 1) .. Len(plan) : d < e => plan[d].page < plan[e].page
  <2> SUFFICES ASSUME NEW d \in (L + 1) .. Len(plan), NEW e \in (L + 1) .. Len(plan), d < e
               PROVE  plan[d].page < plan[e].page
      OBVIOUS
  <2>1. d - L \in 1 .. Len(B) /\ e - L \in 1 .. Len(B) /\ d - L < e - L
        BY <1>3, <1>8
  <2> QED
    BY <1>5, <1>10, <2>1
<1>13. L \in 0 .. Len(plan)
      BY <1>3, <1>6
<1> QED
  BY <1>3, <1>6, <1>9, <1>11, <1>12, <1>13 DEF A

\* What the elements are, by where they come from.
LEMMA ElementFacts ==
  ASSUME Chosen, AsPlanned, NEW e \in DOMAIN plan
  PROVE  /\ plan[e] \in Element
         /\ PageFallback(plan[e]) <=> e > BlocksEnd
         /\ plan[e].block # 0 => plan[e].block \in Positions /\ plan[e] = BlockElement(plan[e].block)
         /\ plan[e].block = 0 => plan[e].rep = "image" /\ plan[e].source # "block"
         /\ plan[e].include => Selected(plan[e].rep)
         /\ e > BlocksEnd => plan[e].block = 0 /\ plan[e].page \in MissedPages
<1>1. e \in 1 .. Len(plan) /\ plan[e] \in Element /\ BlocksEnd \in Nat
      BY PlanIs
<1>2. CASE e \in 1 .. BlocksEnd
  <2>1. plan[e] = BlockElements[e]
        BY <1>2, PlanIs
  <2>2. PICK g \in [1 .. BlocksEnd -> 1 .. Len(Blocks)] :
               BlockElements[e] = BlockElement(g[e]) \/ BlockElements[e] = Crop(g[e])
        BY <1>2, BlockElementsOwned DEF Owned, BlocksEnd
  <2>3. g[e] \in Positions
        BY <1>2, BlocksType
  <2>4. ~(e > BlocksEnd)
        BY <1>2, <1>1
  <2>5. CASE plan[e] = BlockElement(g[e])
    <3>1. plan[e].block = g[e] /\ g[e] # 0
          BY <2>3, <2>5, BlockElementIs
    <3>2. ~PageFallback(plan[e])
          BY <2>5 DEF PageFallback, BlockElement
    <3>3. plan[e].include => Selected(plan[e].rep)
          BY <2>5 DEF BlockElement
    <3> QED
      BY <1>1, <2>3, <2>4, <2>5, <3>1, <3>2, <3>3
  <2>6. CASE plan[e] = Crop(g[e])
    <3>1. plan[e].block = 0
          BY <2>3, <2>6, BlockElementIs
    <3>2. ~PageFallback(plan[e])
          BY <2>6 DEF PageFallback, Crop
    <3>3. plan[e].rep = "image" /\ plan[e].source # "block" /\ Selected(plan[e].rep)
          BY <2>6 DEF Crop, Selected
    <3> QED
      BY <1>1, <2>4, <3>1, <3>2, <3>3
  <2> QED
    BY <2>1, <2>2, <2>5, <2>6
<1>3. CASE e \in (BlocksEnd + 1) .. Len(plan)
  <2>1. plan[e] = PageElement(plan[e].page) /\ plan[e].page \in MissedPages
        BY <1>3, PlanIs
  <2>2. e > BlocksEnd
        BY <1>1, <1>3
  <2> DEFINE p == plan[e].page
  <2>3. PageElement(p).block = 0 /\ PageElement(p).rep = "image" /\ Selected(PageElement(p).rep)
        /\ PageFallback(PageElement(p)) /\ PageElement(p).source # "block"
        BY DEF PageElement, PageFallback, Selected
  <2> HIDE DEF p
  <2>4. plan[e] = PageElement(p)
        BY <2>1 DEF p
  <2> QED
    BY <1>1, <2>1, <2>2, <2>3, <2>4
<1> QED
  BY <1>1, <1>2, <1>3

\* Every block has its element, and one only.
LEMMA BlockHasElement ==
  ASSUME Chosen, AsPlanned, NEW i \in Positions
  PROVE  \E e \in DOMAIN plan : plan[e] = BlockElement(i)
<1>1. i \in 1 .. Len(Blocks)
      BY BlocksType
<1>2. \E e \in 1 .. BlocksEnd : BlockElements[e] = BlockElement(i)
      BY <1>1, BlockElementsOwned DEF Owned, BlocksEnd
<1>3. PICK e \in 1 .. BlocksEnd : plan[e] = BlockElement(i)
      BY <1>2, PlanIs
<1>4. e \in DOMAIN plan
      BY PlanIs
<1> QED
  BY <1>3, <1>4

\* What was planned stays so as long as the document and the profile do.
LEMMA PlannedStays ==
  ASSUME Chosen, UNCHANGED <<document, profile>>
  PROVE  (BlockElements \o PageElements)' = BlockElements \o PageElements
<1>1. Blocks' = Blocks /\ Positions' = Positions
      BY DEF Blocks, Positions
<1>2. \A i \in Positions : ElementsOf(i)' = ElementsOf(i)
      BY <1>1 DEF ElementsOf, NeedsVisualFallback, BlockElement, Crop, Route, Risky, Structured,
                  Illustrated, Selected, TextKinds
<1>3. [i \in Positions |-> ElementsOf(i)]' = [i \in Positions |-> ElementsOf(i)]
      BY <1>1, <1>2
<1>4. BlockElements' = BlockElements
      BY <1>3 DEF BlockElements
<1>5. Missed' = Missed
      BY DEF Missed
<1>6. TablePages' = TablePages
      BY <1>1 DEF TablePages
<1>7. MissedPages' = MissedPages
      BY <1>5, <1>6 DEF MissedPages
<1>8. PageElements' = PageElements
  <2> DEFINE A == Ascending(MissedPages)
  <2>1. A' = A
        BY <1>7
  <2>2. PageElements = [k \in DOMAIN A |-> PageElement(A[k])]
        BY DEF PageElements
  <2>3. \A k \in DOMAIN A : PageElement(A[k])' = PageElement(A[k])
        BY <1>5, <2>1 DEF PageElement
  <2>4. [k \in DOMAIN A |-> PageElement(A[k])]' = [k \in DOMAIN A |-> PageElement(A[k])]
    <3> HIDE DEF A
    <3> QED
      BY <2>1, <2>3
  <2>5. PageElements' = [k \in DOMAIN A |-> PageElement(A[k])]'
        BY DEF PageElements
  <2> HIDE DEF A
  <2> QED
    BY <2>2, <2>4, <2>5
<1> QED
  BY <1>4, <1>8

-----------------------------------------------------------------------------
(* The types *)

Names == ({"tables", "key_values", "images", "regions"} \X (Nat \ {0})) \cup {<<"plan", 0>>}
ItemType == [elem : DOMAIN plan, type : {"text", "group", "table", "image", "warning"},
             file : Names \cup {<<>>}, caption : Nat, whole : BOOLEAN]
PayloadType == [items : Seq(ItemType), unresolved : SUBSET DOMAIN plan, missing : SUBSET Names,
                mismatches : SUBSET DOMAIN plan]

PackageTypeOK ==
  /\ Chosen
  /\ stage \in {"plan", "write", "payload", "packaged", "rebuilt", "raised"}
  /\ plan \in Seq(Element) /\ todo \in 0 .. Len(plan) + 1
  /\ failures \in 0 .. MaxFaults
  /\ DOMAIN files \subseteq Names /\ \A k \in DOMAIN files : files[k] \in {"whole", "torn"}
  /\ DOMAIN refs \subseteq DOMAIN plan /\ \A e \in DOMAIN refs : refs[e] \in Names
  /\ visual \subseteq DOMAIN plan
  /\ fidelity \in [unpictured : SUBSET DOMAIN plan, failures : Nat]
  /\ payload \in PayloadType

\* The file of a block's picture.
LEMMA AssetOfType ==
  ASSUME Chosen, NEW i \in Positions
  PROVE  AssetOf(i) \in Nat
<1> DEFINE onPage == {j \in Assets : Blocks[i].page # 0 /\ Blocks[j].page = Blocks[i].page}
<1>1. i \in Nat /\ onPage \in SUBSET Nat
      BY BlocksType DEF Assets
<1>2. onPage # {} => Min(onPage) \in Nat
  <2> HIDE DEF onPage
  <2> QED
    BY <1>1, MinIs
<1> QED
  BY <1>1, <1>2 DEF AssetOf

\* What a write does to the files, whether it fails or not.
FilesType(fs) == DOMAIN fs \subseteq Names /\ \A k \in DOMAIN fs : fs[k] \in {"whole", "torn"}
TornCounted == (\E k \in DOMAIN files : files[k] = "torn") => failures > 0
\* A step that may write the file key and no other one.
Touches(key) ==
  /\ FilesType(files) /\ TornCounted /\ failures \in 0 .. MaxFaults
  => /\ FilesType(files') /\ TornCounted' /\ failures' \in 0 .. MaxFaults
     /\ \A k \in DOMAIN files : k # key => k \in DOMAIN files'

LEMMA WritesTouches ==
  ASSUME NEW key \in Names, Writes(key)
  PROVE  Touches(key) /\ key \in DOMAIN files'
<1>1. files' = With(files, key, "whole") /\ failures' = failures
      BY DEF Writes
<1>2. /\ DOMAIN files' = DOMAIN files \cup {key} /\ files'[key] = "whole"
      /\ \A k \in DOMAIN files : k # key => files'[k] = files[k]
      BY <1>1 DEF With
<1> QED
  BY <1>1, <1>2 DEF Touches, FilesType, TornCounted

LEMMA FailsTouches ==
  ASSUME NEW key \in Names, Fails(key)
  PROVE  Touches(key)
<1> SUFFICES ASSUME FilesType(files), failures \in 0 .. MaxFaults
             PROVE  /\ FilesType(files') /\ TornCounted' /\ failures' \in 0 .. MaxFaults
                    /\ \A k \in DOMAIN files : k # key => k \in DOMAIN files'
    BY DEF Touches
<1>1. failures' \in 0 .. MaxFaults /\ failures' > 0
      BY FaultsAssumption DEF Fails
<1>2. CASE files' = Without(files, key)
  <2>1. DOMAIN files' = DOMAIN files \ {key} /\ \A k \in DOMAIN files' : files'[k] = files[k]
        BY <1>2 DEF Without
  <2> QED
    BY <1>1, <2>1 DEF FilesType, TornCounted
<1>3. CASE files' = With(files, key, "torn")
  <2>1. /\ DOMAIN files' = DOMAIN files \cup {key} /\ files'[key] = "torn"
        /\ \A k \in DOMAIN files : k # key => files'[k] = files[k]
        BY <1>3 DEF With
  <2> QED
    BY <1>1, <2>1 DEF FilesType, TornCounted
<1> QED
  BY <1>2, <1>3 DEF Fails

-----------------------------------------------------------------------------
(* The serializations of a table *)

LEMMA CheapestIs ==
  ASSUME NEW cs, cs # {}, \A c \in cs : c.tokens \in Nat
  PROVE  Cheapest(cs) \in cs
<1> DEFINE U == {c.tokens : c \in cs}
<1>1. U \in SUBSET Nat /\ U # {}
      OBVIOUS
<1>2. Min(U) \in U /\ \A y \in U : Min(U) <= y
  <2> HIDE DEF U
  <2> QED
    BY <1>1, MinIs
<1>3. PICK c \in cs : c.tokens = Min(U)
      BY <1>2
<1>4. \A d \in cs : c.tokens <= d.tokens
      BY <1>2, <1>3
<1> QED
  BY <1>4 DEF Cheapest

\* A table is serialized in one of its forms, and without an artifact in one that
\* has all of it inline.
LEMMA SerializedIs ==
  ASSUME NEW t \in Table, NEW prof \in Profile, NEW artifact \in BOOLEAN
  PROVE  /\ Serialized(t, prof, artifact).whole \in BOOLEAN
         /\ Serialized(t, prof, artifact).whole \/ artifact
<1> DEFINE cs == Candidates(t, prof, artifact)
           md == [format |-> "markdown", tokens |-> t.cost["markdown"], whole |-> TRUE]
           s == Serialized(t, prof, artifact)
<1>1. t.cost \in Costs /\ t.omitted \in Nat
      BY DEF Table
<1>2. /\ "markdown" \in DOMAIN t.cost /\ "preview" \in DOMAIN t.cost /\ "reference" \in DOMAIN t.cost
      /\ \A f \in DOMAIN t.cost : t.cost[f] \in Nat
      BY <1>1 DEF Costs, Formats, Inline
<1>3. \A c \in cs : c.tokens \in Nat /\ c.whole \in BOOLEAN /\ (c.whole \/ artifact)
  <2> SUFFICES ASSUME NEW c \in cs
               PROVE  c.tokens \in Nat /\ c.whole \in BOOLEAN /\ (c.whole \/ artifact)
      OBVIOUS
  <2>1. CASE \E f \in Inline \cap DOMAIN t.cost :
               c = [format |-> f, tokens |-> t.cost[f], whole |-> TRUE]
        BY <1>2, <2>1
  <2>2. CASE /\ artifact
             /\ c = [format |-> "preview", tokens |-> t.cost["preview"], whole |-> t.omitted = 0]
    <3>1. t.cost["preview"] \in Nat /\ (t.omitted = 0) \in BOOLEAN
          BY <1>2
    <3>2. c.tokens = t.cost["preview"] /\ c.whole = (t.omitted = 0)
          BY <2>2
    <3> QED
      BY <2>2, <3>1, <3>2
  <2>3. CASE /\ artifact
             /\ c = [format |-> "reference", tokens |-> t.cost["reference"], whole |-> FALSE]
        BY <1>2, <2>3
  <2> QED
    BY <2>1, <2>2, <2>3 DEF Candidates
<1>4. md \in cs /\ md.whole
      BY <1>2 DEF Candidates, Inline
<1> HIDE DEF cs, md
<1>5. \A S \in SUBSET cs : S # {} => Cheapest(S) \in cs
      BY <1>3, CheapestIs
<1>6. {c \in cs : c.whole} # {} /\ {c \in cs : c.whole} \in SUBSET cs
      BY <1>4
<1>7. Fallback(cs) \in cs
  <2>1. CASE InFormat(cs, "preview") # {}
    <3>1. Cheapest(InFormat(cs, "preview")) \in cs
          BY <1>5, <2>1 DEF InFormat
    <3> QED
      BY <2>1, <3>1 DEF Fallback
  <2>2. CASE InFormat(cs, "preview") = {}
    <3>1. Cheapest({c \in cs : c.whole}) \in cs
          BY <1>5, <1>6
    <3> QED
      BY <2>2, <3>1 DEF Fallback
  <2> QED
    BY <2>1, <2>2
<1>8. s \in cs
  <2> DEFINE whole == {c \in cs : c.whole}
             eligible == {c \in cs : Eligible(t, prof.mode, c)}
             byReference == InFormat(cs, "reference")
  <2>1. Cheapest(whole) \in cs
        BY <1>5, <1>6
  <2>2. eligible # {} => Cheapest(eligible) \in cs
        BY <1>5
  <2>3. byReference # {} => Cheapest(byReference) \in cs
        BY <1>5 DEF InFormat
  <2>4. s = CASE prof.strategy \in {"reference_only", "json_reference"} /\ byReference # {} ->
                   Cheapest(byReference)
              [] prof.strategy = "reference_only" /\ byReference = {} -> Cheapest(whole)
              [] prof.strategy = "preview_reference" -> Fallback(cs)
              [] prof.strategy = "full_inline" -> Cheapest(whole)
              [] OTHER -> IF eligible # {} THEN Cheapest(eligible) ELSE Fallback(cs)
        BY DEF Serialized, cs
  <2> HIDE DEF whole, eligible, byReference, s
  <2>5. CASE prof.strategy \in {"reference_only", "json_reference"} /\ byReference # {}
        BY <2>3, <2>4, <2>5
  <2>6. CASE prof.strategy = "reference_only" /\ byReference = {}
        BY <2>1, <2>4, <2>6
  <2>7. CASE prof.strategy = "preview_reference"
        BY <1>7, <2>4, <2>7
  <2>8. CASE prof.strategy = "full_inline"
        BY <2>1, <2>4, <2>8
  <2>9. CASE \/ prof.strategy = "auto"
             \/ prof.strategy = "json_reference" /\ byReference = {}
        BY <1>7, <2>2, <2>4, <2>9
  <2>10. prof.strategy \in {"auto", "full_inline", "preview_reference", "reference_only", "json_reference"}
         BY DEF Profile, Strategies
  <2> QED
    BY <2>5, <2>6, <2>7, <2>8, <2>9, <2>10
<1> QED
  BY <1>3, <1>8

-----------------------------------------------------------------------------
(* The order of the payload *)

BlocksInOrder ==
  \A i, j \in Positions : i < j /\ Blocks[i].page # 0 /\ Blocks[j].page # 0 => Blocks[i].page <= Blocks[j].page

LEMMA OrderOfElements ==
  ASSUME Chosen, AsPlanned, NEW d \in 1 .. BlocksEnd, NEW e \in 1 .. BlocksEnd, d < e
  PROVE  /\ plan[d].block # 0 /\ plan[e].block # 0 => plan[d].block < plan[e].block
         /\ BlocksInOrder /\ plan[d].page # 0 /\ plan[e].page # 0 => plan[d].page <= plan[e].page
<1>1. PICK g \in [1 .. BlocksEnd -> 1 .. Len(Blocks)] :
        /\ \A x \in 1 .. BlocksEnd : BlockElements[x] = BlockElement(g[x]) \/ BlockElements[x] = Crop(g[x])
        /\ \A x, y \in 1 .. BlocksEnd :
             x < y => /\ g[x] <= g[y]
                      /\ BlockElements[x].block # 0 /\ BlockElements[y].block # 0 => g[x] < g[y]
      BY BlockElementsOwned DEF Owned, BlocksEnd
<1>2. plan[d] = BlockElements[d] /\ plan[e] = BlockElements[e]
      BY PlanIs
<1>3. g[d] \in Positions /\ g[e] \in Positions /\ Positions \subseteq Nat
      BY BlocksType
<1>4. \A x \in {d, e} : /\ plan[x].page = Blocks[g[x]].page
                        /\ plan[x].block # 0 => plan[x].block = g[x]
  <2> TAKE x \in {d, e}
  <2>1. x \in 1 .. BlocksEnd /\ g[x] \in Positions /\ plan[x] = BlockElements[x]
        BY <1>2, <1>3
  <2>2. plan[x] = BlockElement(g[x]) \/ plan[x] = Crop(g[x])
        BY <1>1, <2>1
  <2> QED
    BY <2>2 DEF BlockElement, Crop
<1>5. /\ g[d] <= g[e]
      /\ plan[d].block # 0 /\ plan[e].block # 0 => g[d] < g[e]
      BY <1>1, <1>2
<1>6. ASSUME BlocksInOrder, plan[d].page # 0, plan[e].page # 0 PROVE plan[d].page <= plan[e].page
  <2>1. Blocks[g[d]].page \in Nat /\ Blocks[g[e]].page \in Nat
        BY <1>3, BlocksType DEF Block
  <2>2. CASE g[d] = g[e]
        BY <1>4, <2>1, <2>2
  <2>3. CASE g[d] < g[e]
        BY <1>3, <1>4, <1>6, <2>3 DEF BlocksInOrder
  <2> QED
    BY <1>3, <1>5, <2>2, <2>3
<1> QED
  BY <1>4, <1>5, <1>6

\* The elements of the blocks, and those of the pages, each in order.
LEMMA SplitIs ==
  ASSUME Chosen, AsPlanned
  PROVE  /\ Ordinary \in Seq(DOMAIN plan) /\ Fallbacks \in Seq(DOMAIN plan)
         /\ \A k \in 1 .. Len(Ordinary) : Ordinary[k] \in 1 .. BlocksEnd
         /\ \A k \in 1 .. Len(Fallbacks) : Fallbacks[k] \in (BlocksEnd + 1) .. Len(plan)
         /\ \A k, l \in 1 .. Len(Ordinary) : k < l => Ordinary[k] < Ordinary[l]
         /\ \A k, l \in 1 .. Len(Fallbacks) : k < l => Fallbacks[k] < Fallbacks[l]
         /\ \A e \in 1 .. BlocksEnd : \E k \in 1 .. Len(Ordinary) : Ordinary[k] = e
         /\ \A e \in (BlocksEnd + 1) .. Len(plan) : \E k \in 1 .. Len(Fallbacks) : Fallbacks[k] = e
<1>1. plan \in Seq(Element) /\ BlocksEnd \in 0 .. Len(plan) /\ Len(plan) \in Nat
      BY PlanIs
<1>2. DOMAIN plan = 1 .. Len(plan)
      BY <1>1
<1>3. \A e \in DOMAIN plan : PageFallback(plan[e]) <=> e > BlocksEnd
      BY ElementFacts
<1> DEFINE S == {e \in DOMAIN plan : ~PageFallback(plan[e])}
           R == {e \in DOMAIN plan : PageFallback(plan[e])}
<1>4. S = 1 .. BlocksEnd /\ R = (BlocksEnd + 1) .. Len(plan)
      BY <1>1, <1>2, <1>3
<1>5. Ordinary = Ascending(S) /\ Fallbacks = Ascending(R)
      BY DEF Ordinary, Fallbacks
<1> HIDE DEF S, R
<1>6. /\ S \in SUBSET Nat /\ R \in SUBSET Nat /\ S \ {0} = S /\ R \ {0} = R
      /\ \A x \in S : x <= Len(plan)
      /\ \A x \in R : x <= Len(plan)
      BY <1>1, <1>4
<1>7. /\ Ascending(S) \in Seq(Nat)
      /\ \A k \in 1 .. Len(Ascending(S)) : Ascending(S)[k] \in S \ {0}
      /\ \A k, l \in 1 .. Len(Ascending(S)) : k < l => Ascending(S)[k] < Ascending(S)[l]
      /\ \A x \in S \ {0} : \E k \in 1 .. Len(Ascending(S)) : Ascending(S)[k] = x
      BY <1>1, <1>6, AscendingIs
<1>8. /\ Ascending(R) \in Seq(Nat)
      /\ \A k \in 1 .. Len(Ascending(R)) : Ascending(R)[k] \in R \ {0}
      /\ \A k, l \in 1 .. Len(Ascending(R)) : k < l => Ascending(R)[k] < Ascending(R)[l]
      /\ \A x \in R \ {0} : \E k \in 1 .. Len(Ascending(R)) : Ascending(R)[k] = x
      BY <1>1, <1>6, AscendingIs
<1>9. S \subseteq DOMAIN plan /\ R \subseteq DOMAIN plan
      BY DEF S, R
<1>10. Ordinary \in Seq(DOMAIN plan) /\ Fallbacks \in Seq(DOMAIN plan)
  <2>1. Ordinary \in Seq(Nat) /\ \A k \in 1 .. Len(Ordinary) : Ordinary[k] \in DOMAIN plan
        BY <1>5, <1>7, <1>9
  <2>2. Fallbacks \in Seq(Nat) /\ \A k \in 1 .. Len(Fallbacks) : Fallbacks[k] \in DOMAIN plan
        BY <1>5, <1>8, <1>9
  <2>3. ASSUME NEW s \in Seq(Nat), \A k \in 1 .. Len(s) : s[k] \in DOMAIN plan
        PROVE  s \in Seq(DOMAIN plan)
        BY <2>3
  <2> QED
    BY <2>1, <2>2, <2>3
<1> QED
  BY <1>4, <1>5, <1>6, <1>7, <1>8, <1>10

LEMMA InsertAfterIs ==
  ASSUME Chosen, AsPlanned, NEW p \in Nat
  PROVE  /\ InsertAfter(p) \in 0 .. Len(Ordinary)
         /\ InsertAfter(p) # 0 =>
              /\ plan[Ordinary[InsertAfter(p)]].page \in 1 .. p
              /\ \A k \in 1 .. Len(Ordinary) :
                   plan[Ordinary[k]].page \in 1 .. p =>
                     \/ plan[Ordinary[k]].page < plan[Ordinary[InsertAfter(p)]].page
                     \/ plan[Ordinary[k]].page = plan[Ordinary[InsertAfter(p)]].page /\ k <= InsertAfter(p)
         /\ InsertAfter(p) = 0 => \A k \in 1 .. Len(Ordinary) : plan[Ordinary[k]].page \notin 1 .. p
<1> DEFINE O == Ordinary
           Page(k) == plan[O[k]].page
           pages == {Page(k) : k \in DOMAIN O} \cap 1 .. p
<1>1. O \in Seq(DOMAIN plan) /\ Len(O) \in Nat /\ DOMAIN O = 1 .. Len(O)
      BY SplitIs
<1>2. InsertAfter(p) = IF pages = {} THEN 0 ELSE Max({k \in DOMAIN O : Page(k) = Max(pages)})
      BY DEF InsertAfter
<1> HIDE DEF O, Page
<1>3. CASE pages = {}
  <2>1. InsertAfter(p) = 0
        BY <1>2, <1>3
  <2>2. \A k \in 1 .. Len(O) : Page(k) \notin 1 .. p
        BY <1>1, <1>3
  <2> QED
    BY <1>1, <2>1, <2>2 DEF O, Page
<1>4. CASE pages # {}
  <2>1. pages \in SUBSET Nat /\ \A x \in pages : x <= p
        OBVIOUS
  <2> DEFINE m == Max(pages)
  <2>2. m \in pages /\ \A x \in pages : x <= m
    <3> HIDE DEF pages
    <3> QED
      BY <1>4, <2>1, MaxIs
  <2> DEFINE K == {k \in DOMAIN O : Page(k) = m}
  <2>3. m \in 1 .. p /\ \A k \in 1 .. Len(O) : Page(k) \in 1 .. p => Page(k) <= m
        BY <1>1, <2>2
  <2>4. K # {}
        BY <2>2
  <2> HIDE DEF m
  <2>5. K \in SUBSET Nat /\ \A k \in K : k <= Len(O)
        BY <1>1
  <2>6. Max(K) \in K /\ \A k \in K : k <= Max(K)
    <3> HIDE DEF K
    <3> QED
      BY <1>1, <2>4, <2>5, MaxIs
  <2>7. InsertAfter(p) = Max(K)
        BY <1>2, <1>4 DEF m
  <2> DEFINE c == InsertAfter(p)
  <2>8. c \in 1 .. Len(O) /\ Page(c) = m
        BY <1>1, <2>6, <2>7
  <2>9. \A k \in 1 .. Len(O) : Page(k) \in 1 .. p => Page(k) < m \/ (Page(k) = m /\ k <= c)
    <3> TAKE k \in 1 .. Len(O)
    <3> HAVE Page(k) \in 1 .. p
    <3>1. Page(k) <= m /\ m \in Nat /\ Page(k) \in Nat
          BY <2>3
    <3>2. Page(k) = m => k <= c
          BY <1>1, <2>6, <2>7
    <3> HIDE DEF c
    <3> QED
      BY <3>1, <3>2
  <2>10. c # 0 /\ c \in 0 .. Len(O)
         BY <1>1, <2>8
  <2> QED
    BY <2>3, <2>8, <2>9, <2>10 DEF O, Page
<1> QED
  BY <1>3, <1>4

\* t is s with e as its member i.
Inserted(s, i, e, t) ==
  /\ Len(t) = Len(s) + 1
  /\ \A k \in 1 .. Len(s) + 1 : t[k] = IF k < i THEN s[k] ELSE IF k = i THEN e ELSE s[k - 1]

LEMMA InsertAtIs ==
  ASSUME NEW V, NEW s \in Seq(V), NEW e \in V, NEW i \in 1 .. Len(s) + 1
  PROVE  InsertAt(s, i, e) \in Seq(V) /\ Inserted(s, i, e, InsertAt(s, i, e))
<1> DEFINE N == Len(s)
           a == SubSeq(s, 1, i - 1)
           c == SubSeq(s, i, N)
           t == InsertAt(s, i, e)
<1>1. N \in Nat /\ i \in Nat /\ i >= 1 /\ i <= N + 1 /\ \A k \in 1 .. N : s[k] \in V
      OBVIOUS
<1> HIDE DEF N
<1>2. /\ a \in Seq(V) /\ Len(a) = i - 1
      /\ \A k \in 1 .. i - 1 : a[k] = s[k]
  <2>1. \A k \in 1 .. i - 1 : s[k] \in V
        BY <1>1
  <2>2. i - 1 \in Int /\ 1 \in Int
        BY <1>1
  <2>3. /\ a \in Seq(V) /\ Len(a) = IF 1 <= i - 1 THEN (i - 1) - 1 + 1 ELSE 0
        /\ \A k \in 1 .. (i - 1) - 1 + 1 : a[k] = s[1 + k - 1]
        BY <2>1, <2>2, SubSeqProperties
  <2> HIDE DEF a
  <2>4. \A k \in 1 .. i - 1 : k \in 1 .. (i - 1) - 1 + 1 /\ 1 + k - 1 = k
        BY <1>1
  <2> QED
    BY <1>1, <2>3, <2>4
<1>3. /\ c \in Seq(V) /\ Len(c) = N - i + 1
      /\ \A k \in 1 .. N - i + 1 : c[k] = s[i + k - 1]
  <2>1. \A k \in i .. N : s[k] \in V
        BY <1>1
  <2>2. i \in Int /\ N \in Int
        BY <1>1
  <2>3. /\ c \in Seq(V) /\ Len(c) = IF i <= N THEN N - i + 1 ELSE 0
        /\ \A k \in 1 .. N - i + 1 : c[k] = s[i + k - 1]
        BY <2>1, <2>2, SubSeqProperties
  <2> HIDE DEF c
  <2> QED
    BY <1>1, <2>3
<1>4. t = (a \o <<e>>) \o c
      BY DEF InsertAt, N
<1> HIDE DEF a, c, t
<1>5. /\ a \o <<e>> \in Seq(V) /\ Len(a \o <<e>>) = i
      /\ \A k \in 1 .. i : (a \o <<e>>)[k] = IF k < i THEN s[k] ELSE e
  <2>1. Append(a, e) = a \o <<e>>
        BY <1>2, AppendIsConcat
  <2>2. /\ Append(a, e) \in Seq(V) /\ Len(Append(a, e)) = Len(a) + 1
        /\ \A k \in 1 .. Len(a) : Append(a, e)[k] = a[k]
        /\ Append(a, e)[Len(a) + 1] = e
        BY <1>2, AppendProperties
  <2>3. \A k \in 1 .. i : IF k < i THEN k \in 1 .. Len(a) ELSE k = Len(a) + 1
        BY <1>1, <1>2
  <2> DEFINE w == Append(a, e)
  <2>4. Len(w) = i /\ \A k \in 1 .. i : w[k] = IF k < i THEN s[k] ELSE e
    <3> HIDE DEF w
    <3>1. /\ Len(w) = Len(a) + 1 /\ w[Len(a) + 1] = e
          /\ \A k \in 1 .. Len(a) : w[k] = a[k]
          BY <2>2 DEF w
    <3> QED
      BY <1>1, <1>2, <2>3, <3>1
  <2> QED
    BY <2>1, <2>2, <2>4
<1> DEFINE w == a \o <<e>>
<1>6. /\ w \in Seq(V) /\ Len(w) = i
      /\ \A k \in 1 .. i : w[k] = IF k < i THEN s[k] ELSE e
      BY <1>5
<1> HIDE DEF w
<1>7. /\ t \in Seq(V) /\ Len(t) = Len(w) + Len(c)
      /\ \A k \in 1 .. Len(w) + Len(c) : t[k] = IF k <= Len(w) THEN w[k] ELSE c[k - Len(w)]
  <2>1. t = w \o c
        BY <1>4 DEF w
  <2> QED
    BY <1>3, <1>6, <2>1, ConcatProperties
<1>8. Len(w) + Len(c) = N + 1
      BY <1>1, <1>3, <1>6
<1>9. ASSUME NEW k \in 1 .. N + 1
      PROVE  t[k] = IF k < i THEN s[k] ELSE IF k = i THEN e ELSE s[k - 1]
  <2>1. t[k] = IF k <= i THEN w[k] ELSE c[k - i]
        BY <1>6, <1>7, <1>8
  <2>2. CASE k <= i
    <3>1. k \in 1 .. i
          BY <1>1, <2>2
    <3> QED
      BY <1>1, <1>6, <2>1, <2>2, <3>1
  <2>3. CASE k > i
    <3>1. k - i \in 1 .. N - i + 1 /\ i + (k - i) - 1 = k - 1
          BY <1>1, <2>3
    <3>2. c[k - i] = s[k - 1]
          BY <1>3, <3>1
    <3> QED
      BY <1>1, <2>1, <2>3, <3>2
  <2> QED
    BY <1>1, <2>2, <2>3
<1>10. Inserted(s, i, e, t)
      BY <1>7, <1>8, <1>9 DEF Inserted, N
<1> QED
  BY <1>7, <1>10 DEF t

LEMMA AppendInserted ==
  ASSUME NEW V, NEW s \in Seq(V), NEW e \in V
  PROVE  Append(s, e) \in Seq(V) /\ Inserted(s, Len(s) + 1, e, Append(s, e))
<1> DEFINE N == Len(s)
           w == Append(s, e)
<1>1. /\ w \in Seq(V) /\ Len(w) = N + 1 /\ w[N + 1] = e /\ N \in Nat
      /\ \A k \in 1 .. N : w[k] = s[k]
      BY AppendProperties
<1> HIDE DEF N, w
<1>2. \A k \in 1 .. N + 1 : w[k] = IF k < N + 1 THEN s[k] ELSE IF k = N + 1 THEN e ELSE s[k - 1]
  <2> TAKE k \in 1 .. N + 1
  <2>1. k = N + 1 \/ (k \in 1 .. N /\ k < N + 1)
        BY <1>1
  <2> QED
    BY <1>1, <2>1
<1>3. Inserted(s, N + 1, e, w)
      BY <1>1, <1>2 DEF Inserted, N
<1> QED
  BY <1>1, <1>3 DEF N, w

\* The fallback that is placed in step n; what has been placed after n steps.
Turn(n) == Fallbacks[Len(Fallbacks) + 1 - n]
Perm(n, x) ==
  /\ x \in Seq(DOMAIN plan) /\ Len(x) = Len(Ordinary) + n
  /\ \A k, l \in 1 .. Len(x) : x[k] = x[l] => k = l
  /\ \A k \in 1 .. Len(x) : x[k] \in 1 .. BlocksEnd \/ \E m \in 1 .. n : x[k] = Turn(m)
  /\ \A e \in 1 .. BlocksEnd : \E k \in 1 .. Len(x) : x[k] = e
  /\ \A m \in 1 .. n : \E k \in 1 .. Len(x) : x[k] = Turn(m)
\* Where the fallback of page p goes in x.
Place(x, p) == IF InsertAfter(p) = 0 THEN Len(x) + 1 ELSE InsertAfter(p) + 1

LEMMA TurnIs ==
  ASSUME Chosen, AsPlanned, NEW n \in 1 .. Len(Fallbacks)
  PROVE  /\ Turn(n) \in (BlocksEnd + 1) .. Len(plan) /\ Turn(n) \in DOMAIN plan
         /\ plan[Turn(n)].page \in Nat \ {0} /\ plan[Turn(n)].block = 0 /\ PageFallback(plan[Turn(n)])
         /\ \A m \in 1 .. n - 1 : Turn(m) # Turn(n) /\ plan[Turn(n)].page < plan[Turn(m)].page
<1>1. Fallbacks \in Seq(DOMAIN plan) /\ Len(Fallbacks) \in Nat /\ BlocksEnd \in Nat /\ DOMAIN plan = 1 .. Len(plan)
      BY SplitIs, PlanIs
<1>2. Len(Fallbacks) + 1 - n \in 1 .. Len(Fallbacks)
      BY <1>1
<1>3. Turn(n) \in (BlocksEnd + 1) .. Len(plan)
      BY <1>2, SplitIs DEF Turn
<1>4. Turn(n) \in DOMAIN plan /\ Turn(n) > BlocksEnd
      BY <1>1, <1>3
<1>5. plan[Turn(n)].page \in MissedPages /\ plan[Turn(n)].block = 0 /\ PageFallback(plan[Turn(n)])
      BY <1>4, ElementFacts
<1>6. plan[Turn(n)].page \in Nat \ {0}
      BY <1>5, MissedPagesIs
<1>7. ASSUME NEW m \in 1 .. n - 1
      PROVE  Turn(m) # Turn(n) /\ plan[Turn(n)].page < plan[Turn(m)].page
  <2>1. Len(Fallbacks) + 1 - m \in 1 .. Len(Fallbacks) /\ Len(Fallbacks) + 1 - n < Len(Fallbacks) + 1 - m
        BY <1>1
  <2>2. Turn(n) < Turn(m)
        BY <1>2, <2>1, SplitIs DEF Turn
  <2>3. Turn(m) \in (BlocksEnd + 1) .. Len(plan)
        BY <2>1, SplitIs DEF Turn
  <2>4. plan[Turn(n)].page < plan[Turn(m)].page
        BY <1>3, <2>2, <2>3, PlanIs
  <2>5. Turn(n) \in Nat /\ Turn(m) \in Nat
        BY <1>1, <1>3, <2>3
  <2> QED
    BY <2>2, <2>4, <2>5
<1> QED
  BY <1>3, <1>4, <1>5, <1>6, <1>7

LEMMA PlacedIs ==
  ASSUME Chosen, AsPlanned, NEW n \in 1 .. Len(Fallbacks), NEW x \in Seq(DOMAIN plan),
         Len(x) >= Len(Ordinary)
  PROVE  LET p == plan[Turn(n)].page t == Placed(x, Turn(n)) IN
         /\ Place(x, p) \in 1 .. Len(x) + 1
         /\ t \in Seq(DOMAIN plan) /\ Inserted(x, Place(x, p), Turn(n), t)
<1> DEFINE e == Turn(n)
           p == plan[e].page
<1>1. e \in DOMAIN plan /\ p \in Nat
      BY TurnIs
<1>2. InsertAfter(p) \in 0 .. Len(Ordinary)
      BY <1>1, InsertAfterIs
<1>3. Len(x) \in Nat /\ Len(Ordinary) \in Nat
      BY SplitIs
<1>4. Placed(x, e) = IF InsertAfter(p) = 0 THEN Append(x, e) ELSE InsertAt(x, InsertAfter(p) + 1, e)
      BY DEF Placed
<1> HIDE DEF e, p
<1>5. CASE InsertAfter(p) = 0
  <2>1. Place(x, p) = Len(x) + 1 /\ Placed(x, e) = Append(x, e)
        BY <1>4, <1>5 DEF Place
  <2>2. Append(x, e) \in Seq(DOMAIN plan) /\ Inserted(x, Len(x) + 1, e, Append(x, e))
        BY <1>1, AppendInserted
  <2> QED
    BY <1>3, <2>1, <2>2 DEF e, p
<1>6. CASE InsertAfter(p) # 0
  <2> DEFINE i == InsertAfter(p) + 1
  <2>1. Place(x, p) = i /\ Placed(x, e) = InsertAt(x, i, e)
        BY <1>4, <1>6 DEF Place
  <2>2. i \in 1 .. Len(x) + 1
        BY <1>2, <1>3
  <2> HIDE DEF i
  <2>3. InsertAt(x, i, e) \in Seq(DOMAIN plan) /\ Inserted(x, i, e, InsertAt(x, i, e))
        BY <1>1, <2>2, InsertAtIs
  <2> QED
    BY <2>1, <2>2, <2>3 DEF e, p
<1> QED
  BY <1>5, <1>6

\* Where the members of x are after e has been inserted.
Shifted(x, i, e, t) ==
  /\ Len(t) = Len(x) + 1 /\ t[i] = e
  /\ \A k \in 1 .. Len(x) : \E j \in 1 .. Len(x) + 1 :
       j # i /\ t[j] = x[k] /\ j = IF k < i THEN k ELSE k + 1
  /\ \A j \in 1 .. Len(x) + 1 : j # i =>
       \E k \in 1 .. Len(x) : t[j] = x[k] /\ j = IF k < i THEN k ELSE k + 1

LEMMA InsertedIs ==
  ASSUME NEW V, NEW x \in Seq(V), NEW i \in 1 .. Len(x) + 1, NEW e, NEW t, Inserted(x, i, e, t)
  PROVE  Shifted(x, i, e, t)
<1>1. Len(x) \in Nat /\ Len(t) = Len(x) + 1
      BY DEF Inserted
<1> DEFINE N == Len(x)
<1>2. N \in Nat /\ i \in 1 .. N + 1
         /\ \A k \in 1 .. N + 1 : t[k] = IF k < i THEN x[k] ELSE IF k = i THEN e ELSE x[k - 1]
      BY DEF Inserted
<1> HIDE DEF N
<1>3. t[i] = e
      BY <1>2
<1>4. \A k \in 1 .. N : \E j \in 1 .. N + 1 : j # i /\ t[j] = x[k] /\ j = IF k < i THEN k ELSE k + 1
  <2> TAKE k \in 1 .. N
  <2>1. CASE k < i
    <3>1. k \in 1 .. N + 1 /\ k # i
          BY <1>2, <2>1
    <3> QED
      BY <1>2, <2>1, <3>1
  <2>2. CASE ~(k < i)
    <3>1. k + 1 \in 1 .. N + 1 /\ k + 1 # i /\ ~(k + 1 < i) /\ (k + 1) - 1 = k
          BY <1>2, <2>2
    <3> QED
      BY <1>2, <2>2, <3>1
  <2> QED
    BY <2>1, <2>2
<1>5. \A j \in 1 .. N + 1 : j # i =>
        \E k \in 1 .. N : t[j] = x[k] /\ j = IF k < i THEN k ELSE k + 1
  <2> TAKE j \in 1 .. N + 1
  <2> HAVE j # i
  <2>1. CASE j < i
    <3>1. j \in 1 .. N
          BY <1>2, <2>1
    <3> QED
      BY <1>2, <2>1, <3>1
  <2>2. CASE j > i
    <3>1. j - 1 \in 1 .. N /\ ~(j - 1 < i) /\ j = (j - 1) + 1 /\ ~(j < i)
          BY <1>2, <2>2
    <3> QED
      BY <1>2, <2>2, <3>1
  <2> QED
    BY <1>2, <2>1, <2>2
<1> QED
  BY <1>1, <1>3, <1>4, <1>5 DEF N, Shifted

LEMMA PermOne ==
  ASSUME Chosen, AsPlanned, NEW n \in Nat, n + 1 <= Len(Fallbacks), NEW x, Perm(n, x)
  PROVE  Perm(n + 1, Placed(x, Turn(n + 1)))
<1> DEFINE e == Turn(n + 1)
           t == Placed(x, e)
           i == Place(x, plan[e].page)
           N == Len(x)
<1>1. /\ n + 1 \in 1 .. Len(Fallbacks) /\ (n + 1) - 1 = n /\ Len(Ordinary) \in Nat
      /\ x \in Seq(DOMAIN plan) /\ N \in Nat /\ N = Len(Ordinary) + n
      BY SplitIs DEF Perm
<1>2. i \in 1 .. N + 1 /\ t \in Seq(DOMAIN plan) /\ Inserted(x, i, e, t)
      BY <1>1, PlacedIs
<1>3. e > BlocksEnd /\ e \in Nat /\ BlocksEnd \in Nat /\ \A m \in 1 .. n : Turn(m) # e
      BY <1>1, TurnIs, PlanIs
<1>4. e = Turn(n + 1)
      OBVIOUS
<1> HIDE DEF e, t, i
<1>5. /\ Len(t) = N + 1 /\ t[i] = e
      /\ \A k \in 1 .. N : \E j \in 1 .. N + 1 :
           j # i /\ t[j] = x[k] /\ j = IF k < i THEN k ELSE k + 1
      /\ \A j \in 1 .. N + 1 : j # i =>
           \E k \in 1 .. N : t[j] = x[k] /\ j = IF k < i THEN k ELSE k + 1
  <2>1. x \in Seq(DOMAIN plan) /\ i \in 1 .. Len(x) + 1
        BY <1>1, <1>2
  <2>2. Inserted(x, i, e, t)
        BY <1>2
  <2>3. Shifted(x, i, e, t)
        BY <2>1, <2>2, InsertedIs
  <2> QED
    BY <2>3 DEF Shifted
<1>6. /\ \A k, l \in 1 .. N : x[k] = x[l] => k = l
      /\ \A k \in 1 .. N : x[k] \in 1 .. BlocksEnd \/ \E m \in 1 .. n : x[k] = Turn(m)
      /\ \A d \in 1 .. BlocksEnd : \E k \in 1 .. N : x[k] = d
      /\ \A m \in 1 .. n : \E k \in 1 .. N : x[k] = Turn(m)
      BY DEF Perm
<1> HIDE DEF N
<1>7. \A k \in 1 .. N : x[k] # e
      BY <1>3, <1>6
<1>8. \A k, l \in 1 .. N + 1 : t[k] = t[l] => k = l
  <2> SUFFICES ASSUME NEW k \in 1 .. N + 1, NEW l \in 1 .. N + 1, t[k] = t[l] PROVE k = l
      OBVIOUS
  <2>1. CASE k = i
        BY <1>5, <1>7, <2>1
  <2>2. CASE l = i
        BY <1>5, <1>7, <2>2
  <2>3. CASE k # i /\ l # i
    <3>1. PICK a \in 1 .. N : t[k] = x[a] /\ k = IF a < i THEN a ELSE a + 1
          BY <1>5, <2>3
    <3>2. PICK b \in 1 .. N : t[l] = x[b] /\ l = IF b < i THEN b ELSE b + 1
          BY <1>5, <2>3
    <3>3. x[a] = x[b]
          BY <3>1, <3>2
    <3>4. a = b
          BY <1>6, <3>3
    <3> QED
      BY <3>1, <3>2, <3>4
  <2> QED
    BY <2>1, <2>2, <2>3
<1>9. \A m \in 1 .. n : m \in 1 .. n + 1
      OBVIOUS
<1>10. n + 1 \in 1 .. n + 1 /\ \A m \in 1 .. n + 1 : m = n + 1 \/ m \in 1 .. n
      OBVIOUS
<1>11. \A k \in 1 .. N + 1 : t[k] \in 1 .. BlocksEnd \/ \E m \in 1 .. n + 1 : t[k] = Turn(m)
  <2> TAKE k \in 1 .. N + 1
  <2>1. CASE k = i
        BY <1>4, <1>5, <1>10, <2>1
  <2>2. CASE k # i
    <3>1. PICK a \in 1 .. N : t[k] = x[a]
          BY <1>5, <2>2
    <3>2. x[a] \in 1 .. BlocksEnd \/ \E m \in 1 .. n : x[a] = Turn(m)
          BY <1>6
    <3> QED
      BY <1>9, <3>1, <3>2
  <2> QED
    BY <2>1, <2>2
<1>12. \A d \in 1 .. BlocksEnd : \E k \in 1 .. N + 1 : t[k] = d
  <2> TAKE d \in 1 .. BlocksEnd
  <2>1. PICK a \in 1 .. N : x[a] = d
        BY <1>6
  <2>2. PICK j \in 1 .. N + 1 : t[j] = x[a]
        BY <1>5
  <2> QED
    BY <2>1, <2>2
<1>13. \A m \in 1 .. n + 1 : \E k \in 1 .. N + 1 : t[k] = Turn(m)
  <2> TAKE m \in 1 .. n + 1
  <2>1. CASE m = n + 1
        BY <1>2, <1>4, <1>5, <2>1
  <2>2. CASE m \in 1 .. n
    <3>1. PICK a \in 1 .. N : x[a] = Turn(m)
          BY <1>6, <2>2
    <3>2. PICK j \in 1 .. N + 1 : t[j] = x[a]
          BY <1>5
    <3> QED
      BY <3>1, <3>2
  <2> QED
    BY <1>10, <2>1, <2>2
<1>14. Len(t) = Len(Ordinary) + (n + 1)
      BY <1>1, <1>5
<1>15. Perm(n + 1, t)
      BY <1>2, <1>5, <1>8, <1>11, <1>12, <1>13, <1>14 DEF Perm
<1> QED
  BY <1>15 DEF t, e

LEMMA InsertAfterOrdered ==
  ASSUME Chosen, AsPlanned, BlocksInOrder, NEW p \in Nat
  PROVE  /\ \A k \in 1 .. InsertAfter(p) : plan[Ordinary[k]].page <= p
         /\ InsertAfter(p) # 0 =>
              \A k \in 1 .. Len(Ordinary) :
                k > InsertAfter(p) /\ plan[Ordinary[k]].page # 0 => plan[Ordinary[k]].page > p
         /\ \A q \in Nat : p <= q => InsertAfter(p) <= InsertAfter(q)
<1> DEFINE Page(k) == plan[Ordinary[k]].page
           c == InsertAfter(p)
<1>1. /\ Len(Ordinary) \in Nat
      /\ \A k \in 1 .. Len(Ordinary) : Ordinary[k] \in 1 .. BlocksEnd /\ Page(k) \in Nat
  <2>1. Len(Ordinary) \in Nat /\ \A k \in 1 .. Len(Ordinary) : Ordinary[k] \in 1 .. BlocksEnd
        BY SplitIs
  <2>2. \A e \in 1 .. BlocksEnd : plan[e].page \in Nat
    <3>1. plan \in Seq(Element) /\ BlocksEnd \in 0 .. Len(plan)
          BY PlanIs
    <3>2. \A e \in 1 .. BlocksEnd : plan[e] \in Element
          BY <3>1
    <3> QED
      BY <3>2 DEF Element
  <2> QED
    BY <2>1, <2>2
<1>2. \A k, l \in 1 .. Len(Ordinary) : k < l /\ Page(k) # 0 /\ Page(l) # 0 => Page(k) <= Page(l)
  <2> SUFFICES ASSUME NEW k \in 1 .. Len(Ordinary), NEW l \in 1 .. Len(Ordinary), k < l,
                      Page(k) # 0, Page(l) # 0
               PROVE  Page(k) <= Page(l)
      OBVIOUS
  <2>1. Ordinary[k] < Ordinary[l] /\ Ordinary[k] \in 1 .. BlocksEnd /\ Ordinary[l] \in 1 .. BlocksEnd
        BY SplitIs
  <2> QED
    BY <2>1, OrderOfElements
<1>3. c \in 0 .. Len(Ordinary)
      BY InsertAfterIs
<1>4. c # 0 => /\ Page(c) \in 1 .. p
               /\ \A k \in 1 .. Len(Ordinary) :
                    Page(k) \in 1 .. p => Page(k) < Page(c) \/ (Page(k) = Page(c) /\ k <= c)
      BY InsertAfterIs
<1> HIDE DEF Page, c
<1>5. ASSUME NEW k \in 1 .. c PROVE Page(k) <= p
  <2>1. c # 0 /\ c \in 1 .. Len(Ordinary) /\ k \in 1 .. Len(Ordinary)
        BY <1>1, <1>3
  <2>2. Page(c) \in 1 .. p /\ Page(k) \in Nat
        BY <1>1, <1>4, <2>1
  <2>3. CASE k = c
        BY <2>2, <2>3
  <2>4. CASE k < c /\ Page(k) # 0
    <3>1. Page(k) <= Page(c)
          BY <1>2, <2>1, <2>2, <2>4
    <3> QED
      BY <2>2, <3>1
  <2>5. CASE Page(k) = 0
        BY <2>5
  <2> QED
    BY <1>3, <2>3, <2>4, <2>5
<1>6. ASSUME c # 0, NEW k \in 1 .. Len(Ordinary), k > c, Page(k) # 0 PROVE Page(k) > p
  <2>1. c \in 1 .. Len(Ordinary) /\ c < k
        BY <1>3, <1>6
  <2>2. Page(c) \in 1 .. p /\ Page(k) \in Nat /\ Page(c) \in Nat
        BY <1>1, <1>4, <1>6
  <2>3. Page(c) <= Page(k)
        BY <1>2, <1>6, <2>1, <2>2
  <2> SUFFICES ASSUME Page(k) <= p PROVE FALSE
      BY <2>2
  <2>4. Page(k) \in 1 .. p
        BY <1>6, <2>2
  <2>5. Page(k) < Page(c) \/ (Page(k) = Page(c) /\ k <= c)
        BY <1>4, <1>6, <2>4
  <2> QED
    BY <1>3, <1>6, <2>2, <2>3, <2>5
<1>7. ASSUME NEW q \in Nat, p <= q PROVE c <= InsertAfter(q)
  <2> DEFINE d == InsertAfter(q)
  <2>1. d \in 0 .. Len(Ordinary)
        BY InsertAfterIs
  <2>2. d # 0 => /\ Page(d) \in 1 .. q
                 /\ \A k \in 1 .. Len(Ordinary) :
                      Page(k) \in 1 .. q => Page(k) < Page(d) \/ (Page(k) = Page(d) /\ k <= d)
        BY InsertAfterIs DEF Page
  <2>3. d = 0 => \A k \in 1 .. Len(Ordinary) : Page(k) \notin 1 .. q
        BY InsertAfterIs DEF Page
  <2> HIDE DEF d
  <2> SUFFICES ASSUME d < c PROVE FALSE
      BY <1>3, <2>1 DEF d
  <2>4. c # 0 /\ c \in 1 .. Len(Ordinary)
        BY <1>3, <2>1
  <2>5. Page(c) \in 1 .. p /\ Page(c) \in 1 .. q
        BY <1>4, <1>7, <2>4
  <2>6. d # 0
        BY <2>3, <2>4, <2>5
  <2>7. Page(c) < Page(d)
        BY <1>3, <2>1, <2>2, <2>4, <2>5, <2>6
  <2>8. d \in 1 .. Len(Ordinary) /\ Page(d) # 0 /\ Page(d) \in Nat
        BY <2>1, <2>2, <2>6
  <2>9. Page(d) <= Page(c)
        BY <1>2, <2>4, <2>5, <2>8
  <2> QED
    BY <2>5, <2>7, <2>8, <2>9
<1> QED
  BY <1>5, <1>6, <1>7 DEF Page, c

\* What InReadingOrder says of two elements, the first in front of the second.
InPlace(d, e) ==
  LET a == plan[d] b == plan[e] IN
  /\ a.block # 0 /\ b.block # 0 => a.block < b.block
  /\ Early(a) /\ Early(b) => a.page < b.page
  /\ Early(b) /\ ~PageFallback(a) => a.page <= b.page
  /\ Early(a) /\ ~PageFallback(b) /\ b.page # 0 => a.page <= b.page

\* The part of the sequence that no later step has to do with.
Stay(n) == IF n = 0 THEN Len(Ordinary) ELSE InsertAfter(plan[Turn(n)].page)
Sorted(n, x) ==
  /\ \A k \in 1 .. Stay(n) : x[k] = Ordinary[k]
  /\ \A k, l \in 1 .. Len(x) : k < l => InPlace(x[k], x[l])

LEMMA SortedNone ==
  ASSUME Chosen, AsPlanned
  PROVE  Perm(0, Ordinary) /\ Sorted(0, Ordinary)
<1>1. /\ Ordinary \in Seq(DOMAIN plan) /\ Len(Ordinary) \in Nat
      /\ \A k \in 1 .. Len(Ordinary) : Ordinary[k] \in 1 .. BlocksEnd
      /\ \A k, l \in 1 .. Len(Ordinary) : k < l => Ordinary[k] < Ordinary[l]
      /\ \A e \in 1 .. BlocksEnd : \E k \in 1 .. Len(Ordinary) : Ordinary[k] = e
      BY SplitIs
<1>2. BlocksEnd \in 0 .. Len(plan) /\ DOMAIN plan = 1 .. Len(plan)
      BY PlanIs
<1>3. Perm(0, Ordinary)
  <2>1. \A k, l \in 1 .. Len(Ordinary) : Ordinary[k] = Ordinary[l] => k = l
    <3> SUFFICES ASSUME NEW k \in 1 .. Len(Ordinary), NEW l \in 1 .. Len(Ordinary),
                        Ordinary[k] = Ordinary[l], k # l
                 PROVE  FALSE
        OBVIOUS
    <3>1. Ordinary[k] \in Nat /\ Ordinary[l] \in Nat
          BY <1>1, <1>2
    <3>2. k < l \/ l < k
          BY <1>1
    <3> QED
      BY <1>1, <3>1, <3>2
  <2> QED
    BY <1>1, <2>1 DEF Perm
<1>4. Sorted(0, Ordinary)
  <2>1. \A k, l \in 1 .. Len(Ordinary) : k < l => InPlace(Ordinary[k], Ordinary[l])
    <3> SUFFICES ASSUME NEW k \in 1 .. Len(Ordinary), NEW l \in 1 .. Len(Ordinary), k < l
                 PROVE  InPlace(Ordinary[k], Ordinary[l])
        OBVIOUS
    <3> DEFINE d == Ordinary[k]
               e == Ordinary[l]
    <3>1. d \in 1 .. BlocksEnd /\ e \in 1 .. BlocksEnd /\ d < e
          BY <1>1
    <3> HIDE DEF d, e
    <3>2. plan[d].block # 0 /\ plan[e].block # 0 => plan[d].block < plan[e].block
          BY <3>1, OrderOfElements
    <3>3. ~PageFallback(plan[d]) /\ ~PageFallback(plan[e])
      <4>1. d \in DOMAIN plan /\ e \in DOMAIN plan /\ ~(d > BlocksEnd) /\ ~(e > BlocksEnd)
            BY <1>2, <3>1
      <4> QED
        BY <4>1, ElementFacts
    <3>4. InPlace(d, e)
          BY <3>2, <3>3 DEF InPlace, Early
    <3> QED
      BY <3>4 DEF d, e
  <2> QED
    BY <2>1 DEF Sorted, Stay
<1> QED
  BY <1>3, <1>4

LEMMA SortedOne ==
  ASSUME Chosen, AsPlanned, BlocksInOrder, NEW n \in Nat, n + 1 <= Len(Fallbacks),
         NEW x, Perm(n, x), Sorted(n, x)
  PROVE  Sorted(n + 1, Placed(x, Turn(n + 1)))
<1> DEFINE e == Turn(n + 1)
           p == plan[e].page
           c == InsertAfter(p)
           t == Placed(x, e)
           i == Place(x, p)
           N == Len(x)
<1>1. /\ n + 1 \in 1 .. Len(Fallbacks) /\ (n + 1) - 1 = n /\ Len(Ordinary) \in Nat
      /\ x \in Seq(DOMAIN plan) /\ N \in Nat /\ N >= Len(Ordinary)
      /\ \A k \in 1 .. Len(Ordinary) : Ordinary[k] \in 1 .. BlocksEnd
      BY SplitIs DEF Perm
<1>2. i \in 1 .. N + 1 /\ Inserted(x, i, e, t)
      BY <1>1, PlacedIs
<1>3. /\ p \in Nat \ {0} /\ plan[e].block = 0 /\ PageFallback(plan[e])
      /\ \A m \in 1 .. n : p < plan[Turn(m)].page
      BY <1>1, TurnIs
<1>4. i = IF c = 0 THEN N + 1 ELSE c + 1
      BY DEF Place
<1>5. /\ c \in 0 .. Len(Ordinary) /\ c <= Stay(n)
      /\ \A k \in 1 .. c : plan[Ordinary[k]].page <= p
      /\ c # 0 => \A k \in 1 .. Len(Ordinary) :
                    k > c /\ plan[Ordinary[k]].page # 0 => plan[Ordinary[k]].page > p
  <2>1. c \in 0 .. Len(Ordinary)
        BY <1>3, InsertAfterIs
  <2>2. c <= Stay(n)
    <3>1. CASE n = 0
          BY <2>1, <3>1 DEF Stay
    <3>2. CASE n # 0
      <4> DEFINE q == plan[Turn(n)].page
      <4>1. n \in 1 .. n /\ n \in 1 .. Len(Fallbacks)
            BY <1>1, <3>2
      <4>2. p < q /\ q \in Nat
            BY <1>3, <4>1, TurnIs
      <4>3. Stay(n) = InsertAfter(q)
            BY <3>2 DEF Stay
      <4> HIDE DEF q
      <4>4. c <= InsertAfter(q)
        <5>1. p \in Nat /\ p <= q
              BY <1>3, <4>2
        <5> HIDE DEF p
        <5> QED
          BY <4>2, <5>1, InsertAfterOrdered
      <4> QED
        BY <4>3, <4>4
    <3> QED
      BY <3>1, <3>2
  <2>3. p \in Nat
        BY <1>3
  <2> HIDE DEF p
  <2> QED
    BY <2>1, <2>2, <2>3, InsertAfterOrdered
<1>6. Stay(n + 1) = c
      BY DEF Stay
<1>7. Early(plan[e]) <=> c # 0
      BY <1>3 DEF Early
<1> DEFINE Page(d) == plan[d].page
<1>8. p = Page(e)
      OBVIOUS
<1>9. /\ \A k \in 1 .. c : Page(Ordinary[k]) <= p
      /\ c # 0 => \A k \in 1 .. Len(Ordinary) :
                    k > c /\ Page(Ordinary[k]) # 0 => Page(Ordinary[k]) > p
      BY <1>5
<1> HIDE DEF e, p, c, t, i, Page
<1>10. /\ Len(t) = N + 1 /\ t[i] = e
       /\ \A j \in 1 .. N + 1 : j # i =>
            \E k \in 1 .. N : t[j] = x[k] /\ j = IF k < i THEN k ELSE k + 1
  <2>1. i \in 1 .. Len(x) + 1 /\ x \in Seq(DOMAIN plan)
        BY <1>1, <1>2
  <2>2. Inserted(x, i, e, t)
        BY <1>2
  <2>3. Shifted(x, i, e, t)
        BY <2>1, <2>2, InsertedIs
  <2> QED
    BY <2>3 DEF Shifted
<1>11. Stay(n) <= Len(Ordinary)
  <2>1. CASE n = 0
        BY <1>1, <2>1 DEF Stay
  <2>2. CASE n # 0
    <3>1. n \in 1 .. Len(Fallbacks)
          BY <1>1, <2>2
    <3>2. plan[Turn(n)].page \in Nat
          BY <3>1, TurnIs
    <3>3. InsertAfter(plan[Turn(n)].page) \in 0 .. Len(Ordinary)
          BY <3>2, InsertAfterIs
    <3> QED
      BY <1>1, <2>2, <3>3 DEF Stay
  <2> QED
    BY <2>1, <2>2
<1>12. Stay(n) \in Nat
  <2>1. CASE n = 0
        BY <1>1, <2>1 DEF Stay
  <2>2. CASE n # 0
    <3>1. plan[Turn(n)].page \in Nat
      <4>1. n \in 1 .. Len(Fallbacks)
            BY <1>1, <2>2
      <4> QED
        BY <4>1, TurnIs
    <3>2. InsertAfter(plan[Turn(n)].page) \in 0 .. Len(Ordinary)
          BY <3>1, InsertAfterIs
    <3> QED
      BY <1>1, <2>2, <3>2 DEF Stay
  <2> QED
    BY <2>1, <2>2
<1>13. \A k \in 1 .. c : k \in 1 .. N /\ x[k] = Ordinary[k]
  <2>1. \A k \in 1 .. c : k \in 1 .. Stay(n) /\ k \in 1 .. N
        BY <1>1, <1>5, <1>12
  <2> QED
    BY <2>1 DEF Sorted
<1>14. \A k \in 1 .. c : t[k] = Ordinary[k]
  <2> TAKE k \in 1 .. c
  <2>1. k < i /\ k \in 1 .. N + 1
        BY <1>1, <1>4, <1>5
  <2>2. t[k] = x[k]
        BY <1>1, <1>2, <2>1 DEF Inserted
  <2> QED
    BY <1>13, <2>2
<1>15. \A k \in 1 .. N : x[k] \in 1 .. BlocksEnd \/ \E m \in 1 .. n : x[k] = Turn(m)
       BY DEF Perm
<1>16. \A d \in 1 .. BlocksEnd : ~PageFallback(plan[d]) /\ \E k \in 1 .. Len(Ordinary) : Ordinary[k] = d
  <2> TAKE d \in 1 .. BlocksEnd
  <2>1. d \in DOMAIN plan /\ ~(d > BlocksEnd)
        BY PlanIs
  <2>2. ~PageFallback(plan[d])
        BY <2>1, ElementFacts
  <2> QED
    BY <2>2, SplitIs
\* In front of the new one, if that is early: the elements of the pages up to its own.
<1>17. ASSUME NEW k \in 1 .. N, k < i PROVE InPlace(x[k], e)
  <2>1. CASE c = 0
        BY <1>3, <1>7, <2>1 DEF InPlace
  <2>2. CASE c # 0
    <3>1. k \in 1 .. c
          BY <1>4, <1>5, <1>17, <2>2
    <3>2. x[k] = Ordinary[k] /\ Page(x[k]) <= Page(e)
          BY <1>8, <1>9, <1>13, <3>1
    <3>3. x[k] \in 1 .. BlocksEnd
          BY <1>1, <1>5, <3>1, <3>2
    <3>4. ~PageFallback(plan[x[k]])
          BY <1>16, <3>3
    <3> QED
      BY <1>3, <3>2, <3>4 DEF InPlace, Early, Page
  <2> QED
    BY <2>1, <2>2
\* Behind it: the fallbacks placed before, and the elements of later pages.
<1>18. ASSUME NEW k \in 1 .. N, k >= i PROVE InPlace(e, x[k])
  <2>1. c # 0 /\ k > c
        BY <1>1, <1>4, <1>5, <1>18
  <2>2. CASE x[k] \in 1 .. BlocksEnd
    <3>1. ~PageFallback(plan[x[k]])
          BY <1>16, <2>2
    <3>2. PICK m \in 1 .. Len(Ordinary) : Ordinary[m] = x[k]
          BY <1>16, <2>2
    <3>3. m > c
      <4> SUFFICES ASSUME m <= c PROVE FALSE
          BY <1>1, <1>5
      <4>1. m \in 1 .. c
            BY <1>5
      <4>2. m \in 1 .. N /\ x[m] = x[k]
            BY <1>13, <3>2, <4>1
      <4>3. m = k
            BY <4>2 DEF Perm
      <4> QED
        BY <1>5, <2>1, <4>3
    <3>4. Page(x[k]) # 0 => Page(x[k]) > p
          BY <1>9, <2>1, <3>2, <3>3
    <3>5. plan[x[k]].page # 0 => plan[e].page <= plan[x[k]].page
      <4>1. plan[x[k]] \in Element
        <5>1. plan \in Seq(Element) /\ BlocksEnd \in 0 .. Len(plan)
              BY PlanIs
        <5> QED
          BY <2>2, <5>1
      <4>2. Page(x[k]) \in Nat
            BY <4>1 DEF Element, Page
      <4> QED
        BY <1>3, <1>8, <3>4, <4>2 DEF Page
    <3> QED
      BY <1>3, <3>1, <3>5 DEF InPlace, Early
  <2>3. CASE \E m \in 1 .. n : x[k] = Turn(m)
    <3>1. PICK m \in 1 .. n : x[k] = Turn(m)
          BY <2>3
    <3>2. m \in 1 .. Len(Fallbacks)
          BY <1>1
    <3>3. plan[x[k]].block = 0 /\ PageFallback(plan[x[k]]) /\ p < plan[x[k]].page
          BY <1>3, <3>1, <3>2, TurnIs
    <3> QED
      BY <1>3, <1>8, <3>3 DEF InPlace, Page
  <2>4. x[k] \in 1 .. BlocksEnd \/ \E m \in 1 .. n : x[k] = Turn(m)
        BY <1>15
  <2> QED
    BY <2>2, <2>3, <2>4
<1>19. ASSUME NEW k \in 1 .. N + 1, NEW l \in 1 .. N + 1, k < l PROVE InPlace(t[k], t[l])
  <2>1. CASE k = i
    <3>1. PICK b \in 1 .. N : t[l] = x[b] /\ l = IF b < i THEN b ELSE b + 1
          BY <1>10, <1>19, <2>1
    <3>2. b >= i
          BY <1>2, <1>19, <2>1, <3>1
    <3> QED
      BY <1>10, <1>18, <2>1, <3>1, <3>2
  <2>2. CASE l = i
    <3>1. PICK a \in 1 .. N : t[k] = x[a] /\ k = IF a < i THEN a ELSE a + 1
          BY <1>10, <1>19, <2>2
    <3>2. a < i
          BY <1>2, <1>19, <2>2, <3>1
    <3> QED
      BY <1>10, <1>17, <2>2, <3>1, <3>2
  <2>3. CASE k # i /\ l # i
    <3>1. PICK a \in 1 .. N : t[k] = x[a] /\ k = IF a < i THEN a ELSE a + 1
          BY <1>10, <2>3
    <3>2. PICK b \in 1 .. N : t[l] = x[b] /\ l = IF b < i THEN b ELSE b + 1
          BY <1>10, <2>3
    <3>3. a < b
          BY <1>2, <1>19, <3>1, <3>2
    <3>4. InPlace(x[a], x[b])
          BY <3>3 DEF Sorted
    <3> QED
      BY <3>1, <3>2, <3>4
  <2> QED
    BY <2>1, <2>2, <2>3
<1>20. Sorted(n + 1, t)
       BY <1>6, <1>10, <1>14, <1>19 DEF Sorted
<1> QED
  BY <1>20 DEF t, e

OrderedTo ==
  {h \in [0 .. Len(Fallbacks) -> Seq(DOMAIN plan)] :
     /\ h[0] = Ordinary
     /\ \A n \in 1 .. Len(Fallbacks) : h[n] = Placed(h[n - 1], Turn(n))
     /\ \A n \in 0 .. Len(Fallbacks) : Perm(n, h[n])
     /\ Ordered = h[Len(Fallbacks)]}

LEMMA OrderedExists ==
  ASSUME Chosen, AsPlanned
  PROVE  OrderedTo # {}
<1> DEFINE N == Len(Fallbacks)
           V == Seq(DOMAIN plan)
           P(h) == h = [n \in 0 .. N |->
                          IF n = 0 THEN Ordinary ELSE Placed(h[n - 1], Fallbacks[N + 1 - n])]
           Long(x) == Len(x) >= Len(Ordinary)
           g == [y \in V \X (1 .. N) |-> IF Long(y[1]) THEN Placed(y[1], Turn(y[2])) ELSE y[1]]
<1>0. N \in Nat /\ Ordinary \in V /\ Len(Ordinary) \in Nat
      BY SplitIs
<1>1. g \in [V \X (1 .. N) -> V]
  <2>1. \A x \in V, n \in 1 .. N : Long(x) => Placed(x, Turn(n)) \in V
        BY PlacedIs
  <2> HIDE DEF V, N, Long
  <2> QED
    BY <2>1
<1>2. PICK h \in [0 .. N -> V] : h[0] = Ordinary /\ \A n \in 1 .. N : h[n] = g[<<h[n - 1], n>>]
  <2> HIDE DEF g, N, V
  <2>1. Recursive(V, N, Ordinary, g) # {}
        BY <1>0, <1>1, Recursion
  <2> QED
    BY <2>1 DEF Recursive
<1>3. \A n \in 1 .. N : Long(h[n - 1]) => h[n] = Placed(h[n - 1], Turn(n))
  <2> TAKE n \in 1 .. N
  <2>1. n - 1 \in 0 .. N
        BY <1>0
  <2>2. <<h[n - 1], n>> \in V \X (1 .. N)
    <3> HIDE DEF V, N
    <3> QED
      BY <2>1
  <2>3. g[<<h[n - 1], n>>] = IF Long(h[n - 1]) THEN Placed(h[n - 1], Turn(n)) ELSE h[n - 1]
    <3> HIDE DEF V, N, Long
    <3> QED
      BY <2>2
  <2> HIDE DEF g, Long
  <2> QED
    BY <1>2, <2>3
<1> DEFINE Here(n) == Perm(n, h[n])
           T == {n \in Nat : n <= N => Here(n)}
<1>4. Here(0)
      BY <1>2, SortedNone
<1>5. ASSUME NEW n \in Nat, n + 1 <= N, Here(n) PROVE Here(n + 1)
  <2>1. n + 1 \in 1 .. N /\ (n + 1) - 1 = n
        BY <1>0, <1>5
  <2>2. Long(h[n])
        BY <1>0, <1>5 DEF Perm
  <2>3. h[n + 1] = Placed(h[n], Turn(n + 1))
    <3> HIDE DEF Long, Here
    <3> QED
      BY <1>3, <2>1, <2>2
  <2> QED
    BY <1>5, <2>3, PermOne
<1>6. T = Nat
  <2> HIDE DEF Here
  <2>1. T \in SUBSET Nat
        OBVIOUS
  <2>2. 0 \in T
        BY <1>4
  <2>3. ASSUME NEW n \in T PROVE n + 1 \in T
    <3> SUFFICES ASSUME n + 1 <= N PROVE Here(n + 1)
        OBVIOUS
    <3>1. n \in Nat /\ Here(n)
          BY <1>0
    <3> QED
      BY <1>5, <3>1
  <2> HIDE DEF T
  <2> QED
    BY <2>1, <2>2, <2>3, Induction
<1>7. \A n \in 0 .. N : Perm(n, h[n])
  <2>1. \A n \in 0 .. N : n \in Nat /\ n <= N
        BY <1>0
  <2> QED
    BY <1>6, <2>1
<1>8. \A n \in 1 .. N : h[n] = Placed(h[n - 1], Turn(n))
  <2> TAKE n \in 1 .. N
  <2>1. n - 1 \in 0 .. N /\ n - 1 \in Nat
        BY <1>0
  <2>2. Perm(n - 1, h[n - 1])
        BY <1>7, <2>1
  <2>3. Long(h[n - 1])
        BY <1>0, <2>1, <2>2 DEF Perm
  <2> HIDE DEF Long
  <2> QED
    BY <1>3, <2>3
<1> HIDE DEF g, Here, T
<1>9. P(h)
  <2>1. \A n \in 0 .. N : n = 0 \/ n \in 1 .. N
        BY <1>0
  <2>2. \A n \in 0 .. N : h[n] = IF n = 0 THEN Ordinary ELSE Placed(h[n - 1], Fallbacks[N + 1 - n])
    <3> TAKE n \in 0 .. N
    <3>1. CASE n = 0
          BY <1>2, <3>1
    <3>2. CASE n \in 1 .. N
      <4>1. n # 0
            BY <3>2
      <4>2. h[n] = Placed(h[n - 1], Fallbacks[N + 1 - n])
            BY <1>8, <3>2 DEF Turn
      <4> QED
        BY <4>1, <4>2, Zenon
    <3> QED
      BY <2>1, <3>1, <3>2
  <2> QED
    BY <2>2
<1> DEFINE u == CHOOSE x : P(x)
<1>10. P(u)
  <2> HIDE DEF P
  <2> QED
    BY <1>9
<1>11. Ordered = u[N]
       BY DEF Ordered
<1>12. \A n \in 0 .. N : u[n] = h[n]
  <2>1. \A n \in 0 .. N : u[n] = IF n = 0 THEN Ordinary ELSE Placed(u[n - 1], Fallbacks[N + 1 - n])
    <3> HIDE DEF u
    <3> QED
      BY <1>10
  <2> HIDE DEF u
  <2>2. u[0] = h[0]
        BY <1>0, <1>2, <2>1
  <2>3. \A n \in 1 .. N : u[n - 1] = h[n - 1] => u[n] = h[n]
    <3> TAKE n \in 1 .. N
    <3>1. n \in 0 .. N /\ n # 0
          OBVIOUS
    <3> QED
      BY <1>8, <2>1, <3>1 DEF Turn
  <2>4. N \in Nat /\ GoAlike(u, h, N)
        BY <1>0, <2>2, <2>3 DEF GoAlike
  <2> HIDE DEF N
  <2> QED
    BY <2>4, SameSteps
<1>13. Ordered = h[N]
  <2>1. N \in 0 .. N
        BY <1>0
  <2> HIDE DEF u
  <2> QED
    BY <1>11, <1>12, <2>1
<1>14. h \in OrderedTo
  <2> HIDE DEF P, u
  <2> QED
    BY <1>2, <1>7, <1>8, <1>13 DEF OrderedTo
<1> QED
  BY <1>14

\* The order of the payload has every element once, and in its place if the
\* blocks are in the order of their pages.
LEMMA OrderedIs ==
  ASSUME Chosen, AsPlanned
  PROVE  /\ Ordered \in Seq(DOMAIN plan)
         /\ \A k, l \in 1 .. Len(Ordered) : Ordered[k] = Ordered[l] => k = l
         /\ \A e \in DOMAIN plan : \E k \in 1 .. Len(Ordered) : Ordered[k] = e
         /\ BlocksInOrder => \A k, l \in 1 .. Len(Ordered) : k < l => InPlace(Ordered[k], Ordered[l])
<1> DEFINE N == Len(Fallbacks)
<1>1. PICK h \in [0 .. N -> Seq(DOMAIN plan)] :
        /\ h[0] = Ordinary
        /\ \A n \in 1 .. N : h[n] = Placed(h[n - 1], Turn(n))
        /\ \A n \in 0 .. N : Perm(n, h[n])
        /\ Ordered = h[N]
      BY OrderedExists DEF OrderedTo
<1>2. N \in Nat /\ N \in 0 .. N
      BY SplitIs
<1>3. Perm(N, Ordered)
      BY <1>1, <1>2
<1>4. \A e \in DOMAIN plan : \E k \in 1 .. Len(Ordered) : Ordered[k] = e
  <2> TAKE e \in DOMAIN plan
  <2>1. e \in 1 .. Len(plan) /\ BlocksEnd \in Nat
        BY PlanIs
  <2>2. CASE e \in 1 .. BlocksEnd
        BY <1>3, <2>2 DEF Perm
  <2>3. CASE e \in (BlocksEnd + 1) .. Len(plan)
    <3>1. PICK k \in 1 .. N : Fallbacks[k] = e
          BY <2>3, SplitIs
    <3>2. N + 1 - k \in 1 .. N /\ N + 1 - (N + 1 - k) = k
          BY <1>2
    <3>3. Turn(N + 1 - k) = e
          BY <3>1, <3>2 DEF Turn
    <3> QED
      BY <1>3, <3>2, <3>3 DEF Perm
  <2> QED
    BY <2>1, <2>2, <2>3
<1>5. ASSUME BlocksInOrder PROVE Sorted(N, Ordered)
  <2> DEFINE Here(n) == Sorted(n, h[n])
             T == {n \in Nat : n <= N => Here(n)}
  <2>1. Here(0)
        BY <1>1, SortedNone
  <2>2. ASSUME NEW n \in Nat, n + 1 <= N, Here(n) PROVE Here(n + 1)
    <3>1. n + 1 \in 1 .. N /\ (n + 1) - 1 = n /\ n \in 0 .. N
          BY <1>2, <2>2
    <3>2. h[n + 1] = Placed(h[n], Turn(n + 1)) /\ Perm(n, h[n])
          BY <1>1, <3>1
    <3> QED
      BY <1>5, <2>2, <3>2, SortedOne
  <2>3. T = Nat
    <3> HIDE DEF Here
    <3>1. T \in SUBSET Nat
          OBVIOUS
    <3>2. 0 \in T
          BY <2>1
    <3>3. ASSUME NEW n \in T PROVE n + 1 \in T
      <4> SUFFICES ASSUME n + 1 <= N PROVE Here(n + 1)
          OBVIOUS
      <4>1. n \in Nat /\ Here(n)
            BY <1>2
      <4> QED
        BY <2>2, <4>1
    <3> HIDE DEF T
    <3> QED
      BY <3>1, <3>2, <3>3, Induction
  <2> QED
    BY <1>1, <1>2, <2>3
<1> QED
  BY <1>3, <1>4, <1>5 DEF Perm, Sorted

-----------------------------------------------------------------------------
(* The payload *)

LEMMA ShownIs ==
  ASSUME Chosen, AsPlanned, NEW kept \in SUBSET DOMAIN plan
  PROVE  LET shown == Filtered(Ordered, kept) IN
         /\ shown \in Seq(DOMAIN plan)
         /\ \A k \in 1 .. Len(shown) : shown[k] \in kept
         /\ \A k, l \in 1 .. Len(shown) : shown[k] = shown[l] => k = l
         /\ \A e \in kept : \E k \in 1 .. Len(shown) : shown[k] = e
         /\ BlocksInOrder => \A k, l \in 1 .. Len(shown) : k < l => InPlace(shown[k], shown[l])
<1> DEFINE s == Ordered
           f == Filtered(s, kept)
<1>1. /\ s \in Seq(DOMAIN plan)
      /\ \A k, l \in 1 .. Len(s) : s[k] = s[l] => k = l
      /\ \A e \in DOMAIN plan : \E k \in 1 .. Len(s) : s[k] = e
      /\ BlocksInOrder => \A k, l \in 1 .. Len(s) : k < l => InPlace(s[k], s[l])
      BY OrderedIs
<1> HIDE DEF s
<1>2. f \in Seq(DOMAIN plan) /\ Takes(s, kept, Len(s), f) # {}
      BY <1>1, FilteredTakes
<1> HIDE DEF f
<1>3. PICK m \in [1 .. Len(f) -> 1 .. Len(s)] :
        /\ \A k \in 1 .. Len(f) : f[k] = s[m[k]] /\ f[k] \in kept
        /\ \A k, l \in 1 .. Len(f) : k < l => m[k] < m[l]
        /\ \A i \in 1 .. Len(s) : s[i] \in kept => \E k \in 1 .. Len(f) : m[k] = i
  <2>1. PICK m \in Takes(s, kept, Len(s), f) : TRUE
        BY <1>2
  <2>2. /\ m \in [1 .. Len(f) -> 1 .. Len(s)]
        /\ \A k \in 1 .. Len(f) : f[k] = s[m[k]] /\ f[k] \in kept
        /\ \A k, l \in 1 .. Len(f) : k < l => m[k] < m[l]
        /\ \A i \in 1 .. Len(s) : s[i] \in kept => \E k \in 1 .. Len(f) : m[k] = i
        BY <2>1 DEF Takes
  <2> QED
    BY <2>2
<1>4. \A k, l \in 1 .. Len(f) : f[k] = f[l] => k = l
  <2> SUFFICES ASSUME NEW k \in 1 .. Len(f), NEW l \in 1 .. Len(f), f[k] = f[l], k # l PROVE FALSE
      OBVIOUS
  <2>1. m[k] \in 1 .. Len(s) /\ m[l] \in 1 .. Len(s)
        OBVIOUS
  <2>2. m[k] = m[l]
    <3>1. s[m[k]] = s[m[l]]
          BY <1>3
    <3>2. \A x, y \in 1 .. Len(s) : s[x] = s[y] => x = y
          BY <1>1
    <3> QED
      BY <2>1, <3>1, <3>2
  <2>3. k < l \/ l < k
        OBVIOUS
  <2> QED
    BY <1>3, <2>1, <2>2, <2>3
<1>5. \A e \in kept : \E k \in 1 .. Len(f) : f[k] = e
  <2> TAKE e \in kept
  <2>1. PICK i \in 1 .. Len(s) : s[i] = e
        BY <1>1
  <2>2. PICK k \in 1 .. Len(f) : m[k] = i
        BY <1>3, <2>1
  <2> QED
    BY <1>3, <2>1, <2>2
<1>6. BlocksInOrder => \A k, l \in 1 .. Len(f) : k < l => InPlace(f[k], f[l])
  <2> SUFFICES ASSUME BlocksInOrder, NEW k \in 1 .. Len(f), NEW l \in 1 .. Len(f), k < l
               PROVE  InPlace(f[k], f[l])
      OBVIOUS
  <2>1. m[k] \in 1 .. Len(s) /\ m[l] \in 1 .. Len(s) /\ m[k] < m[l]
        BY <1>3
  <2>2. InPlace(s[m[k]], s[m[l]])
        BY <1>1, <2>1
  <2> QED
    BY <1>3, <2>2
<1> QED
  BY <1>2, <1>3, <1>4, <1>5, <1>6 DEF f, s

LEMMA FileOfIs ==
  ASSUME DOMAIN files \subseteq Names, NEW e, NEW known
  PROVE  /\ FileOf(e, known) \in Names \cup {<<>>}
         /\ e \in DOMAIN known /\ known[e] \in DOMAIN files => FileOf(e, known) # <<>>
<1>1. <<>> \notin Names
  <2>1. \A n \in Names : n = <<n[1], n[2]>>
        BY DEF Names
  <2>2. \A a, b : <<a, b>> # <<>>
        OBVIOUS
  <2> QED
    BY <2>1, <2>2
<1> QED
  BY <1>1 DEF FileOf

\* An item is about its element; a table that is not whole in it names a file
\* that is there; an image of a block shows the caption that the block is given,
\* unless it has one of its own.
ItemOf(i, e) ==
  /\ i \in ItemType /\ i.elem = e
  /\ i.type = "table" => i.whole \/ i.file \in DOMAIN files
  /\ plan[e].rep = "image" /\ plan[e].block # 0 => i.caption = GivenTo(plan[e].block)

LEMMA CaptionForIs ==
  ASSUME Chosen, NEW i \in Positions
  PROVE  /\ CaptionFor(i) \in Nat /\ (CaptionFor(i) # 0 => CaptionFor(i) \in Captions)
         /\ GivenTo(i) \in Nat
<1>1. i \in Nat /\ Captions \subseteq Nat
      BY BlocksType DEF Captions
<1>2. CaptionFor(i) \in Nat /\ (CaptionFor(i) # 0 => CaptionFor(i) \in Captions)
      BY <1>1 DEF CaptionFor
<1> QED
  BY <1>2 DEF GivenTo

LEMMA ItemIs ==
  ASSUME Chosen, AsPlanned, DOMAIN files \subseteq Names, NEW e \in DOMAIN plan, Emitted(e),
         NEW prof \in Profile, NEW known
  PROVE  ItemOf(Item(e, prof, known), e)
<1> DEFINE b == plan[e].block
           i == Item(e, prof, known)
           Made(type, file, caption, whole) ==
             [elem |-> e, type |-> type, file |-> file, caption |-> caption, whole |-> whole]
<1>1. /\ plan[e] \in Element /\ Selected(plan[e].rep)
      /\ b # 0 => b \in Positions /\ plan[e] = BlockElement(b)
      /\ b = 0 => plan[e].rep = "image" /\ plan[e].source # "block"
      BY ElementFacts DEF Emitted
<1>2. plan[e].rep \in {"markdown", "key_value_group", "structured_table", "image", "image_and_text"}
      BY <1>1 DEF Element, Reps, Selected
<1>3. \A type \in {"text", "group", "table", "image", "warning"}, file \in Names \cup {<<>>},
         caption \in Nat, whole \in BOOLEAN : Made(type, file, caption, whole) \in ItemType
      BY DEF ItemType
<1>4. FileOf(e, known) \in Names \cup {<<>>} /\ GroupFile(e) \in Names \cup {<<>>}
      BY FileOfIs DEF GroupFile
<1>5. CASE plan[e].rep = "markdown"
  <2>1. i = Made("text", <<>>, 0, TRUE)
        BY <1>5 DEF Item
  <2> HIDE DEF i
  <2>2. i \in ItemType /\ i.elem = e /\ i.type = "text"
        BY <1>3, <2>1
  <2> QED
    BY <1>5, <2>2 DEF ItemOf, i
<1>6. CASE plan[e].rep = "key_value_group"
  <2>1. i = Made("group", GroupFile(e), 0, TRUE)
        BY <1>6 DEF Item
  <2> HIDE DEF i
  <2>2. i \in ItemType /\ i.elem = e /\ i.type = "group"
        BY <1>3, <1>4, <2>1
  <2> QED
    BY <1>6, <2>2 DEF ItemOf, i
<1>7. CASE plan[e].rep = "image_and_text"
  <2>1. i = Made("text", FileOf(e, known), 0, TRUE)
        BY <1>7 DEF Item
  <2> HIDE DEF i
  <2>2. i \in ItemType /\ i.elem = e /\ i.type = "text"
        BY <1>3, <1>4, <2>1
  <2> QED
    BY <1>7, <2>2 DEF ItemOf, i
<1>8. CASE plan[e].rep = "image"
  <2>1. CASE Unpictured(e, known)
    <3>1. i = Made("warning", <<>>, 0, TRUE)
          BY <1>8, <2>1 DEF Item
    <3>2. b = 0
      <4> SUFFICES ASSUME b # 0 PROVE FALSE
          OBVIOUS
      <4>1. plan[e].source = "block"
            BY <1>1 DEF BlockElement
      <4> QED
        BY <2>1, <4>1 DEF Unpictured, PageFallback
    <3> HIDE DEF i
    <3>3. i \in ItemType /\ i.elem = e /\ i.type = "warning"
          BY <1>3, <3>1
    <3> QED
      BY <3>2, <3>3 DEF ItemOf, i
  <2>2. CASE ~Unpictured(e, known)
    <3> DEFINE c == IF b = 0 THEN 0 ELSE GivenTo(b)
    <3>1. i = Made("image", FileOf(e, known), c, TRUE)
          BY <1>8, <2>2 DEF Item
    <3>2. c \in Nat
          BY <1>1, CaptionForIs
    <3>3. b # 0 => c = GivenTo(b)
          OBVIOUS
    <3> HIDE DEF i, c
    <3>4. i \in ItemType /\ i.elem = e /\ i.type = "image" /\ i.caption = c
          BY <1>3, <1>4, <3>1, <3>2
    <3> QED
      BY <3>3, <3>4 DEF ItemOf, i
  <2> QED
    BY <2>1, <2>2
<1>9. CASE plan[e].rep = "structured_table"
  <2> DEFINE art == TableFile(e) # <<>>
             w == Serialized(Blocks[b].table, prof, art).whole
  <2>1. i = Made("table", TableFile(e), 0, w)
        BY <1>9 DEF Item
  <2>2. Blocks[b].table \in Table
    <3>1. b \in Positions /\ Route(Blocks[b]) = "structured_table"
          BY <1>1, <1>9 DEF BlockElement
    <3>2. Blocks[b] \in Block
          BY <3>1, BlocksType
    <3>3. Structured(Blocks[b])
          BY <3>1, <3>2 DEF Route, TextKinds, Block, Kinds
    <3> QED
      BY <3>2, <3>3 DEF Structured, Block
  <2>3. w \in BOOLEAN /\ (w \/ art)
    <3>1. art \in BOOLEAN
          OBVIOUS
    <3> HIDE DEF art
    <3> QED
      BY <2>2, <3>1, SerializedIs
  <2>4. TableFile(e) \in Names \cup {<<>>} /\ (art => TableFile(e) \in DOMAIN files)
        BY DEF TableFile
  <2> HIDE DEF i, w, art
  <2>5. /\ i \in ItemType /\ i.elem = e /\ i.file = TableFile(e) /\ i.whole = w
        BY <1>3, <2>1, <2>3, <2>4
  <2> QED
    BY <1>9, <2>3, <2>4, <2>5 DEF ItemOf, i
<1> QED
  BY <1>2, <1>5, <1>6, <1>7, <1>8, <1>9

\* The three properties, of a payload.
AccountedIn(P) ==
  \A e \in DOMAIN plan : plan[e].include =>
    LET its == {k \in DOMAIN P.items : P.items[k].elem = e} IN
    \/ Cardinality(its) = 1
    \/ /\ its = {}
       /\ \/ e \in P.unresolved \cap P.mismatches \cap fidelity.unpictured
          \/ \E k \in DOMAIN P.items : P.items[k].caption # 0 /\ P.items[k].caption = plan[e].block
          \/ Hidden(plan[e].block)
ReachableIn(P) ==
  \A k \in DOMAIN P.items : P.items[k].type = "table" =>
    \/ P.items[k].whole
    \/ /\ P.items[k].file \in DOMAIN files
       /\ files[P.items[k].file] = "torn" => fidelity.failures > 0
InOrderIn(P) == \A k, l \in DOMAIN P.items : k < l => InPlace(P.items[k].elem, P.items[l].elem)

\* What the references say of the pictures, as far as the payload asks.
Told(prof, known) ==
  /\ \A e \in DOMAIN known : known[e] \in Names
  /\ prof.warns \/ \A e \in DOMAIN plan : Unpictured(e, known) => e \in fidelity.unpictured

\* A selected element that is not emitted is a caption: of an image that is
\* emitted and shows it, or of images none of which does.
LEMMA ConsumedIs ==
  ASSUME Chosen, AsPlanned, NEW e \in DOMAIN plan, plan[e].include, ~Emitted(e)
  PROVE  /\ plan[e].block \in Captions
         /\ \/ Hidden(plan[e].block)
            \/ \E d \in DOMAIN plan : /\ Emitted(d) /\ plan[d].rep = "image" /\ plan[d].block # 0
                                      /\ plan[d].source = "block"
                                      /\ GivenTo(plan[d].block) = plan[e].block
<1>1. Consumed(e)
      BY ElementFacts DEF Emitted
<1> DEFINE i == plan[e].block
<1>2. i # 0 /\ i \in Positions
      BY <1>1, ElementFacts DEF Consumed
<1>3. CaptionOf(i) # {}
      BY <1>1 DEF Consumed
<1>4. i \in Captions
  <2>1. PICK j \in Positions : CaptionFor(j) = i
        BY <1>3 DEF CaptionOf
  <2> QED
    BY <1>2, <2>1, CaptionForIs
<1>5. ASSUME NEW j \in CaptionOf(i), Route(Blocks[j]) # "reference_only", ~Blocks[j].captioned
      PROVE  \E d \in DOMAIN plan : /\ Emitted(d) /\ plan[d].rep = "image" /\ plan[d].block # 0
                                    /\ plan[d].source = "block" /\ GivenTo(plan[d].block) = i
  <2>1. j \in Positions /\ Blocks[j].kind = "image" /\ CaptionFor(j) = i
        BY DEF CaptionOf
  <2>2. PICK d \in DOMAIN plan : plan[d] = BlockElement(j)
        BY <2>1, BlockHasElement
  <2>3. Route(Blocks[j]) = "image"
        BY <1>5, <2>1 DEF Route, TextKinds
  <2>4. /\ plan[d].rep = "image" /\ plan[d].include /\ plan[d].block = j /\ plan[d].source = "block"
        /\ Selected(plan[d].rep)
    <3>1. /\ BlockElement(j).rep = "image" /\ BlockElement(j).block = j
          /\ BlockElement(j).source = "block"
          BY <2>3 DEF BlockElement
    <3>2. BlockElement(j).include = Selected("image")
          BY <2>3 DEF BlockElement
    <3>3. Selected("image")
          BY DEF Selected
    <3> QED
      BY <2>2, <3>1, <3>2, <3>3
  <2>5. j # 0 /\ j \notin Captions
        BY <2>1, BlockElementIs DEF Captions
  <2>6. CaptionOf(j) = {}
    <3> SUFFICES ASSUME NEW k \in Positions, CaptionFor(k) = j PROVE FALSE
        BY DEF CaptionOf
    <3> QED
      BY <2>5, CaptionForIs
  <2>7. Emitted(d)
        BY <2>4, <2>6 DEF Emitted, Consumed
  <2>8. GivenTo(j) = i
        BY <1>5, <2>1 DEF GivenTo
  <2> QED
    BY <2>4, <2>5, <2>7, <2>8
<1>6. CASE \E j \in CaptionOf(i) : Route(Blocks[j]) # "reference_only" /\ ~Blocks[j].captioned
      BY <1>4, <1>5, <1>6
<1>7. CASE \A j \in CaptionOf(i) : Route(Blocks[j]) = "reference_only" \/ Blocks[j].captioned
  <2>1. Hidden(i)
        BY <1>3, <1>7 DEF Hidden
  <2> QED
    BY <1>4, <2>1
<1> QED
  BY <1>6, <1>7

LEMMA PayloadIs ==
  ASSUME Chosen, AsPlanned, DOMAIN files \subseteq Names, NEW prof \in Profile, NEW known,
         Told(prof, known), (\E k \in DOMAIN files : files[k] = "torn") => fidelity.failures > 0
  PROVE  LET P == Payload(prof, known) IN
         /\ P \in PayloadType /\ AccountedIn(P) /\ ReachableIn(P)
         /\ BlocksInOrder => InOrderIn(P)
<1> DEFINE emitted == {e \in DOMAIN plan : Emitted(e)}
           kept == {e \in emitted : prof.warns \/ ~Unpictured(e, known)}
           shown == Filtered(Ordered, kept)
           items == [k \in DOMAIN shown |-> Item(shown[k], prof, known)]
           unresolved == {e \in emitted : Unresolved(e, known)}
           missing == {known[e] : e \in {x \in emitted : plan[x].rep = "image" /\ Dangling(x, known)}}
           mismatches == emitted \ kept
           P == Payload(prof, known)
<1>1. P = [items |-> items, unresolved |-> unresolved, missing |-> missing, mismatches |-> mismatches]
      BY DEF Payload
<1>2. kept \in SUBSET DOMAIN plan /\ unresolved \in SUBSET DOMAIN plan /\ mismatches \in SUBSET DOMAIN plan
      OBVIOUS
<1>3. missing \in SUBSET Names
      BY DEF Told, Dangling
<1>4. /\ shown \in Seq(DOMAIN plan)
      /\ \A k \in 1 .. Len(shown) : shown[k] \in kept
      /\ \A k, l \in 1 .. Len(shown) : shown[k] = shown[l] => k = l
      /\ \A e \in kept : \E k \in 1 .. Len(shown) : shown[k] = e
      /\ BlocksInOrder => \A k, l \in 1 .. Len(shown) : k < l => InPlace(shown[k], shown[l])
  <2> HIDE DEF kept
  <2> QED
    BY <1>2, ShownIs
<1>5. \A e \in kept : e \in DOMAIN plan /\ Emitted(e) /\ (prof.warns \/ ~Unpictured(e, known))
      OBVIOUS
<1>6. \A e \in DOMAIN plan : Emitted(e) /\ e \notin kept =>
        e \in mismatches /\ Unpictured(e, known) /\ ~prof.warns
      OBVIOUS
<1>7. \A e \in DOMAIN plan : Emitted(e) /\ Unpictured(e, known) => e \in unresolved
      BY DEF Unresolved
<1> HIDE DEF unresolved, missing, mismatches
<1>8. \A e \in DOMAIN plan : Emitted(e) /\ ~Unpictured(e, known) => e \in kept
      OBVIOUS
<1> HIDE DEF emitted, kept, shown
<1> DEFINE N == Len(shown)
<1>9. N \in Nat /\ DOMAIN shown = 1 .. N
      BY <1>4
<1>10. \A k \in 1 .. N : items[k] = Item(shown[k], prof, known)
      BY <1>9
<1>11. DOMAIN items = 1 .. N
      BY <1>9
<1> HIDE DEF items, P
<1>12. \A k \in 1 .. N : ItemOf(items[k], shown[k])
  <2> TAKE k \in 1 .. N
  <2>1. shown[k] \in DOMAIN plan /\ Emitted(shown[k])
        BY <1>4, <1>5
  <2>2. ItemOf(Item(shown[k], prof, known), shown[k])
        BY <2>1, ItemIs
  <2> QED
    BY <1>10, <2>2
<1>13. \A k \in 1 .. N : items[k] \in ItemType /\ items[k].elem = shown[k]
      BY <1>12 DEF ItemOf
<1>14. items \in Seq(ItemType)
  <2>1. items = [k \in 1 .. N |-> items[k]]
        BY <1>9 DEF items
  <2> QED
    BY <1>9, <1>13, <2>1
<1>15. P \in PayloadType
      BY <1>1, <1>2, <1>3, <1>14 DEF PayloadType
<1>16. P.items = items /\ P.unresolved = unresolved /\ P.mismatches = mismatches
      BY <1>1
<1>17. AccountedIn(P)
  <2> SUFFICES ASSUME NEW e \in DOMAIN plan, plan[e].include
               PROVE  LET its == {k \in DOMAIN items : items[k].elem = e} IN
                      \/ Cardinality(its) = 1
                      \/ /\ its = {}
                         /\ \/ e \in unresolved \cap mismatches \cap fidelity.unpictured
                            \/ \E k \in DOMAIN items : items[k].caption # 0 /\ items[k].caption = plan[e].block
                            \/ Hidden(plan[e].block)
      BY <1>16 DEF AccountedIn
  <2> DEFINE its == {k \in DOMAIN items : items[k].elem = e}
  <2>1. CASE e \in kept
    <3>1. PICK k \in 1 .. N : shown[k] = e
          BY <1>4, <2>1
    <3>2. its = {k}
          BY <1>4, <1>11, <1>13, <3>1
    <3>3. Cardinality(its) = 1
          BY <3>2, FS_Singleton
    <3> QED
      BY <3>3
  <2>2. CASE e \notin kept
    <3>1. its = {}
          BY <1>4, <1>11, <1>13, <2>2
    <3>2. CASE Emitted(e)
      <4>1. e \in mismatches /\ Unpictured(e, known) /\ ~prof.warns /\ e \in unresolved
            BY <1>6, <1>7, <2>2, <3>2
      <4>2. e \in fidelity.unpictured
            BY <4>1 DEF Told
      <4> QED
        BY <3>1, <4>1, <4>2
    <3>3. CASE ~Emitted(e)
      <4>1. /\ plan[e].block \in Captions
            /\ \/ Hidden(plan[e].block)
               \/ \E d \in DOMAIN plan : /\ Emitted(d) /\ plan[d].rep = "image" /\ plan[d].block # 0
                                         /\ plan[d].source = "block"
                                         /\ GivenTo(plan[d].block) = plan[e].block
            BY <3>3, ConsumedIs
      <4>2. CASE Hidden(plan[e].block)
            BY <3>1, <4>1, <4>2
      <4>3. CASE \E d \in DOMAIN plan : /\ Emitted(d) /\ plan[d].rep = "image" /\ plan[d].block # 0
                                         /\ plan[d].source = "block"
                                         /\ GivenTo(plan[d].block) = plan[e].block
        <5>1. PICK d \in DOMAIN plan : /\ Emitted(d) /\ plan[d].rep = "image" /\ plan[d].block # 0
                                       /\ plan[d].source = "block"
                                       /\ GivenTo(plan[d].block) = plan[e].block
              BY <4>3
        <5>2. d \in kept
              BY <1>8, <5>1 DEF Unpictured, PageFallback
        <5>3. PICK k \in 1 .. N : shown[k] = d
              BY <1>4, <5>2
        <5>4. items[k].caption = plan[e].block
              BY <1>12, <5>1, <5>3 DEF ItemOf
        <5>5. plan[e].block # 0
          <6>1. plan[e].block \in Positions
                BY <4>1 DEF Captions
          <6> QED
            BY <6>1, BlockElementIs
        <5> QED
          BY <1>11, <3>1, <5>4, <5>5
      <4> QED
        BY <4>1, <4>2, <4>3
    <3> QED
      BY <3>2, <3>3
  <2> QED
    BY <2>1, <2>2
<1>18. ReachableIn(P)
  <2> SUFFICES ASSUME NEW k \in 1 .. N, items[k].type = "table"
               PROVE  \/ items[k].whole
                      \/ /\ items[k].file \in DOMAIN files
                         /\ files[items[k].file] = "torn" => fidelity.failures > 0
      BY <1>11, <1>16 DEF ReachableIn
  <2>1. items[k].whole \/ items[k].file \in DOMAIN files
        BY <1>12 DEF ItemOf
  <2> QED
    BY <2>1
<1>19. BlocksInOrder => InOrderIn(P)
      BY <1>4, <1>11, <1>13, <1>16 DEF InOrderIn
<1> QED
  BY <1>15, <1>17, <1>18, <1>19 DEF P

-----------------------------------------------------------------------------
(* The invariant *)

\* Nothing is written before there is a plan.
Fresh ==
  IF stage = "plan"
  THEN /\ refs = <<>> /\ visual = {} /\ files = <<>>
       /\ fidelity = [unpictured |-> {}, failures |-> 0]
       /\ payload = [items |-> <<>>, unresolved |-> {}, missing |-> {}, mismatches |-> {}]
  ELSE AsPlanned /\ todo # 0
\* A fallback of which there is a picture has a reference to it.
DrawnKept ==
  \A e \in visual : plan[e].source # "block" =>
    e < todo /\ e \in DOMAIN refs /\ refs[e] = <<"regions", e>> /\ <<"regions", e>> \in DOMAIN files
\* What the writer reports once it is done.
Reported ==
  stage \in {"payload", "packaged", "rebuilt"} =>
    /\ fidelity.unpictured = {e \in DOMAIN plan : plan[e].source \in {"page_region", "page"}} \ visual
    /\ (\E k \in DOMAIN files : files[k] = "torn") => fidelity.failures > 0
\* References are to elements that the writer has looked at.
RefsBehind == \A e \in DOMAIN refs : e < todo

PInv ==
  /\ PackageTypeOK /\ Fresh /\ RefsBehind /\ TornCounted /\ DrawnKept /\ Reported
  /\ Built => AccountedIn(payload) /\ ReachableIn(payload) /\ (BlocksInOrder => InOrderIn(payload))

LEMMA PackageStarts ==
  ASSUME PackageInit
  PROVE  PInv
<1>1. Chosen /\ plan \in Seq(Element) /\ Len(plan) = 0 /\ DOMAIN plan = {}
      BY DEF PackageInit, Chosen
<1>2. DOMAIN files = {} /\ DOMAIN refs = {}
      BY DEF PackageInit
<1>3. payload \in PayloadType
      BY DEF PackageInit, PayloadType
<1>4. fidelity \in [unpictured : SUBSET DOMAIN plan, failures : Nat]
      BY DEF PackageInit
<1>5. PackageTypeOK
      BY <1>1, <1>2, <1>3, <1>4, FaultsAssumption DEF PackageInit, PackageTypeOK
<1>6. Fresh /\ DrawnKept /\ Reported /\ TornCounted /\ RefsBehind
      BY <1>2 DEF PackageInit, Fresh, DrawnKept, Reported, TornCounted, RefsBehind
<1>7. ~Built
      BY DEF PackageInit, Built
<1> QED
  BY <1>5, <1>6, <1>7 DEF PInv

LEMMA PlanKeeps ==
  ASSUME PInv, Plan
  PROVE  PInv'
<1>1. /\ PackageTypeOK /\ Chosen /\ stage = "plan" /\ stage' = "write" /\ Fresh /\ TornCounted
      /\ plan' = BlockElements \o PageElements /\ todo' = 1
      /\ UNCHANGED <<document, profile, files, refs, visual, failures, fidelity, payload>>
      BY DEF PInv, Plan, PackageTypeOK
<1>2. Chosen'
      BY <1>1 DEF Chosen
<1>3. AsPlanned'
  <2>1. (BlockElements \o PageElements)' = BlockElements \o PageElements
        BY <1>1, PlannedStays
  <2>2. plan' = (BlockElements \o PageElements)'
        BY <1>1, <2>1
  <2> QED
    BY <2>2 DEF AsPlanned
<1>4. plan' \in Seq(Element)
  <2> DEFINE A == BlockElements
             B == PageElements
  <2>1. A \in Seq(Element) /\ B \in Seq(Element)
        BY <1>1, BlockElementsOwned, PageElementsAre
  <2>2. plan' = A \o B
        BY <1>1
  <2> HIDE DEF A, B
  <2> QED
    BY <2>1, <2>2, ConcatProperties
<1>5. todo' \in 0 .. Len(plan') + 1
      BY <1>1, <1>4
<1>6. /\ refs' = <<>> /\ visual' = {} /\ files' = <<>>
      /\ fidelity' = [unpictured |-> {}, failures |-> 0]
      /\ payload' = [items |-> <<>>, unresolved |-> {}, missing |-> {}, mismatches |-> {}]
      BY <1>1 DEF Fresh
<1>7. DOMAIN refs' = {} /\ DOMAIN files' = {}
      BY <1>6
<1>8. payload' \in PayloadType'
      BY <1>6 DEF PayloadType
<1>9. fidelity' \in [unpictured : SUBSET DOMAIN plan', failures : Nat]
      BY <1>6
<1>10. PackageTypeOK'
       BY <1>1, <1>2, <1>4, <1>5, <1>6, <1>7, <1>8, <1>9 DEF PackageTypeOK
<1>11. Fresh' /\ DrawnKept' /\ Reported' /\ TornCounted' /\ RefsBehind'
  <2>1. Fresh'
        BY <1>1, <1>3 DEF Fresh
  <2>2. DrawnKept' /\ RefsBehind'
        BY <1>6, <1>7 DEF DrawnKept, RefsBehind
  <2>3. Reported'
        BY <1>1 DEF Reported
  <2>4. TornCounted'
        BY <1>7 DEF TornCounted
  <2> QED
    BY <2>1, <2>2, <2>3, <2>4
<1>12. ~Built'
       BY <1>1 DEF Built
<1> QED
  BY <1>10, <1>11, <1>12 DEF PInv

\* A step of the writer: it may write the file key, refer the element to f, and
\* note that there is a picture of it.
LEMMA WriteKeeps ==
  ASSUME PInv, Writing, Step, NEW key \in Names, Touches(key), NEW f \in Names,
         key[1] = "regions" => key = <<"regions", todo>>,
         refs' = refs \/ refs' = FirstRef(todo, f),
         \/ visual' = visual
         \/ /\ visual' = visual \cup {todo}
            /\ plan[todo].source # "block" =>
                 f = <<"regions", todo>> /\ refs' = FirstRef(todo, f) /\ f \in DOMAIN files'
  PROVE  PInv'
<1>1. /\ PackageTypeOK /\ Chosen /\ stage = "write" /\ Fresh /\ TornCounted /\ DrawnKept /\ RefsBehind
      /\ todo <= Len(plan) /\ todo' = todo + 1
      /\ UNCHANGED <<document, profile, stage, plan, fidelity, payload>>
      BY DEF PInv, PackageTypeOK, Writing, Step
<1>2. AsPlanned /\ todo \in 1 .. Len(plan) /\ DOMAIN plan = 1 .. Len(plan) /\ todo \in DOMAIN plan
  <2>1. AsPlanned /\ todo # 0
        BY <1>1 DEF Fresh
  <2>2. plan \in Seq(Element) /\ todo \in 0 .. Len(plan) + 1
        BY <1>1 DEF PackageTypeOK
  <2> QED
    BY <1>1, <2>1, <2>2
<1>3. /\ FilesType(files) /\ failures \in 0 .. MaxFaults
      BY <1>1 DEF PackageTypeOK, FilesType
<1>4. /\ FilesType(files') /\ TornCounted' /\ failures' \in 0 .. MaxFaults
      /\ \A k \in DOMAIN files : k # key => k \in DOMAIN files'
      BY <1>1, <1>3 DEF Touches
<1>5. /\ DOMAIN refs' \subseteq DOMAIN refs \cup {todo}
      /\ \A e \in DOMAIN refs : e \in DOMAIN refs' /\ refs'[e] = refs[e]
      /\ refs' = FirstRef(todo, f) => todo \in DOMAIN refs' /\ refs'[todo] = f
      /\ todo \in DOMAIN refs' => refs'[todo] = f
  <2>1. todo \notin DOMAIN refs
        BY <1>1, <1>2 DEF RefsBehind
  <2>2. CASE refs' = refs /\ refs' # FirstRef(todo, f)
        BY <2>1, <2>2
  <2>3. CASE refs' = FirstRef(todo, f)
    <3>1. refs' = With(refs, todo, f)
          BY <2>1, <2>3 DEF FirstRef
    <3>2. /\ DOMAIN refs' = DOMAIN refs \cup {todo} /\ refs'[todo] = f
          /\ \A e \in DOMAIN refs : e # todo => refs'[e] = refs[e]
          BY <3>1 DEF With
    <3> QED
      BY <2>1, <3>2
  <2> QED
    BY <2>2, <2>3
<1>6. \A e \in DOMAIN refs : refs[e] \in Names /\ e \in DOMAIN plan /\ e < todo
      BY <1>1 DEF PackageTypeOK, RefsBehind
<1>7. RefsBehind'
  <2>1. \A e \in DOMAIN refs' : e < todo + 1
        BY <1>2, <1>5, <1>6
  <2> QED
    BY <1>1, <2>1 DEF RefsBehind
<1>8. PackageTypeOK'
  <2>1. DOMAIN refs' \subseteq DOMAIN plan /\ \A e \in DOMAIN refs' : refs'[e] \in Names
        BY <1>2, <1>5, <1>6
  <2>2. visual' \subseteq DOMAIN plan
        BY <1>1, <1>2 DEF PackageTypeOK
  <2>3. Chosen' /\ payload' \in PayloadType' /\ fidelity' \in [unpictured : SUBSET DOMAIN plan, failures : Nat]
        BY <1>1 DEF PackageTypeOK, Chosen, PayloadType, ItemType
  <2>4. todo' \in 0 .. Len(plan) + 1 /\ plan' \in Seq(Element) /\ plan' = plan /\ stage' = "write"
        BY <1>1, <1>2 DEF PackageTypeOK
  <2> QED
    BY <1>4, <2>1, <2>2, <2>3, <2>4 DEF PackageTypeOK, FilesType
<1>9. DrawnKept'
  <2> SUFFICES ASSUME NEW e \in visual', plan[e].source # "block"
               PROVE  /\ e < todo + 1 /\ e \in DOMAIN refs' /\ refs'[e] = <<"regions", e>>
                      /\ <<"regions", e>> \in DOMAIN files'
      BY <1>1 DEF DrawnKept
  <2>1. CASE e \in visual
    <3>1. /\ e < todo /\ e \in DOMAIN refs /\ refs[e] = <<"regions", e>>
          /\ <<"regions", e>> \in DOMAIN files
          BY <1>1, <2>1 DEF DrawnKept
    <3>2. e \in Nat
          BY <1>2, <1>6, <3>1
    <3>3. key # <<"regions", e>>
      <4> SUFFICES ASSUME key = <<"regions", e>> PROVE FALSE
          OBVIOUS
      <4>1. key[1] = "regions"
            OBVIOUS
      <4>2. <<"regions", e>> = <<"regions", todo>>
            BY <4>1
      <4>3. e = todo
            BY <4>2
      <4> QED
        BY <3>1, <3>2, <4>3
    <3> QED
      BY <1>2, <1>4, <1>5, <3>1, <3>2, <3>3
  <2>2. CASE e \notin visual
    <3>1. /\ e = todo /\ f = <<"regions", todo>> /\ refs' = FirstRef(todo, f) /\ f \in DOMAIN files'
          BY <2>2
    <3> QED
      BY <1>2, <1>5, <3>1
  <2> QED
    BY <2>1, <2>2
<1>10. Fresh'
  <2>1. AsPlanned'
    <3>1. (BlockElements \o PageElements)' = BlockElements \o PageElements
          BY <1>1, PlannedStays
    <3> QED
      BY <1>1, <1>2, <3>1 DEF AsPlanned
  <2> QED
    BY <1>1, <1>2, <2>1 DEF Fresh
<1>11. Reported' /\ ~Built'
       BY <1>1 DEF Reported, Built
<1> QED
  BY <1>4, <1>7, <1>8, <1>9, <1>10, <1>11 DEF PInv

\* The element the writer looks at.
LEMMA ElemIs ==
  ASSUME PInv, Writing
  PROVE  /\ Chosen /\ AsPlanned /\ todo \in Nat \ {0} /\ todo \in DOMAIN plan
         /\ Elem.block # 0 => Elem.block \in Nat \ {0} /\ Elem.block \in Positions /\ Elem.source = "block"
         /\ Elem.block = 0 => Elem.rep = "image" /\ Elem.source \in {"page", "page_region"}
<1>1. /\ Chosen /\ stage = "write" /\ todo <= Len(plan) /\ Fresh
      /\ plan \in Seq(Element) /\ todo \in 0 .. Len(plan) + 1
      BY DEF PInv, PackageTypeOK, Writing
<1>2. AsPlanned /\ todo # 0
      BY <1>1 DEF Fresh
<1>3. todo \in Nat \ {0} /\ todo \in DOMAIN plan
      BY <1>1, <1>2
<1>4. /\ plan[todo] \in Element
      /\ plan[todo].block # 0 => plan[todo].block \in Positions /\ plan[todo] = BlockElement(plan[todo].block)
      /\ plan[todo].block = 0 => plan[todo].rep = "image" /\ plan[todo].source # "block"
      BY <1>1, <1>2, <1>3, ElementFacts
<1>5. ASSUME Elem.block # 0
      PROVE  Elem.block \in Nat \ {0} /\ Elem.block \in Positions /\ Elem.source = "block"
  <2>1. Elem.block \in Positions
        BY <1>4, <1>5 DEF Elem
  <2>2. Elem.source = "block"
        BY <1>4, <1>5 DEF Elem, BlockElement
  <2> QED
    BY <1>1, <2>1, <2>2, BlockElementIs
<1>6. Elem.block = 0 => Elem.rep = "image" /\ Elem.source \in {"page", "page_region"}
      BY <1>4 DEF Elem, Element
<1> QED
  BY <1>1, <1>2, <1>3, <1>5, <1>6

\* A step that writes nothing touches whatever one likes.
LEMMA NothingTouches ==
  ASSUME NEW key, UNCHANGED <<files, failures>>
  PROVE  Touches(key)
BY DEF Touches, FilesType, TornCounted

LEMMA WritersKeep ==
  ASSUME PInv, WriteTable \/ WriteGroup \/ WriteImage \/ WriteRegion \/ WriteNothing
  PROVE  PInv'
<1>1. Writing /\ Step
      BY DEF WriteTable, WriteGroup, WriteImage, WriteRegion, WriteNothing
<1>2. /\ Chosen /\ todo \in Nat \ {0}
      /\ Elem.block # 0 => Elem.block \in Nat \ {0} /\ Elem.block \in Positions /\ Elem.source = "block"
      /\ Elem.block = 0 => Elem.rep = "image" /\ Elem.source \in {"page", "page_region"}
      BY <1>1, ElemIs
<1>3. \A kind \in {"tables", "key_values", "images", "regions"}, n \in Nat \ {0} :
        <<kind, n>> \in Names /\ (kind # "regions" => <<kind, n>>[1] # "regions")
      BY DEF Names
<1>4. CASE WriteTable
  <2> DEFINE key == <<"tables", Elem.block>>
  <2>1. key \in Names /\ key[1] # "regions"
    <3>1. Elem.block \in Nat \ {0}
          BY <1>2, <1>4 DEF WriteTable
    <3> QED
      BY <3>1 DEF Names
  <2>2. /\ Writes(key) \/ Fails(key)
        /\ refs' = FirstRef(todo, key) /\ visual' = visual
        BY <1>4 DEF WriteTable
  <2> HIDE DEF key
  <2>3. Touches(key)
        BY <2>1, <2>2, WritesTouches, FailsTouches
  <2> QED
    BY <1>1, <2>1, <2>2, <2>3, WriteKeeps
<1>5. CASE WriteGroup
  <2> DEFINE key == <<"key_values", Elem.block>>
  <2>1. key \in Names /\ key[1] # "regions"
    <3>1. Elem.block \in Nat \ {0}
          BY <1>2, <1>5 DEF WriteGroup
    <3> QED
      BY <3>1 DEF Names
  <2>2. /\ Writes(key) \/ Fails(key)
        /\ refs' = refs /\ visual' = visual
        BY <1>5 DEF WriteGroup
  <2> HIDE DEF key
  <2>3. Touches(key)
        BY <2>1, <2>2, WritesTouches, FailsTouches
  <2> QED
    BY <1>1, <2>1, <2>2, <2>3, WriteKeeps
<1>6. CASE WriteImage
  <2> DEFINE key == <<"images", AssetOf(Elem.block)>>
  <2>1. Elem.block \in Positions /\ Elem.source = "block" /\ AssetOf(Elem.block) # 0
        BY <1>2, <1>6 DEF WriteImage, Pictured
  <2>2. AssetOf(Elem.block) \in Nat
        BY <1>2, <2>1, AssetOfType
  <2>3. key \in Names /\ key[1] # "regions"
        BY <2>1, <2>2 DEF Names
  <2>4. \/ Writes(key) /\ refs' = FirstRef(todo, key) /\ visual' = visual \cup {todo}
        \/ Fails(key) /\ refs' = refs /\ visual' = visual
        BY <1>6 DEF WriteImage
  <2>5. plan[todo].source = "block"
        BY <2>1 DEF Elem
  <2> HIDE DEF key
  <2>6. Touches(key)
        BY <2>3, <2>4, WritesTouches, FailsTouches
  <2>7. CASE Writes(key) /\ refs' = FirstRef(todo, key) /\ visual' = visual \cup {todo}
        BY <1>1, <2>3, <2>5, <2>6, <2>7, WriteKeeps
  <2>8. CASE Fails(key) /\ refs' = refs /\ visual' = visual
        BY <1>1, <2>3, <2>6, <2>8, WriteKeeps
  <2> QED
    BY <2>4, <2>7, <2>8
<1>7. CASE WriteRegion
  <2> DEFINE key == <<"regions", todo>>
  <2>1. key \in Names
        BY <1>2 DEF Names
  <2>2. \/ Writes(key) /\ refs' = FirstRef(todo, key) /\ visual' = visual \cup {todo}
        \/ Fails(key) /\ refs' = refs /\ visual' = visual
        \/ refs' = FirstRef(todo, key) /\ files' = files /\ visual' = visual /\ failures' = failures
        BY <1>7 DEF WriteRegion
  <2>3. key[1] = "regions" => key = <<"regions", todo>>
        OBVIOUS
  <2>4. key = <<"regions", todo>>
        OBVIOUS
  <2> HIDE DEF key
  <2>5. CASE Writes(key) /\ refs' = FirstRef(todo, key) /\ visual' = visual \cup {todo}
    <3>1. Touches(key) /\ key \in DOMAIN files'
          BY <2>1, <2>5, WritesTouches
    <3>2. plan[todo].source # "block" =>
            key = <<"regions", todo>> /\ refs' = FirstRef(todo, key) /\ key \in DOMAIN files'
          BY <2>4, <2>5, <3>1
    <3> QED
      BY <1>1, <2>1, <2>3, <2>5, <3>1, <3>2, WriteKeeps
  <2>6. CASE Fails(key) /\ refs' = refs /\ visual' = visual
    <3>1. Touches(key)
          BY <2>1, <2>6, FailsTouches
    <3> QED
      BY <1>1, <2>1, <2>3, <2>6, <3>1, WriteKeeps
  <2>7. CASE refs' = FirstRef(todo, key) /\ files' = files /\ visual' = visual /\ failures' = failures
    <3>1. Touches(key)
          BY <2>7, NothingTouches
    <3> QED
      BY <1>1, <2>1, <2>3, <2>7, <3>1, WriteKeeps
  <2> QED
    BY <2>2, <2>5, <2>6, <2>7
<1>8. CASE WriteNothing
  <2> DEFINE key == <<"plan", 0>>
  <2>1. key \in Names /\ key[1] # "regions"
        BY DEF Names
  <2>2. refs' = refs /\ visual' = visual /\ UNCHANGED <<files, failures>>
        BY <1>8 DEF WriteNothing
  <2> HIDE DEF key
  <2>3. Touches(key)
        BY <2>2, NothingTouches
  <2> QED
    BY <1>1, <2>1, <2>2, <2>3, WriteKeeps
<1> QED
  BY <1>4, <1>5, <1>6, <1>7, <1>8

LEMMA WritePlanKeeps ==
  ASSUME PInv, WritePlan
  PROVE  PInv'
<1> DEFINE key == <<"plan", 0>>
<1>1. /\ PackageTypeOK /\ Chosen /\ stage = "write" /\ Fresh /\ TornCounted /\ DrawnKept /\ RefsBehind
      /\ UNCHANGED <<document, profile, plan, todo, refs, visual, payload>>
      BY DEF PInv, PackageTypeOK, WritePlan
<1>2. \/ stage' = "payload" /\ Writes(key) /\ fidelity' = Fidelity
      \/ stage' = "raised" /\ Fails(key) /\ fidelity' = fidelity
      BY DEF WritePlan, Writes
<1>3. key \in Names /\ \A n : key # <<"regions", n>>
      BY DEF Names
<1> HIDE DEF key
<1>4. Touches(key)
      BY <1>2, <1>3, WritesTouches, FailsTouches
<1>5. FilesType(files) /\ failures \in 0 .. MaxFaults
      BY <1>1 DEF PackageTypeOK, FilesType
<1>6. /\ FilesType(files') /\ TornCounted' /\ failures' \in 0 .. MaxFaults
      /\ \A k \in DOMAIN files : k # key => k \in DOMAIN files'
      BY <1>1, <1>4, <1>5 DEF Touches
<1>7. fidelity' \in [unpictured : SUBSET DOMAIN plan, failures : Nat]
  <2>1. CASE fidelity' = Fidelity
    <3>1. failures \in Nat
          BY <1>5, FaultsAssumption
    <3> QED
      BY <2>1, <3>1 DEF Fidelity
  <2>2. CASE fidelity' = fidelity
        BY <1>1, <2>2 DEF PackageTypeOK
  <2> QED
    BY <1>2, <2>1, <2>2
<1>8. PackageTypeOK'
  <2>1. Chosen' /\ payload' \in PayloadType'
        BY <1>1 DEF PackageTypeOK, Chosen, PayloadType, ItemType
  <2>2. stage' \in {"payload", "raised"}
        BY <1>2
  <2> QED
    BY <1>1, <1>6, <1>7, <2>1, <2>2 DEF PackageTypeOK, FilesType
<1>9. RefsBehind'
      BY <1>1 DEF RefsBehind
<1>10. DrawnKept'
  <2> SUFFICES ASSUME NEW e \in visual, plan[e].source # "block"
               PROVE  /\ e < todo /\ e \in DOMAIN refs /\ refs[e] = <<"regions", e>>
                      /\ <<"regions", e>> \in DOMAIN files'
      BY <1>1 DEF DrawnKept
  <2>1. /\ e < todo /\ e \in DOMAIN refs /\ refs[e] = <<"regions", e>>
        /\ <<"regions", e>> \in DOMAIN files
        BY <1>1 DEF DrawnKept
  <2> QED
    BY <1>3, <1>6, <2>1
<1>11. Fresh'
  <2>1. AsPlanned /\ todo # 0
        BY <1>1 DEF Fresh
  <2>2. AsPlanned'
    <3>1. (BlockElements \o PageElements)' = BlockElements \o PageElements
          BY <1>1, PlannedStays
    <3> QED
      BY <1>1, <2>1, <3>1 DEF AsPlanned
  <2>3. stage' # "plan"
        BY <1>2
  <2> QED
    BY <1>1, <2>1, <2>2, <2>3 DEF Fresh
<1>12. Reported'
  <2>1. CASE stage' = "raised"
        BY <2>1 DEF Reported
  <2>2. CASE stage' = "payload" /\ Writes(key) /\ fidelity' = Fidelity
    <3>1. failures' = failures
          BY <2>2 DEF Writes
    <3>2. fidelity'.failures = failures
          BY <2>2 DEF Fidelity
    <3>3. fidelity'.unpictured = {e \in DOMAIN plan : plan[e].source \in {"page_region", "page"}} \ visual
          BY <2>2 DEF Fidelity
    <3>4. (\E k \in DOMAIN files' : files'[k] = "torn") => fidelity'.failures > 0
          BY <1>6, <3>1, <3>2 DEF TornCounted
    <3> QED
      BY <1>1, <3>3, <3>4 DEF Reported
  <2> QED
    BY <1>2, <2>1, <2>2
<1>13. ~Built'
       BY <1>2 DEF Built
<1> QED
  BY <1>6, <1>8, <1>9, <1>10, <1>11, <1>12, <1>13 DEF PInv

\* A payload that is built changes nothing else.
LEMMA PayloadKeeps ==
  ASSUME PInv, stage \notin {"plan", "write"}, stage' \in {"packaged", "rebuilt"} \/ stage' = stage,
         UNCHANGED <<document, profile, plan, todo, files, refs, visual, failures, fidelity>>,
         stage' \in {"packaged", "rebuilt"} => stage # "raised",
         NEW P, payload' = P, P \in PayloadType,
         stage' \in {"packaged", "rebuilt"} =>
           AccountedIn(P) /\ ReachableIn(P) /\ (BlocksInOrder => InOrderIn(P))
  PROVE  PInv'
<1>1. /\ PackageTypeOK /\ Chosen /\ Fresh /\ TornCounted /\ DrawnKept /\ Reported /\ RefsBehind
      BY DEF PInv, PackageTypeOK
<1>2. PackageTypeOK'
  <2>1. Chosen' /\ payload' \in PayloadType'
        BY <1>1 DEF Chosen, PayloadType, ItemType
  <2>2. stage' \in {"plan", "write", "payload", "packaged", "rebuilt", "raised"}
        BY <1>1 DEF PackageTypeOK
  <2> QED
    BY <1>1, <2>1, <2>2 DEF PackageTypeOK
<1>3. RefsBehind' /\ TornCounted' /\ DrawnKept'
      BY <1>1 DEF RefsBehind, TornCounted, DrawnKept
<1>4. Fresh'
  <2>1. AsPlanned /\ todo # 0 /\ stage' # "plan"
        BY <1>1 DEF Fresh
  <2>2. AsPlanned'
    <3>1. (BlockElements \o PageElements)' = BlockElements \o PageElements
          BY <1>1, PlannedStays
    <3> QED
      BY <2>1, <3>1 DEF AsPlanned
  <2> QED
    BY <2>1, <2>2 DEF Fresh
<1>5. Reported'
  <2> SUFFICES ASSUME stage' \in {"payload", "packaged", "rebuilt"} PROVE Reported'
      BY DEF Reported
  <2>1. stage \in {"payload", "packaged", "rebuilt"}
        BY <1>1 DEF PackageTypeOK
  <2> QED
    BY <1>1, <2>1 DEF Reported
<1>6. ASSUME Built'
      PROVE  (AccountedIn(payload) /\ ReachableIn(payload) /\ (BlocksInOrder => InOrderIn(payload)))'
  <2>1. AccountedIn(P) /\ ReachableIn(P) /\ (BlocksInOrder => InOrderIn(P))
        BY <1>6 DEF Built
  <2>2. Blocks' = Blocks /\ Positions' = Positions /\ Captions' = Captions
        BY DEF Blocks, Positions, Captions
  <2>3. AccountedIn(payload)'
    <3>1. \A i : CaptionFor(i)' = CaptionFor(i)
          BY <2>2 DEF CaptionFor
    <3>2. \A b : Route(b)' = Route(b)
          BY DEF Route, Illustrated, Structured
    <3>3. \A i : CaptionOf(i)' = CaptionOf(i)
          BY <2>2, <3>1 DEF CaptionOf
    <3>4. \A i : Hidden(i)' <=> Hidden(i)
          BY <2>2, <3>2, <3>3 DEF Hidden
    <3> QED
      BY <2>1, <3>4 DEF AccountedIn
  <2>4. ReachableIn(payload)'
        BY <2>1 DEF ReachableIn
  <2>5. BlocksInOrder' <=> BlocksInOrder
        BY <2>2 DEF BlocksInOrder
  <2>6. \A p : InsertAfter(p)' = InsertAfter(p)
        BY DEF InsertAfter, Ordinary
  <2>7. \A d, e : InPlace(d, e)' <=> InPlace(d, e)
        BY <2>6 DEF InPlace, Early
  <2>8. InOrderIn(P) => InOrderIn(payload)'
        BY <2>7 DEF InOrderIn
  <2> QED
    BY <2>1, <2>3, <2>4, <2>5, <2>8
<1> QED
  BY <1>2, <1>3, <1>4, <1>5, <1>6 DEF PInv

LEMMA BuildersKeep ==
  ASSUME PInv, BuildPayload \/ (\E m \in Modes : Rebuild(m))
  PROVE  PInv'
<1>1. /\ PackageTypeOK /\ Chosen /\ DOMAIN files \subseteq Names /\ DrawnKept /\ Reported /\ Fresh
      BY DEF PInv, PackageTypeOK
<1>2. stage \in {"payload", "packaged"} /\ stage' \in {"packaged", "rebuilt"}
      /\ UNCHANGED <<document, profile, plan, todo, files, refs, visual, failures, fidelity>>
      BY DEF BuildPayload, Rebuild
<1>3. AsPlanned
      BY <1>1, <1>2 DEF Fresh
<1>4. /\ fidelity.unpictured = {e \in DOMAIN plan : plan[e].source \in {"page_region", "page"}} \ visual
      /\ (\E k \in DOMAIN files : files[k] = "torn") => fidelity.failures > 0
      BY <1>1, <1>2 DEF Reported
<1>5. Told(profile, refs)
  <2>1. \A e \in DOMAIN refs : refs[e] \in Names
        BY <1>1 DEF PackageTypeOK
  <2>2. ASSUME NEW e \in DOMAIN plan, Unpictured(e, refs)
        PROVE  e \in fidelity.unpictured
    <3>1. plan[e].source \in {"page_region", "page"}
      <4>1. plan[e] \in Element
            BY <1>1, <1>3, ElementFacts
      <4> QED
        BY <2>2, <4>1 DEF Unpictured, PageFallback, Element
    <3>2. e \notin visual
      <4> SUFFICES ASSUME e \in visual PROVE FALSE
          OBVIOUS
      <4>1. e \in DOMAIN refs /\ refs[e] \in DOMAIN files
            BY <1>1, <3>1 DEF DrawnKept
      <4>2. FileOf(e, refs) # <<>>
            BY <1>1, <4>1, FileOfIs
      <4> QED
        BY <2>2, <4>2 DEF Unpictured
    <3> QED
      BY <1>4, <3>1, <3>2
  <2> QED
    BY <2>1, <2>2 DEF Told
<1>6. profile \in Profile
      BY <1>1, ProfilesAssumption DEF Chosen
<1>7. \A m \in Modes : Defaults(m) \in Profile /\ Told(Defaults(m), <<>>)
  <2> TAKE m \in Modes
  <2>1. Defaults(m) \in Profile /\ Defaults(m).warns
        BY DEF Defaults, Profile, Strategies
  <2>2. DOMAIN <<>> = {}
        OBVIOUS
  <2> QED
    BY <2>1, <2>2 DEF Told
<1>8. \E P \in PayloadType : /\ payload' = P /\ AccountedIn(P) /\ ReachableIn(P)
                             /\ BlocksInOrder => InOrderIn(P)
  <2>1. CASE BuildPayload
    <3> DEFINE P == Payload(profile, refs)
    <3>1. P \in PayloadType /\ AccountedIn(P) /\ ReachableIn(P) /\ (BlocksInOrder => InOrderIn(P))
          BY <1>1, <1>3, <1>4, <1>5, <1>6, PayloadIs
    <3>2. payload' = P
          BY <2>1 DEF BuildPayload
    <3> HIDE DEF P
    <3> QED
      BY <3>1, <3>2
  <2>2. CASE \E m \in Modes : Rebuild(m)
    <3>1. PICK m \in Modes : Rebuild(m)
          BY <2>2
    <3> DEFINE prof == Defaults(m)
               P == Payload(prof, <<>>)
    <3>2. prof \in Profile /\ Told(prof, <<>>)
          BY <1>7
    <3>3. payload' = P
          BY <3>1 DEF Rebuild
    <3> HIDE DEF prof
    <3>4. P \in PayloadType /\ AccountedIn(P) /\ ReachableIn(P) /\ (BlocksInOrder => InOrderIn(P))
          BY <1>1, <1>3, <1>4, <3>2, PayloadIs
    <3> HIDE DEF P
    <3> QED
      BY <3>3, <3>4
  <2> QED
    BY <2>1, <2>2
<1>9. PICK P \in PayloadType : /\ payload' = P /\ AccountedIn(P) /\ ReachableIn(P)
                               /\ BlocksInOrder => InOrderIn(P)
      BY <1>8
<1>10. stage \notin {"plan", "write"} /\ stage # "raised"
       BY <1>2
<1> QED
  BY <1>2, <1>9, <1>10, PayloadKeeps

LEMMA PackageKeeps ==
  ASSUME PInv, [PackageNext]_packageVars
  PROVE  PInv'
<1>1. CASE Plan
      BY <1>1, PlanKeeps
<1>2. CASE WriteTable \/ WriteGroup \/ WriteImage \/ WriteRegion \/ WriteNothing
      BY <1>2, WritersKeep
<1>3. CASE WritePlan
      BY <1>3, WritePlanKeeps
<1>4. CASE BuildPayload \/ (\E m \in Modes : Rebuild(m))
      BY <1>4, BuildersKeep
<1>5. CASE UNCHANGED packageVars
  <2>1. /\ PackageTypeOK /\ Chosen /\ Fresh /\ TornCounted /\ DrawnKept /\ Reported /\ RefsBehind
        /\ UNCHANGED <<document, profile, stage, plan, todo, files, refs, visual, failures, fidelity>>
        BY <1>5 DEF packageVars, PInv, PackageTypeOK
  <2>2. PICK P \in PayloadType : P = payload
        BY <2>1 DEF PackageTypeOK
  <2>3. payload' = P
        BY <1>5, <2>2 DEF packageVars
  <2>4. CASE stage \in {"plan", "write"}
    <3>1. PackageTypeOK'
      <4>1. Chosen' /\ payload' \in PayloadType'
            BY <2>1, <2>2, <2>3 DEF Chosen, PayloadType, ItemType
      <4> QED
        BY <2>1, <4>1 DEF PackageTypeOK
    <3>2. Fresh'
      <4>1. AsPlanned => AsPlanned'
        <5>1. (BlockElements \o PageElements)' = BlockElements \o PageElements
              BY <2>1, PlannedStays
        <5> QED
          BY <2>1, <5>1 DEF AsPlanned
      <4> QED
        BY <2>1, <2>2, <2>3, <4>1 DEF Fresh
    <3>3. TornCounted' /\ DrawnKept' /\ Reported' /\ RefsBehind' /\ ~Built'
          BY <2>1, <2>4 DEF TornCounted, DrawnKept, Reported, RefsBehind, Built
    <3> QED
      BY <3>1, <3>2, <3>3 DEF PInv
  <2>5. CASE stage \notin {"plan", "write"}
    <3>1. stage' \in {"packaged", "rebuilt"} =>
            AccountedIn(P) /\ ReachableIn(P) /\ (BlocksInOrder => InOrderIn(P))
          BY <2>1, <2>2 DEF PInv, Built
    <3> QED
      BY <2>1, <2>2, <2>3, <2>5, <3>1, PayloadKeeps
  <2> QED
    BY <2>4, <2>5
<1> QED
  BY <1>1, <1>2, <1>3, <1>4, <1>5 DEF PackageNext, Stopped

LEMMA Packaging_Invariant == PackageSpec => []PInv
<1>1. PackageInit => PInv
      BY PackageStarts
<1>2. PInv /\ [PackageNext]_packageVars => PInv'
      BY PackageKeeps
<1> QED
  BY <1>1, <1>2, PTL DEF PackageSpec

-----------------------------------------------------------------------------
(* The theorems *)

(* The plan, what the package holds, the references and the payload have     *)
(* their types (packaging/models.py), all along.                             *)
THEOREM PackageTypeCorrect == PackageSpec => []PackageTypeOK
<1>1. PInv => PackageTypeOK
      BY DEF PInv
<1> QED
  BY <1>1, Packaging_Invariant, PTL

(* Whatever the document and the profile, and whichever write fails, every   *)
(* selected element is in the payload once, or in the caption of its image,  *)
(* or reported by both the payload and the fidelity report, or the caption   *)
(* of images that are left out or have one of their own                      *)
(* (payload_builder.build_llm_payload, writer._build_fidelity).              *)
THEOREM EverythingAccounted == PackageSpec => []EverySelectedAccounted
<1>1. PInv => EverySelectedAccounted
      BY DEF PInv, EverySelectedAccounted, AccountedIn, Items, ItemsOf
<1> QED
  BY <1>1, Packaging_Invariant, PTL

(* What the item of a table leaves out is in a file of the package, and if   *)
(* that file is torn the fidelity report counts a failure                    *)
(* (table_serialization.select_table_serialization).                         *)
THEOREM RowsAreReachable == PackageSpec => []RowsReachable
<1>1. PInv => RowsReachable
      BY DEF PInv, RowsReachable, ReachableIn, Items
<1> QED
  BY <1>1, Packaging_Invariant, PTL

\* The blocks of every document come in the order of their pages.
InPageOrder ==
  \A d \in Inputs : \A i, j \in DOMAIN d.blocks :
    i < j /\ d.blocks[i].page # 0 /\ d.blocks[j].page # 0 => d.blocks[i].page <= d.blocks[j].page

(* If the blocks come in the order of their pages, as the parsers make them, *)
(* the payload reads in the order of the document, with the fallback of      *)
(* every page behind what there is of the pages up to it.                    *)
THEOREM ReadsInOrder ==
  ASSUME InPageOrder
  PROVE  PackageSpec => []InReadingOrder
<1>1. PInv => InReadingOrder
  <2> SUFFICES ASSUME PInv, Built PROVE InReadingOrder
      BY DEF InReadingOrder
  <2>1. BlocksInOrder
        BY DEF PInv, PackageTypeOK, Chosen, InPageOrder, BlocksInOrder, Blocks, Positions
  <2>2. InOrderIn(payload)
        BY <2>1 DEF PInv
  <2> QED
    BY <2>2 DEF InOrderIn, InPlace, InReadingOrder, Items
<1> QED
  BY <1>1, Packaging_Invariant, PTL

=============================================================================
