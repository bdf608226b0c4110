---------------------------- MODULE BlockStages ----------------------------
(* The stages that rewrite a document's blocks, from the extraction to the   *)
(* chunks: stitch_page_break_tables of the PDF parser, DefaultCleaner,       *)
(* TokenOptimizer, SemanticChunker with split_table_into_ranges.             *)
(*                                                                           *)
(* A block is [kind, level, page, size, white, facts]: page 0 is None; size  *)
(* stands for the length of its text and for its tokens; white says the text *)
(* has blanks around it; facts is what the text says, a sequence of          *)
(* <<position in the source, table row or 0>>.  A (structured) table also    *)
(* has rows, the tokens of each, the first `heads` of them its header; the   *)
(* text `head` of its first row and its number of columns `cols`; whether it *)
(* reaches the top or the foot of its page; and `origin`, page_row_ranges:   *)
(* empty, or the rows that each page gave to a stitched table.               *)
(* What lies between parts that become one block has size 0.                 *)
EXTENDS Integers, Sequences, SequencesExt, FiniteSetsExt

CONSTANTS Sources,       \* the block sequences an extraction may give
          Limits,        \* [max, min, overlap]: the chunker's three parameters
          ShortText,     \* token.py: 60
          HeadingLimit,  \* token.py: 150
          MergeLimit,    \* token.py: 300
          BlankLine      \* the tokens of a blank line, at most: 1 in cl100k_base

Fact == Nat \X Nat
TextKinds == {"heading", "paragraph", "list", "code", "image", "group", "other"}
Text == [kind : TextKinds, level : Nat, page : Nat, size : Nat, white : BOOLEAN,
         facts : Seq(Fact)]
Origin == [page : Nat, first : Nat, last : Nat]
Table == [kind : {"table"}, level : Nat, page : Nat, size : Nat \ {0}, white : BOOLEAN,
          facts : Seq(Fact), rows : Seq(Nat), heads : Nat, head : STRING, cols : Nat,
          foot : BOOLEAN, top : BOOLEAN, origin : Seq(Origin)]
Block == Text \cup {t \in Table : t.heads \in 1..Len(t.rows) /\ Len(t.facts) = Len(t.rows)}

\* A block of the source says what stands at its own position.
Stated(s) ==
  \A i \in DOMAIN s :
    IF s[i].kind = "table" THEN /\ s[i].facts = [r \in DOMAIN s[i].rows |-> <<i, r>>]
                                /\ s[i].origin = <<>>
                           ELSE s[i].facts = <<<<i, 0>>>>

ASSUME SourcesAssumption == \A s \in Sources : s \in Seq(Block) /\ Stated(s)
ASSUME LimitsAssumption ==
  BlankLine \in Nat /\ Limits \subseteq [max : Nat \ {0}, min : Nat, overlap : Nat]

VARIABLES source, limits, pc, blocks,
          next,          \* the position of the block the chunker looks at
          first, fresh,  \* current_blocks: first .. next-1, carried before fresh
          tokens,        \* current_tokens
          heading,       \* current_heading, as the position of its block
          row,           \* the next row to plan of a table, 0 outside one
          chunks
vars == <<source, limits, pc, blocks, next, first, fresh, tokens, heading, row, chunks>>

(* f[i] + ... + f[j], and the sequences s[i], ..., s[j] one after the other. *)
Sum(f, i, j) ==
  LET upTo[k \in 0..j] == IF k < i THEN 0 ELSE upTo[k - 1] + f[k] IN upTo[j]
Concat(s, i, j) ==
  LET upTo[k \in 0..j] == IF k < i THEN <<>> ELSE upTo[k - 1] \o s[k] IN upTo[j]

Total(bs, i, j) == Sum([k \in DOMAIN bs |-> bs[k].size], i, j)
FactsOf(bs, i, j) == Concat([k \in DOMAIN bs |-> bs[k].facts], i, j)

(* count_tokens(_block_to_markdown(b)): "## " and the like count, an image    *)
(* without a text is "![]".                                                  *)
Marked == {"heading", "code", "image"}
TokensOf(b) == IF b.kind \in Marked THEN b.size + 1 ELSE b.size
TotalTokens(i, j) == Sum([k \in DOMAIN blocks |-> TokensOf(blocks[k])], i, j)

(* A pass over the blocks: at each position that it has not dealt with yet   *)
(* it writes some blocks, and has dealt with all up to the position it       *)
(* reaches.                                                                  *)
Walk(write, reach) ==
  LET After[i \in 0..Len(write)] ==
        IF i = 0 THEN [out |-> <<>>, done |-> 0]
        ELSE LET before == After[i - 1]
             IN IF i <= before.done THEN before
                ELSE [out |-> before.out \o write[i], done |-> reach[i]]
  IN After[Len(write)].out

----------------------------------------------------------------------------
(* Stitching: a table that goes on from the page before joins the table it   *)
(* continues, without its first row where that is the header again.  Only    *)
(* the next table can be the continuation, whatever stands in between.       *)
NextTable(bs, i) ==
  LET after == {j \in (i + 1)..Len(bs) : bs[j].kind = "table"}
  IN IF after = {} THEN 0 ELSE Min(after)
Continues(a, b) == /\ a.page # 0 /\ b.page = a.page + 1 /\ a.cols = b.cols
                   /\ a.head = b.head \/ (a.foot /\ b.top)
Stitch(a, b) ==
  LET from == IF a.head = b.head THEN 2 ELSE 1
      rows == a.rows \o SubSeq(b.rows, from, Len(b.rows))
  IN [a EXCEPT !.rows = rows, !.facts = @ \o SubSeq(b.facts, from, Len(b.facts)),
               !.origin = <<[page |-> a.page, first |-> 1, last |-> Len(a.rows)],
                            [page |-> b.page, first |-> Len(a.rows) + 1,
                             last |-> Len(rows)]>>]
StitchRound(bs) ==
  LET After[i \in 0..Len(bs)] ==
        IF i = 0 THEN [out |-> <<>>, absorbed |-> 0]
        ELSE LET before == After[i - 1]
                 j == IF bs[i].kind = "table" THEN NextTable(bs, i) ELSE 0
             IN IF i = before.absorbed THEN before
                ELSE IF j # 0 /\ Continues(bs[i], bs[j])
                     THEN [out |-> Append(before.out, Stitch(bs[i], bs[j])), absorbed |-> j]
                     ELSE [before EXCEPT !.out = Append(@, bs[i])]
  IN After[Len(bs)].out
(* Round after round until one changes nothing.                              *)
Stitched(bs) ==
  LET After[n \in 0..Len(bs)] == IF n = 0 THEN bs ELSE StitchRound(After[n - 1])
  IN After[Len(bs)]

(* Cleaning: the text of a block is stripped, unless its blanks mean         *)
(* something; what is left empty is dropped, an image apart.                 *)
Verbatim == {"list", "code"}
Normalised(b) == IF b.kind \in Verbatim THEN b ELSE [b EXCEPT !.white = FALSE]
HasText(b) == b.size > 0 \/ b.white
Kept(b) == HasText(Normalised(b)) \/ b.kind = "image"
Cleaned(bs) == Walk([i \in DOMAIN bs |-> IF Kept(bs[i]) THEN <<Normalised(bs[i])>> ELSE <<>>],
                    [i \in DOMAIN bs |-> i])

(* Optimizing: a run of headings that reads like one split title becomes one *)
(* heading; a short paragraph takes the next one of its page in.             *)
Join(bs, i, j) == [bs[i] EXCEPT !.size = Total(bs, i, j), !.white = FALSE,
                                !.facts = FactsOf(bs, i, j)]
(* The blocks from i to last[i] become one.                                  *)
Joined(bs, last) ==
  Walk([i \in DOMAIN bs |-> <<IF last[i] = i THEN bs[i] ELSE Join(bs, i, last[i])>>], last)

ChainEnd(bs, i) ==
  Max({j \in i..Len(bs) : \A k \in i..j :
         bs[k].kind = "heading" /\ bs[k].level = bs[i].level /\ bs[k].page = bs[i].page})
SplitTitle(bs, i, j) == /\ j > i
                        /\ \A k \in i..j : bs[k].size < ShortText
                        /\ Total(bs, i, j) < HeadingLimit
TitlesMerged(bs) ==
  Joined(bs, [i \in DOMAIN bs |->
    IF bs[i].kind = "heading" /\ SplitTitle(bs, i, ChainEnd(bs, i)) THEN ChainEnd(bs, i) ELSE i])

Fragment(bs, i) == /\ i < Len(bs)
                   /\ bs[i].kind = "paragraph" /\ bs[i + 1].kind = "paragraph"
                   /\ bs[i].page # 0 /\ bs[i + 1].page = bs[i].page
                   /\ bs[i].size < ShortText
                   /\ Total(bs, i, i + 1) <= MergeLimit
\* Mutant: goes on with the paragraph it has just taken in.
FragmentsRepeated(bs) ==
  Walk([i \in DOMAIN bs |-> <<IF Fragment(bs, i) THEN Join(bs, i, i + 1) ELSE bs[i]>>],
       [i \in DOMAIN bs |-> i])
FragmentsMerged(bs) ==
  Joined(bs, [i \in DOMAIN bs |-> IF Fragment(bs, i) THEN i + 1 ELSE i])

----------------------------------------------------------------------------
Init ==
  /\ source \in Sources /\ limits \in Limits
  /\ pc \in {"stitch", "clean"}   \* a PDF, another format
  /\ blocks = source
  /\ next = 1 /\ first = 1 /\ fresh = 1 /\ tokens = 0 /\ heading = 0 /\ row = 0
  /\ chunks = <<>>

StitchTables ==
  /\ pc = "stitch" /\ pc' = "clean"
  /\ blocks' = Stitched(blocks)
  /\ UNCHANGED <<source, limits, next, first, fresh, tokens, heading, row, chunks>>

Clean ==
  /\ pc = "clean" /\ pc' = "optimize"
  /\ blocks' = Cleaned(blocks)
  /\ UNCHANGED <<source, limits, next, first, fresh, tokens, heading, row, chunks>>

Optimize ==
  /\ pc = "optimize" /\ pc' = "chunk"
  /\ blocks' = FragmentsMerged(TitlesMerged(blocks))
  /\ UNCHANGED <<source, limits, next, first, fresh, tokens, heading, row, chunks>>

(* The pages from the first to the last one of some blocks: page_start to    *)
(* page_end of a chunk.                                                      *)
PagesOf(is) == LET known == {blocks[i].page : i \in is} \ {0}
               IN IF known = {} THEN {} ELSE Min(known)..Max(known)

(* The chunker.  Flushed is `chunks` after flush(current_blocks): as it was  *)
(* when there is nothing to flush.                                           *)
TextChunk == [kind |-> "text", heading |-> heading, first |-> first, fresh |-> fresh,
              last |-> next - 1, rows |-> <<0, 0>>, oversize |-> FALSE,
              pages |-> PagesOf(first..(next - 1)), sources |-> {}]
Flushed == IF first < next THEN Append(chunks, TextChunk) ELSE chunks

(* The tail that flush returns: whole blocks, as many as the overlap takes.  *)
TailStart ==
  IF limits.overlap = 0 THEN next
  ELSE Min({s \in first..next : TotalTokens(s, next - 1) <= limits.overlap})

Looking == pc = "chunk" /\ row = 0 /\ next <= Len(blocks)
Keeps == UNCHANGED <<source, limits, pc, blocks>>

\* Mutant: a heading carries the tail of the section before it over.
ChunkHeadingCarrying ==
  /\ Looking /\ Keeps
  /\ blocks[next].kind = "heading"
  /\ chunks' = Flushed
  /\ first' = TailStart /\ fresh' = next /\ next' = next + 1
  /\ tokens' = TotalTokens(TailStart, next)
  /\ heading' = next
  /\ UNCHANGED row

ChunkHeading ==
  /\ Looking /\ Keeps
  /\ blocks[next].kind = "heading"
  /\ chunks' = Flushed
  /\ first' = next /\ fresh' = next /\ next' = next + 1
  /\ tokens' = TokensOf(blocks[next])
  /\ heading' = next
  /\ UNCHANGED row

(* A key-value group is a chunk of its own.                                  *)
ChunkGroup ==
  /\ Looking /\ Keeps
  /\ blocks[next].kind = "group"
  /\ chunks' = Append(Flushed,
       [kind |-> "group", heading |-> heading, first |-> next, fresh |-> next, last |-> next,
        rows |-> <<0, 0>>, oversize |-> FALSE, pages |-> PagesOf({next}), sources |-> {}])
  /\ next' = next + 1 /\ first' = next + 1 /\ fresh' = next + 1 /\ tokens' = 0
  /\ UNCHANGED <<heading, row>>

ChunkTable ==
  /\ Looking /\ Keeps
  /\ blocks[next].kind = "table"
  /\ chunks' = Flushed
  /\ first' = next /\ fresh' = next /\ tokens' = 0
  /\ row' = 1
  /\ UNCHANGED <<next, heading>>

(* split_table_into_ranges: the first range holds the header and at least    *)
(* one body row, every later one at least one row; each goes on while the    *)
(* header and its rows fit.  A row costs one token at least.                 *)
BodyStart(b, r) == IF r > b.heads THEN r ELSE b.heads + 1
RowTokens(b, r, e) == Sum(b.rows, 1, b.heads) + Sum(b.rows, BodyStart(b, r), e)
LeastEnd(b, r) == IF BodyStart(b, r) <= Len(b.rows) THEN BodyStart(b, r) ELSE Len(b.rows)
RangeEnd(b, r) ==
  Max({e \in LeastEnd(b, r)..Len(b.rows) :
         e = LeastEnd(b, r) \/ RowTokens(b, r, e) <= limits.max})
Oversize(b, r, e) == BodyStart(b, r) = e /\ RowTokens(b, r, e) > limits.max

(* source_pages: of a stitched table those that gave rows of the range.      *)
\* Mutant: those that the whole table is from.
SourcePagesOfTable(b, r, e) ==
  IF b.origin = <<>> THEN {b.page} \ {0} ELSE {o.page : o \in ToSet(b.origin)}
SourcePages(b, r, e) ==
  IF b.origin = <<>> THEN {b.page} \ {0}
  ELSE {o.page : o \in {x \in ToSet(b.origin) : x.first <= e /\ x.last >= r}}

ChunkRows ==
  /\ pc = "chunk" /\ row > 0 /\ Keeps
  /\ LET b == blocks[next]
         e == RangeEnd(b, row)
     IN /\ chunks' = Append(chunks,
             [kind |-> "rows", heading |-> heading, first |-> next, fresh |-> next,
              last |-> next, rows |-> <<row, e>>, oversize |-> Oversize(b, row, e),
              pages |-> PagesOf({next}), sources |-> SourcePages(b, row, e)])
        /\ IF e < Len(b.rows) THEN row' = e + 1 /\ UNCHANGED <<next, first, fresh>>
                          ELSE row' = 0 /\ next' = next + 1
                               /\ first' = next + 1 /\ fresh' = next + 1
  /\ UNCHANGED <<tokens, heading>>

\* Mutant: looks at the chunk as it is, not as the block would make it.
OverBudgetAlready == tokens > limits.max /\ tokens >= limits.min
OverBudget == tokens + TokensOf(blocks[next]) > limits.max /\ tokens >= limits.min

ChunkBlock ==
  /\ Looking /\ Keeps
  /\ blocks[next].kind \notin {"heading", "group", "table"}
  /\ IF OverBudget
     THEN /\ chunks' = Flushed
          /\ first' = TailStart /\ fresh' = next
          /\ tokens' = TotalTokens(TailStart, next - 1) + TokensOf(blocks[next])
     ELSE /\ tokens' = tokens + TokensOf(blocks[next])
          /\ UNCHANGED <<chunks, first, fresh>>
  /\ next' = next + 1
  /\ UNCHANGED <<heading, row>>

Finish ==
  /\ pc = "chunk" /\ row = 0 /\ next > Len(blocks)
  /\ pc' = "done"
  /\ chunks' = Flushed
  /\ UNCHANGED <<source, limits, blocks, next, first, fresh, tokens, heading, row>>

Done == pc = "done" /\ UNCHANGED vars

Next == \/ StitchTables \/ Clean \/ Optimize \/ ChunkHeading \/ ChunkGroup \/ ChunkTable \/ ChunkRows
        \/ ChunkBlock \/ Finish \/ Done
Spec == Init /\ [][Next]_vars

----------------------------------------------------------------------------
TypeOK ==
  /\ source \in Sources /\ blocks \in Seq(Block)
  /\ limits \in Limits
  /\ pc \in {"stitch", "clean", "optimize", "chunk", "done"}
  /\ next \in 1..(Len(blocks) + 1) /\ first \in 1..next /\ fresh \in first..next
  /\ tokens \in Nat /\ heading \in 0..(next - 1) /\ row \in Nat

(* Every fact of the source that the cleaner keeps is in the chunks exactly  *)
(* once, whatever was stitched, merged, split over chunks or into row        *)
(* ranges; only the header that a continued table repeats may be left out.   *)
(* And in the order of the source: only the rows of tables that continue     *)
(* another, directly or one by one, may stand before what lies between it    *)
(* and them.  What a chunk repeats on top it carries over from its           *)
(* predecessor.                                                              *)
Delivers(c) == IF c.kind = "rows" THEN SubSeq(blocks[c.first].facts, c.rows[1], c.rows[2])
               ELSE FactsOf(blocks, c.fresh, c.last)
Delivered == Concat([k \in DOMAIN chunks |-> Delivers(chunks[k])], 1, Len(chunks))
Tables == {i \in DOMAIN source : source[i].kind = "table"}
ContinuedBy(k, i) == k < i /\ Continues(source[k], source[i])
Leads(k, i) ==
  \A S \in SUBSET Tables :
    k \in S /\ (\A x \in S, y \in Tables : ContinuedBy(x, y) => y \in S) => i \in S
(* Every table behind k, up to i, can be a part of k's.                      *)
LeadsUpTo(k, i) == k < i /\ {k, i} \subseteq Tables /\ \A j \in Tables \cap k..i : Leads(k, j)
Precedes(f, g) == f[1] < g[1] \/ (f[1] = g[1] /\ f[2] < g[2])
Moved(f, g) == \E k \in 1..(g[1] - 1) : LeadsUpTo(k, f[1])
RepeatedHeader(f) == f[2] = 1 /\ \E k \in Tables : /\ LeadsUpTo(k, f[1])
                                                 /\ source[k].head = source[f[1]].head
EveryFactOnce ==
  LET d == Delivered
      kept == ToSet(FactsOf(Cleaned(source), 1, Len(Cleaned(source)))) IN
  /\ \A m, n \in DOMAIN d : m < n => d[m] # d[n] /\ (Precedes(d[m], d[n]) \/ Moved(d[m], d[n]))
  /\ pc = "done" => /\ ToSet(d) \subseteq kept
                    /\ \A f \in kept \ ToSet(d) : RepeatedHeader(f)

(* A range of a table names the pages its rows stood on in the source, no    *)
(* more and no fewer (_relevant_source_pages), unless the table was stitched *)
(* again: a later round writes page_row_ranges anew, for two pages only, and *)
(* the second of them need not be one that its rows are from.                *)
StitchedOnce(b) ==
  \/ b.origin = <<>>
  \/ \E c \in ToSet(StitchRound(source)) :
       c.kind = "table" /\ c.facts = b.facts /\ c.origin = b.origin
RangesNamePages ==
  \A k \in DOMAIN chunks :
    chunks[k].kind = "rows" /\ StitchedOnce(blocks[chunks[k].first]) =>
      chunks[k].sources = {source[f[1]].page : f \in ToSet(Delivers(chunks[k]))} \ {0}

(* So does the chunk itself, page_start to page_end: does not hold, these    *)
(* are the page of the stitched table's block.                               *)
ChunkNamesPages ==
  \A k \in DOMAIN chunks : chunks[k].kind = "rows" => chunks[k].sources \subseteq chunks[k].pages

(* token_count of a chunk of text: of its blocks joined by blank lines.      *)
TokenCount(c) == TotalTokens(c.first, c.last) + BlankLine * (c.last - c.first)

(* A chunk of text passes the budget by the blank lines between its blocks,  *)
(* which the chunker does not count, and otherwise only by its last block,   *)
(* where what stands before that block is too little to be a chunk of its    *)
(* own or was carried over; a range of a table only by being one row, and    *)
(* then marked.  A key-value group is never cut.                             *)
WithinBudget ==
  \A k \in DOMAIN chunks : LET c == chunks[k] b == blocks[c.first] IN
    CASE c.kind = "group" -> TRUE
      [] c.kind = "text" ->
         \/ TokenCount(c) <= limits.max + BlankLine * (c.last - c.first)
         \/ c.fresh = c.last
         \/ TotalTokens(c.first, c.last - 1) < limits.min
      [] c.kind = "rows" ->
         \/ RowTokens(b, c.rows[1], c.rows[2]) <= limits.max
         \/ c.oversize
         \/ BodyStart(b, c.rows[1]) > c.rows[2]

(* "Maximum tokens per chunk" (README.md:276), where the minimum and the     *)
(* overlap leave room for it: does not hold, for want of the blank lines.    *)
CountWithinMaximum ==
  \A k \in DOMAIN chunks : LET c == chunks[k] IN
    c.kind = "text" => \/ TokenCount(c) <= limits.max
                       \/ c.fresh = c.last
                       \/ TotalTokens(c.first, c.last - 1) < limits.min

(* A chunk keeps to one section: no heading but its first block, and the     *)
(* heading it is filed under is the last one before its end; what it carries *)
(* over is the tail of the chunk before it, within the overlap.              *)
InOneSection ==
  \A k \in DOMAIN chunks : LET c == chunks[k]
                               Headings == {i \in 1..c.last : blocks[i].kind = "heading"}
    IN /\ c.heading = Max(Headings \cup {0})
       /\ \A i \in (c.first + 1)..c.last : blocks[i].kind \notin {"heading", "group", "table"}
       /\ c.first < c.fresh => /\ k > 1 /\ chunks[k - 1].kind = "text"
                               /\ chunks[k - 1].heading = c.heading
                               /\ c.fresh = chunks[k - 1].last + 1
                               /\ c.first >= chunks[k - 1].first
                               /\ TotalTokens(c.first, c.fresh - 1) <= limits.overlap

=============================================================================
