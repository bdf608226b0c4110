---------------------------- MODULE ChunkReduction ----------------------------
(***************************************************************************)
(* The adaptive chunking loop of the Unlimited-OCR adapter                  *)
(* (unlimited_ocr/adapter.py): a document is inferred in page ranges of at   *)
(* most the chunk size; a range that runs out of GPU memory is cut into      *)
(* ranges of the next smaller size and tried again.                         *)
(*                                                                         *)
(* The code's queue is always in page order (sub-ranges go back to its       *)
(* front), so it is a set here, whose first element has the least page.      *)
(* A text is the set of page ranges it was merged from.                     *)
(***************************************************************************)
EXTENDS Naturals, FiniteSets

CONSTANTS Reduction,   \* _CHUNK_REDUCTION_SEQUENCE
          MaxChunk     \* _MAX_CHUNK_SIZE

ASSUME ReductionAssumption == /\ MaxChunk \in Nat \ {0}
                              /\ Reduction \subseteq 1 .. MaxChunk
                              /\ 1 \in Reduction

VARIABLES total,       \* pages of the document, numbered from 0
          todo,        \* the queue
          merged       \* successful_outputs

chunkVars == <<total, todo, merged>>

Span == [from : Nat, to : Nat]
Job  == [from : Nat, to : Nat, size : 1 .. MaxChunk]

\* _next_smaller_chunk_size, 0 for None.
NextSmaller(size) ==
  IF \E n \in Reduction : n < size
  THEN CHOOSE n \in Reduction : n < size /\ \A m \in Reduction : m < size => m <= n
  ELSE 0

\* Mutant of Split: a sub-range may run over the end of the range that is cut.
SplitOver(from, to, size) ==
  { [from |-> s, to |-> s + size, size |-> size] :
      s \in {i \in from .. to - 1 : (i - from) % size = 0} }

\* _split_range_at, and _initial_chunk_ranges for the whole document.
Split(from, to, size) ==
  { [from |-> s, to |-> IF s + size < to THEN s + size ELSE to, size |-> size] :
      s \in {i \in from .. to - 1 : (i - from) % size = 0} }

First == CHOOSE r \in todo : \A q \in todo : r.from <= q.from

Length(r) == r.to - r.from

SpanOf(r) == [from |-> r.from, to |-> r.to]

\* The loop's outcomes for the first range: text, or the cut after an OOM.
Pass ==
  /\ todo' = todo \ {First}
  /\ merged' = merged \cup {SpanOf(First)}
  /\ UNCHANGED total

Cut ==
  /\ todo' = (todo \ {First}) \cup Split(First.from, First.to, NextSmaller(First.size))
  /\ UNCHANGED <<total, merged>>

\* The check before the merge: in order of their first pages, each range starts
\* where the one before it ends, the first at 0 and the last ends at the total.
Before(r) == {q \in merged : q.from < r.from}

Latest(spans) == CHOOSE r \in spans : \A q \in spans : q.from <= r.from

CoverageComplete ==
  /\ \A r \in merged : r.from = IF Before(r) = {} THEN 0 ELSE Latest(Before(r)).to
  /\ total = IF merged = {} THEN 0 ELSE Latest(merged).to

Covers(r, page) == r.from <= page /\ page < r.to

\* Every page of the document is in exactly one of the spans.
Tiles(spans) ==
  \A page \in 0 .. total - 1 :
    \E r \in spans : Covers(r, page) /\ \A q \in spans : Covers(q, page) => q = r
=============================================================================
