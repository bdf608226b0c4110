------------------------- MODULE OcrIsolation_proofs -------------------------
(***************************************************************************)
(* Proofs about ChunkReduction and OcrIsolation, for every chunk sequence,   *)
(* every document length, every behaviour of the GPU and every set of        *)
(* faults.                                                                  *)
(***************************************************************************)
EXTENDS OcrIsolation, WellFoundedInduction, TLAPS

USE ReductionAssumption, WorkerAssumption, IsolationAssumption
USE DEF ReductionAssumption, WorkerAssumption, IsolationAssumption

-----------------------------------------------------------------------------
(* The queue of page ranges *)

LEMMA LeastNatural ==
  ASSUME NEW S \in SUBSET Nat, S # {}
  PROVE  \E n \in S : \A m \in S : n <= m
<1>1. PICK n \in S : \A m \in S : ~ (<<m, n>> \in OpToRel(<, Nat))
      BY NatLessThanWellFounded, WFMin, Zenon
<1>2. OpToRel(<, Nat) = {d \in Nat \X Nat : d[1] < d[2]}
      BY DEF OpToRel
<1>3. ASSUME NEW m \in S PROVE n <= m
  <2>1. <<m, n>> \notin {d \in Nat \X Nat : d[1] < d[2]}
        BY <1>1, <1>2
  <2> QED
    BY <2>1
<1> QED
  BY <1>3

\* A queue that is not empty has a first range.
LEMMA FirstExists ==
  ASSUME todo \in SUBSET Job, todo # {}
  PROVE  First \in todo /\ \A q \in todo : First.from <= q.from
<1> DEFINE Starts == {r.from : r \in todo}
<1>1. Starts \in SUBSET Nat /\ Starts # {}
      BY DEF Job
<1>2. \E n \in Starts : \A m \in Starts : n <= m
      BY <1>1, LeastNatural
<1>3. \E r \in todo : \A q \in todo : r.from <= q.from
      BY <1>2
<1> QED
  BY <1>3 DEF First

LEMMA NextSmallerType ==
  ASSUME NEW s \in 1 .. MaxChunk
  PROVE  /\ NextSmaller(s) \in 0 .. MaxChunk
         /\ NextSmaller(s) < s
         /\ s = 1 => NextSmaller(s) = 0
<1>1. CASE \E n \in Reduction : n < s
  <2> DEFINE Smaller == {MaxChunk - n : n \in {m \in Reduction : m < s}}
  <2>1. Smaller \in SUBSET Nat /\ Smaller # {}
    <3>1. \A n \in Reduction : MaxChunk - n \in Nat
          OBVIOUS
    <3>2. PICK n \in Reduction : n < s
          BY <1>1
    <3>3. MaxChunk - n \in Smaller
          BY <3>2
    <3> QED
      BY <3>1, <3>3
  <2>2. \E a \in Smaller : \A b \in Smaller : a <= b
        BY <2>1, LeastNatural
  <2>3. PICK n \in {m \in Reduction : m < s} :
               \A k \in {m \in Reduction : m < s} : MaxChunk - n <= MaxChunk - k
        BY <2>2, ZenonT(60)
  <2>4. \E k \in Reduction : k < s /\ \A m \in Reduction : m < s => m <= k
        BY <2>3
  <2>5. NextSmaller(s) \in Reduction /\ NextSmaller(s) < s
        BY <1>1, <2>4 DEF NextSmaller
  <2>6. NextSmaller(s) \in 1 .. MaxChunk
        BY <2>5
  <2> QED
    BY <2>5, <2>6
<1>2. CASE ~ \E n \in Reduction : n < s
      BY <1>2 DEF NextSmaller
<1> QED
  BY <1>1, <1>2

LEMMA NextSmallerPositive ==
  ASSUME NEW s \in 1 .. MaxChunk, 1 < s
  PROVE  NextSmaller(s) # 0
<1> DEFINE Smaller == {MaxChunk - n : n \in {m \in Reduction : m < s}}
<1>1. Smaller \in SUBSET Nat
  <2>1. \A n \in Reduction : MaxChunk - n \in Nat
        OBVIOUS
  <2> QED
    BY <2>1
<1>2. MaxChunk - 1 \in Smaller
      OBVIOUS
<1>3. \E a \in Smaller : \A b \in Smaller : a <= b
      BY <1>1, <1>2, LeastNatural
<1>4. PICK n \in {m \in Reduction : m < s} :
             \A k \in {m \in Reduction : m < s} : MaxChunk - n <= MaxChunk - k
      BY <1>3, ZenonT(60)
<1>5. \E k \in Reduction : k < s /\ \A m \in Reduction : m < s => m <= k
      BY <1>4
<1>6. NextSmaller(s) \in Reduction
  <2>1. \E k \in Reduction : k < s
        OBVIOUS
  <2> QED
    BY <1>5, <2>1 DEF NextSmaller
<1> QED
  BY <1>6

\* The pieces of a cut are jobs inside the range that is cut.
LEMMA SplitType ==
  ASSUME NEW from \in Nat, NEW to \in Nat, NEW s \in 1 .. MaxChunk
  PROVE  /\ Split(from, to, s) \in SUBSET Job
         /\ \A r \in Split(from, to, s) :
              from <= r.from /\ r.from < r.to /\ r.to <= to /\ r.to <= r.from + s /\ r.size = s
<1> SUFFICES ASSUME NEW r \in Split(from, to, s)
             PROVE  /\ r \in Job
                    /\ from <= r.from /\ r.from < r.to /\ r.to <= to
                    /\ r.to <= r.from + s /\ r.size = s
    OBVIOUS
<1>1. PICK i \in from .. to - 1 :
             r = [from |-> i, to |-> IF i + s < to THEN i + s ELSE to, size |-> s]
      BY DEF Split
<1> QED
  BY <1>1 DEF Job

LEMMA Multiple ==
  ASSUME NEW a \in Nat, NEW s \in Nat \ {0}, a % s = 0
  PROVE  \E q \in Nat : a = q * s
<1>1. PICK q : q = a \div s
      OBVIOUS
<1>2. q \in Nat /\ a = q * s
      BY <1>1
<1> QED
  BY <1>2

\* The last multiple of s that is not above a.
LEMMA LastMultiple ==
  ASSUME NEW a \in Nat, NEW s \in Nat \ {0}
  PROVE  \E m \in 0 .. a : m % s = 0 /\ a < m + s
<1>1. PICK q : q = a \div s
      OBVIOUS
<1>2. q \in Nat /\ q * s <= a /\ a < q * s + s
      BY <1>1
<1>3. (s * q) % s = 0
      BY <1>2
<1>4. s * q = q * s /\ q * s \in Nat
      BY <1>2
<1> QED
  BY <1>2, <1>3, <1>4

LEMMA MultiplesApart ==
  ASSUME NEW i \in Nat, NEW j \in Nat, NEW s \in Nat \ {0}, i % s = 0, j % s = 0, i < j
  PROVE  i + s <= j
<1>1. PICK k \in Nat : i = k * s
      BY Multiple
<1>2. PICK l \in Nat : j = l * s
      BY Multiple
<1>3. ~ (l <= k)
  <2>1. l <= k => l * s <= k * s
        OBVIOUS
  <2> QED
    BY <2>1, <1>1, <1>2
<1>4. k * s + s <= l * s
      BY <1>3
<1> QED
  BY <1>4, <1>1, <1>2

\* The pieces of a cut cover every page of the range exactly once.
LEMMA SplitTiles ==
  ASSUME NEW from \in Nat, NEW to \in Nat, NEW s \in 1 .. MaxChunk,
         NEW page \in from .. to - 1
  PROVE  \E r \in Split(from, to, s) :
            Covers(r, page) /\ \A q \in Split(from, to, s) : Covers(q, page) => q = r
<1> DEFINE Piece(i) == [from |-> i, to |-> IF i + s < to THEN i + s ELSE to, size |-> s]
           Starts == {i \in from .. to - 1 : (i - from) % s = 0}
<1>1. Split(from, to, s) = {Piece(i) : i \in Starts}
      BY DEF Split
<1>2. PICK m \in 0 .. page - from : m % s = 0 /\ page - from < m + s
  <2>1. page - from \in Nat /\ s \in Nat \ {0}
        OBVIOUS
  <2> QED
    BY <2>1, LastMultiple
<1> DEFINE i == from + m
<1>3. i \in Starts /\ i <= page /\ page < i + s
      BY <1>2
<1>4. Covers(Piece(i), page)
      BY <1>3 DEF Covers
<1>5. ASSUME NEW j \in Starts, Covers(Piece(j), page)
      PROVE  j = i
  <2>1. j \in Nat /\ j <= page /\ page < j + s
        BY <1>5 DEF Covers
  <2>2. j - from \in Nat /\ (j - from) % s = 0
        OBVIOUS
  <2>3. m \in Nat /\ s \in Nat \ {0}
        OBVIOUS
  <2>4. j - from < m => j - from + s <= m
        BY <2>2, <2>3, <1>2, MultiplesApart
  <2>5. m < j - from => m + s <= j - from
        BY <2>2, <2>3, <1>2, MultiplesApart
  <2> QED
    BY <2>1, <2>2, <2>4, <2>5, <1>2, <1>3
<1> HIDE DEF Piece, Starts, i
<1> QED
  BY <1>1, <1>3, <1>4, <1>5

-----------------------------------------------------------------------------
(* Types *)

\* A worker that exited did so with an exit code.
ExitedWithCode == wpc = "exited" => code # "none"

LEMMA TypeInit == Init => TypeOK /\ ExitedWithCode
<1> SUFFICES ASSUME Init PROVE TypeOK /\ ExitedWithCode
    OBVIOUS
<1>1. WorkerTypeOK
  <2>1. /\ total \in 1 .. MaxPages /\ cap \in 0 .. MaxPages /\ shifts \in 0 .. MaxShifts
        /\ todo = {} /\ merged = {} /\ wpc = "off" /\ code = "none"
        BY DEF Init, WorkerInit
  <2>2. trouble \in BOOLEAN /\ floored \in BOOLEAN
        BY Zenon DEF Init, WorkerInit
  <2>3. code \in Code
        BY <2>1 DEF Code
  <2> QED
    BY <2>1, <2>2, <2>3 DEF WorkerTypeOK
<1>2. /\ attempt \in 1 .. MaxRestarts + 1 /\ size \in 1 .. MaxChunk
      /\ text \in SUBSET Span /\ failure \in Failure
      BY DEF Init, Failure
<1>3. wpc = "off" /\ pc = "spawn" /\ timed \in BOOLEAN
      BY IsolationAssumption DEF Init, WorkerInit
<1> QED
  BY <1>1, <1>2, <1>3 DEF TypeOK, ExitedWithCode, Running

LEMMA WorkerTypes ==
  ASSUME TypeOK, ExitedWithCode, Worker, UNCHANGED parentVars
  PROVE  TypeOK' /\ ExitedWithCode'
<1> USE DEF TypeOK, WorkerTypeOK, ExitedWithCode, Running, Code, Exit, chunkVars, workerVars,
            gpuVars, parentVars
<1>1. CASE Load \/ LoadFails \/ RenderFails \/ Merge \/ WriteOutputs \/ Breaks \/ Hang
      BY <1>1 DEF Load, LoadFails, RenderFails, Merge, WriteOutputs, Breaks, Hang
<1>2. CASE Plan(size)
  <2>1. Split(0, total, size) \in SUBSET Job
        BY SplitType
  <2> QED
    BY <1>2, <2>1 DEF Plan
<1>3. CASE SinglePasses
      BY <1>3 DEF SinglePasses, Span
<1>4. CASE SingleFails \/ ChunkFails
      BY <1>4 DEF SingleFails, ChunkFails, Reported, LoopSeesOom
<1>5. CASE ChunkPasses
  <2>1. First \in todo
        BY <1>5, FirstExists DEF ChunkPasses
  <2>2. SpanOf(First) \in Span
        BY <2>1 DEF SpanOf, Span, Job
  <2> QED
    BY <1>5, <2>2 DEF ChunkPasses, Pass
<1>6. CASE \E healthy \in BOOLEAN : ChunkOom(healthy)
  <2>1. PICK healthy \in BOOLEAN : ChunkOom(healthy)
        BY <1>6
  <2>2. CASE UNCHANGED chunkVars
        BY <2>1, <2>2 DEF ChunkOom, Cut
  <2>3. CASE NextSmaller(First.size) # 0 /\ Cut /\ UNCHANGED <<workerVars, floored>>
    <3>1. First \in Job
          BY <2>1, FirstExists DEF ChunkOom
    <3>2. NextSmaller(First.size) \in 1 .. MaxChunk
          BY <2>3, <3>1, NextSmallerType DEF Job
    <3>3. Split(First.from, First.to, NextSmaller(First.size)) \in SUBSET Job
          BY <3>1, <3>2, SplitType DEF Job
    <3> QED
      BY <2>1, <2>3, <3>3 DEF ChunkOom, Cut
  <2> QED
    BY <2>1, <2>2, <2>3 DEF ChunkOom
<1> QED
  BY <1>1, <1>2, <1>3, <1>4, <1>5, <1>6 DEF Worker

LEMMA ParentTypes ==
  ASSUME TypeOK, ExitedWithCode, Parent
  PROVE  TypeOK' /\ ExitedWithCode'
<1> USE DEF TypeOK, WorkerTypeOK, ExitedWithCode, Running, Code, Failure, Exit, Settled,
            chunkVars, workerVars, gpuVars, parentVars
<1>1. CASE Spawn
      BY <1>1 DEF Spawn
<1>2. CASE SpawnFails
      BY <1>2 DEF SpawnFails
<1>3. CASE TimeOut
      BY <1>3 DEF TimeOut
<1>4. CASE Succeed
      BY <1>4 DEF Succeed
<1>5. CASE Retry
      BY <1>5 DEF Retry, Retryable, OutOfMemory
<1>6. CASE GiveUp
      BY <1>6 DEF GiveUp, Retryable, OutOfMemory
<1> QED
  BY <1>1, <1>2, <1>3, <1>4, <1>5, <1>6 DEF Parent

LEMMA TypeStep == TypeOK /\ ExitedWithCode /\ [Next]_vars => TypeOK' /\ ExitedWithCode'
<1> SUFFICES ASSUME TypeOK, ExitedWithCode, [Next]_vars
             PROVE  TypeOK' /\ ExitedWithCode'
    OBVIOUS
<1>1. CASE Worker /\ UNCHANGED parentVars
      BY <1>1, WorkerTypes
<1>2. CASE Parent
      BY <1>2, ParentTypes
<1>3. CASE Shift /\ UNCHANGED parentVars
      BY <1>3 DEF Shift, TypeOK, WorkerTypeOK, ExitedWithCode, chunkVars, workerVars, parentVars
<1>4. CASE UNCHANGED vars
      BY <1>4 DEF vars, TypeOK, WorkerTypeOK, ExitedWithCode, chunkVars, workerVars, gpuVars,
                  parentVars
<1> QED
  BY <1>1, <1>2, <1>3, <1>4 DEF Next

\* Every value has its type, and the parent waits exactly while a worker of its
\* own is running or has just exited (run_infer_pdf_isolated).
THEOREM TypeCorrect == Spec => []TypeOK
<1>1. Spec => [](TypeOK /\ ExitedWithCode)
      BY TypeInit, TypeStep, PTL DEF Spec
<1> QED
  BY <1>1, PTL

-----------------------------------------------------------------------------
(* An OOM that is reported was one *)

\* With the smallest chunk size every range is a single page.
OnePageRanges == wpc = "chunks" /\ size = 1 => \A r \in todo : r.size = 1 /\ Length(r) = 1

SingleFits == wpc = "single" => total <= size

\* An attempt of that size that ended in an OOM met a page that did not fit.
Blamed == wpc = "exited" /\ size = 1 /\ OutOfMemory => floored \/ trouble

Called == pc = "done" /\ failure = "single_page_oom" => floored \/ trouble

NoFailureYet == pc # "done" => failure = "none"

OomInv == OnePageRanges /\ SingleFits /\ Blamed /\ Called /\ NoFailureYet

LEMMA OomInit == Init => OomInv
BY DEF Init, WorkerInit, OomInv, OnePageRanges, SingleFits, Blamed, Called, NoFailureYet

LEMMA OomWorker ==
  ASSUME TypeOK, OomInv, Worker, UNCHANGED parentVars
  PROVE  OomInv'
<1> USE DEF OomInv, OnePageRanges, SingleFits, Blamed, Called, NoFailureYet, OutOfMemory, Exit, parentVars,
            chunkVars, workerVars, gpuVars
<1>0. pc # "done"
  <2>1. wpc \in Running
        BY DEF Worker, Load, LoadFails, RenderFails, Plan, SinglePasses, SingleFails, ChunkPasses, ChunkOom,
               ChunkFails, Merge, WriteOutputs, Breaks, Hang, Running
  <2> QED
    BY <2>1 DEF TypeOK
<1>1. CASE Load \/ LoadFails \/ RenderFails \/ Merge \/ WriteOutputs \/ Breaks \/ Hang
      BY <1>0, <1>1 DEF Load, LoadFails, RenderFails, Merge, WriteOutputs, Breaks, Hang
<1>2. CASE Plan(size)
  <2>1. total \in Nat /\ size \in 1 .. MaxChunk
        BY DEF TypeOK, WorkerTypeOK
  <2>2. size = 1 => \A r \in Split(0, total, size) : r.size = 1 /\ Length(r) = 1
    <3>1. \A r \in Split(0, total, size) :
             r \in Job /\ r.from < r.to /\ r.to <= r.from + size /\ r.size = size
          BY <2>1, SplitType
    <3> QED
      BY <3>1 DEF Length, Job
  <2> QED
    BY <1>0, <1>2, <2>1, <2>2 DEF Plan
<1>3. CASE SinglePasses
      BY <1>0, <1>3 DEF SinglePasses
<1>4. CASE SingleFails
  <2>1. PICK e \in Raised(total) : /\ Exit(Reported(e))
                                   /\ trouble' = (trouble \/ ~LoopSeesOom(e))
                                   /\ floored' = (LoopSeesOom(e) /\ total = 1)
        BY <1>4 DEF SingleFails
  <2>2. size = 1 => total = 1
        BY <1>4 DEF SingleFails, TypeOK, WorkerTypeOK
  <2>3. size' = 1 => floored' \/ trouble'
        BY <2>1, <2>2
  <2> QED
    BY <1>0, <2>1, <2>3
<1>5. CASE ChunkPasses
      BY <1>0, <1>5 DEF ChunkPasses, Pass
<1>6. CASE \E healthy \in BOOLEAN : ChunkOom(healthy)
  <2>1. PICK healthy \in BOOLEAN : ChunkOom(healthy)
        BY <1>6
  <2>2. First \in todo /\ First.size \in 1 .. MaxChunk
        BY <2>1, FirstExists DEF ChunkOom, TypeOK, WorkerTypeOK, Job
  <2>3. CASE Exit("unhealthy") /\ floored' = (Length(First) = 1)
        BY <1>0, <2>1, <2>2, <2>3 DEF ChunkOom
  <2>4. CASE Exit("non_oom")
        BY <1>0, <2>4
  <2>5. CASE NextSmaller(First.size) # 0 /\ Cut /\ UNCHANGED <<workerVars, floored>>
    <3>1. size # 1
          BY <2>1, <2>2, <2>5, NextSmallerType DEF ChunkOom
    <3> QED
      BY <1>0, <2>1, <2>5, <3>1 DEF ChunkOom
  <2> QED
    BY <2>1, <2>3, <2>4, <2>5 DEF ChunkOom
<1>7. CASE ChunkFails
      BY <1>0, <1>7 DEF ChunkFails
<1> QED
  BY <1>1, <1>2, <1>3, <1>4, <1>5, <1>6, <1>7 DEF Worker

LEMMA OomParent ==
  ASSUME TypeOK, OomInv, Parent
  PROVE  OomInv'
<1> USE DEF OomInv, OnePageRanges, SingleFits, Blamed, Called, NoFailureYet, OutOfMemory, Settled, chunkVars,
            workerVars, gpuVars, parentVars
<1>1. CASE Spawn
      BY <1>1 DEF Spawn
<1>2. CASE TimeOut
      BY <1>2 DEF TimeOut, Exit, TypeOK, Running
<1>3. CASE GiveUp
  <2>1. failure' = "single_page_oom" => OutOfMemory /\ attempt <= MaxRestarts
        BY <1>3 DEF GiveUp, TypeOK, WorkerTypeOK, Code
  <2>2. failure' = "single_page_oom" => size = 1
        BY <1>3, <2>1 DEF GiveUp, Retryable, TypeOK
  <2> QED
    BY <1>3, <2>1, <2>2 DEF GiveUp
<1>4. CASE SpawnFails
      BY <1>4 DEF SpawnFails, TypeOK, Running
<1>5. CASE Succeed
  <2>1. failure' = "none"
        BY <1>5 DEF Succeed, TypeOK, Running
  <2> QED
    BY <1>5, <2>1 DEF Succeed
<1>6. CASE Retry
      BY <1>6 DEF Retry, TypeOK, Running
<1> QED
  BY <1>1, <1>2, <1>3, <1>4, <1>5, <1>6 DEF Parent

LEMMA OomStep == TypeOK /\ OomInv /\ [Next]_vars => OomInv'
<1> SUFFICES ASSUME TypeOK, OomInv, [Next]_vars PROVE OomInv'
    OBVIOUS
<1> USE DEF OomInv, OnePageRanges, SingleFits, Blamed, Called, NoFailureYet, OutOfMemory, chunkVars,
            workerVars, gpuVars, parentVars
<1>1. CASE Worker /\ UNCHANGED parentVars
      BY <1>1, OomWorker
<1>2. CASE Parent
      BY <1>2, OomParent
<1>3. CASE Shift /\ UNCHANGED parentVars
      BY <1>3 DEF Shift
<1>4. CASE UNCHANGED vars
      BY <1>4 DEF vars
<1> QED
  BY <1>1, <1>2, <1>3, <1>4 DEF Next

\* What the backend calls a CUDA OOM and asks the user to retry with a free GPU
\* was a page that did not fit alone, or something else did go wrong
\* (_next_chunk_size, run_infer_pdf_isolated, _classify_infer_failure).
THEOREM OomSound == Spec => []OomMeansOom
<1>1. Spec => [](TypeOK /\ ExitedWithCode /\ OomInv)
      BY TypeInit, TypeStep, OomInit, OomStep, PTL DEF Spec
<1>2. OomInv => OomMeansOom
      BY DEF OomInv, Called, OomMeansOom, Kind
<1> QED
  BY <1>1, <1>2, PTL

-----------------------------------------------------------------------------
(* The ranges tile the document *)

\* The finished ranges and the waiting ones.
Ranges == merged \cup {SpanOf(r) : r \in todo}

\* No two of them start at the same page, and none is empty.
Apart ==
  /\ \A r \in todo : r.from < r.to /\ r.to <= total
  /\ \A m \in merged : m.from < m.to /\ m.to <= total
  /\ \A r, q \in todo : r.from = q.from => r = q
  /\ \A r \in todo, m \in merged : r.from # m.from

Chunked == wpc = "chunks" => Apart /\ Tiles(Ranges)

NothingYet == wpc \in {"load", "infer"} => merged = {}

Written == wpc = "write" \/ (wpc = "exited" /\ code = "ok") => Tiles(merged)

Delivered == pc = "done" /\ failure = "none" => Tiles(text) \/ (text = {} /\ trouble)

TileInv == Chunked /\ NothingYet /\ Written /\ Delivered

\* Two ranges that share a page are one.
LEMMA Shared ==
  ASSUME Tiles(Ranges), NEW a \in Ranges, NEW b \in Ranges, NEW page \in 0 .. total - 1,
         Covers(a, page), Covers(b, page)
  PROVE  a = b
BY DEF Tiles

\* Cutting a waiting range into smaller ones.
LEMMA CutApart ==
  ASSUME todo \in SUBSET Job, merged \in SUBSET Span, total \in Nat, Apart, Tiles(Ranges),
         NEW r \in todo, NEW s \in 1 .. MaxChunk,
         NEW new, new = (todo \ {r}) \cup Split(r.from, r.to, s)
  PROVE  /\ \A t \in new : t.from < t.to /\ t.to <= total
         /\ \A t, q \in new : t.from = q.from => t = q
         /\ \A t \in new, m \in merged : t.from # m.from
<1> DEFINE Pieces == Split(r.from, r.to, s)
<1>1. r.from \in Nat /\ r.to \in Nat /\ r.from < r.to /\ r.to <= total
      BY DEF Job, Apart
<1>2. \A t \in Pieces : /\ t \in Job
                        /\ r.from <= t.from /\ t.from < t.to /\ t.to <= r.to
      BY <1>1, SplitType
<1>3. \A t, q \in Pieces : t.from = q.from => t = q
      BY DEF Split
<1>4. ASSUME NEW t \in Pieces, NEW q \in todo \ {r} PROVE t.from # q.from
  <2>1. SUFFICES ASSUME t.from = q.from PROVE FALSE
        OBVIOUS
  <2>2. q.from \in Nat /\ q.from < q.to /\ q.to <= total /\ q.to \in Nat
        BY DEF Job, Apart
  <2>3. Covers(SpanOf(q), q.from) /\ Covers(SpanOf(r), q.from)
        BY <1>1, <1>2, <2>1, <2>2 DEF Covers, SpanOf, Job
  <2>4. SpanOf(q) = SpanOf(r)
    <3>1. q.from \in 0 .. total - 1
          BY <2>2
    <3> QED
      BY <2>3, <3>1, Shared DEF Ranges
  <2>5. q.from = r.from
        BY <2>4 DEF SpanOf
  <2> QED
    BY <2>5 DEF Apart
<1>5. ASSUME NEW t \in Pieces, NEW m \in merged PROVE t.from # m.from
  <2>1. SUFFICES ASSUME t.from = m.from PROVE FALSE
        OBVIOUS
  <2>2. m.from \in Nat /\ m.to \in Nat /\ m.from < m.to
        BY DEF Span, Apart
  <2>3. Covers(m, m.from) /\ Covers(SpanOf(r), m.from) /\ m.from \in 0 .. total - 1
        BY <1>1, <1>2, <2>1, <2>2 DEF Covers, SpanOf, Job
  <2>4. m = SpanOf(r)
        BY <2>3, Shared DEF Ranges
  <2>5. m.from = r.from
        BY <2>4 DEF SpanOf
  <2> QED
    BY <2>5 DEF Apart
<1>6. \A t \in new : t.from < t.to /\ t.to <= total
      BY <1>1, <1>2 DEF Apart, Job
<1>7. \A t, q \in new : t.from = q.from => t = q
      BY <1>3, <1>4 DEF Apart
<1>8. \A t \in new, m \in merged : t.from # m.from
      BY <1>5 DEF Apart
<1> QED
  BY <1>6, <1>7, <1>8

LEMMA CutTiles ==
  ASSUME todo \in SUBSET Job, merged \in SUBSET Span, total \in Nat, Apart, Tiles(Ranges),
         NEW r \in todo, NEW s \in 1 .. MaxChunk,
         NEW new, new = (todo \ {r}) \cup Split(r.from, r.to, s)
  PROVE  Tiles(merged \cup {SpanOf(t) : t \in new})
<1> DEFINE Pieces == Split(r.from, r.to, s)
           After  == merged \cup {SpanOf(t) : t \in new}
<1>1. r.from \in Nat /\ r.to \in Nat /\ r.from < r.to /\ r.to <= total
      BY DEF Job, Apart
<1>2. \A t \in Pieces : /\ t \in Job
                        /\ r.from <= t.from /\ t.from < t.to /\ t.to <= r.to
      BY <1>1, SplitType
<1>3. SUFFICES ASSUME NEW page \in 0 .. total - 1
               PROVE  \E x \in After : Covers(x, page) /\ \A q \in After : Covers(q, page) => q = x
      BY DEF Tiles
<1>4. PICK o \in Ranges : Covers(o, page) /\ \A q \in Ranges : Covers(q, page) => q = o
      BY DEF Tiles
<1>5. \A t \in todo : Covers(SpanOf(t), page) <=> Covers(t, page)
      BY DEF Covers, SpanOf
<1>6. \A t \in Pieces : Covers(SpanOf(t), page) <=> Covers(t, page)
      BY DEF Covers, SpanOf
<1>7. CASE o = SpanOf(r)
  <2>1. Covers(r, page) /\ page \in r.from .. r.to - 1
        BY <1>1, <1>4, <1>5, <1>7 DEF Covers
  <2>2. PICK x \in Pieces : Covers(x, page) /\ \A q \in Pieces : Covers(q, page) => q = x
        BY <1>1, <2>1, SplitTiles
  <2>3. SpanOf(x) \in After /\ Covers(SpanOf(x), page)
        BY <2>2, <1>6
  <2>4. ASSUME NEW m \in merged, Covers(m, page) PROVE FALSE
    <3>1. m = SpanOf(r)
          BY <2>4, <1>4, <1>7 DEF Ranges
    <3>2. m.from = r.from
          BY <3>1 DEF SpanOf
    <3> QED
      BY <3>2 DEF Apart
  <2>5. ASSUME NEW t \in todo \ {r}, Covers(SpanOf(t), page) PROVE FALSE
    <3>1. SpanOf(t) = SpanOf(r)
          BY <2>5, <1>4, <1>7 DEF Ranges
    <3>2. t.from = r.from
          BY <3>1 DEF SpanOf
    <3> QED
      BY <3>2 DEF Apart
  <2>6. \A t \in Pieces : Covers(SpanOf(t), page) => SpanOf(t) = SpanOf(x)
        BY <2>2, <1>6
  <2> QED
    BY <2>3, <2>4, <2>5, <2>6
<1>8. CASE o # SpanOf(r)
  <2>1. ~Covers(r, page)
        BY <1>4, <1>5, <1>8 DEF Ranges
  <2>2. o \in After
        BY <1>8 DEF Ranges
  <2>3. \A t \in Pieces : ~Covers(SpanOf(t), page)
        BY <1>1, <1>2, <1>6, <2>1 DEF Covers, Job
  <2>4. \A q \in After : Covers(q, page) => q \in Ranges
        BY <2>3 DEF Ranges
  <2> QED
    BY <1>4, <2>2, <2>4
<1> QED
  BY <1>7, <1>8

\* The ranges the loop starts with.
LEMMA PlanTiles ==
  ASSUME total \in Nat, NEW s \in 1 .. MaxChunk, NEW new, new = Split(0, total, s)
  PROVE  /\ \A r \in new : r.from < r.to /\ r.to <= total
         /\ \A r, q \in new : r.from = q.from => r = q
         /\ Tiles({SpanOf(t) : t \in new})
<1>1. \A r \in new : r.from < r.to /\ r.to <= total
      BY SplitType
<1>2. \A r, q \in new : r.from = q.from => r = q
  <2> DEFINE Piece(i) == [from |-> i, to |-> IF i + s < total THEN i + s ELSE total, size |-> s]
  <2>1. new = {Piece(i) : i \in {j \in 0 .. total - 1 : (j - 0) % s = 0}}
        BY Zenon DEF Split
  <2>2. ASSUME NEW r \in new PROVE r = Piece(r.from)
    <3>1. PICK i : r = Piece(i)
          BY <2>1, Zenon
    <3>2. r.from = i
          BY <3>1
    <3> QED
      BY <3>1, <3>2, Zenon
  <2> QED
    BY <2>2
<1>3. ASSUME NEW page \in 0 .. total - 1
      PROVE  \E x \in {SpanOf(t) : t \in new} :
               Covers(x, page) /\ \A q \in {SpanOf(t) : t \in new} : Covers(q, page) => q = x
  <2>1. PICK x \in new : Covers(x, page) /\ \A q \in new : Covers(q, page) => q = x
        BY SplitTiles
  <2>2. \A t \in new : Covers(SpanOf(t), page) <=> Covers(t, page)
        BY DEF Covers, SpanOf
  <2> QED
    BY <2>1, <2>2
<1> QED
  BY <1>1, <1>2, <1>3 DEF Tiles

LEMMA TileInit == Init => TileInv
BY DEF Init, WorkerInit, TileInv, Chunked, NothingYet, Written, Delivered

LEMMA TileWorker ==
  ASSUME TypeOK, TileInv, Worker, UNCHANGED parentVars
  PROVE  TileInv'
<1>0. /\ todo \in SUBSET Job /\ merged \in SUBSET Span /\ total \in Nat \ {0}
      /\ size \in 1 .. MaxChunk /\ pc # "done" /\ UNCHANGED <<pc, total>>
  <2>1. wpc \in Running
        BY DEF Worker, Load, LoadFails, RenderFails, Plan, SinglePasses, SingleFails, ChunkPasses, ChunkOom,
               ChunkFails, Merge, WriteOutputs, Breaks, Hang, Running
  <2>2. UNCHANGED total
        BY DEF Worker, Load, LoadFails, RenderFails, Plan, SinglePasses, SingleFails, ChunkPasses, ChunkOom,
               ChunkFails, Merge, WriteOutputs, Breaks, Hang, chunkVars, Pass, Cut
  <2> QED
    BY <2>1, <2>2 DEF TypeOK, WorkerTypeOK, parentVars
<1>1. Delivered'
      BY <1>0 DEF Delivered
<1> USE DEF TileInv, NothingYet, Written, Exit, chunkVars, workerVars
<1>2. CASE Load
      BY <1>1, <1>2 DEF Load, Chunked
<1>3. CASE LoadFails \/ RenderFails \/ SingleFails \/ ChunkFails \/ Breaks \/ Hang
  <2>1. wpc' \in {"exited", "hung"} /\ ~(wpc' = "exited" /\ code' = "ok")
        BY <1>3 DEF LoadFails, RenderFails, SingleFails, ChunkFails, Breaks, Hang, Reported
  <2> QED
    BY <1>1, <2>1 DEF Chunked
<1>4. CASE Plan(size)
  <2>1. CASE wpc' = "single"
        BY <1>1, <2>1 DEF Chunked
  <2>2. CASE wpc' = "chunks" /\ todo' = Split(0, total, size)
    <3>1. merged' = {} /\ total' = total
          BY <1>4 DEF Plan
    <3>2. /\ \A r \in todo' : r.from < r.to /\ r.to <= total'
          /\ \A r, q \in todo' : r.from = q.from => r = q
          /\ Tiles({SpanOf(t) : t \in todo'})
          BY <1>0, <2>2, <3>1, PlanTiles
    <3>3. Apart'
          BY <3>1, <3>2 DEF Apart
    <3>4. Ranges' = {SpanOf(t) : t \in todo'}
          BY <3>1 DEF Ranges, SpanOf
    <3>5. Tiles(Ranges)'
          BY <3>1, <3>2, <3>4 DEF Tiles, Covers
    <3> QED
      BY <1>1, <2>2, <3>3, <3>5 DEF Chunked
  <2> QED
    BY <1>4, <2>1, <2>2 DEF Plan
<1>5. CASE SinglePasses
  <2>1. merged' = {[from |-> 0, to |-> total]} /\ wpc' = "write"
        BY <1>5 DEF SinglePasses
  <2>2. Tiles(merged)'
        BY <1>0, <2>1 DEF Tiles, Covers
  <2> QED
    BY <1>1, <2>1, <2>2 DEF Chunked
<1>6. CASE ChunkPasses
  <2>1. First \in todo /\ wpc' = "chunks" /\ wpc = "chunks"
        BY <1>0, <1>6, FirstExists DEF ChunkPasses
  <2>2. todo' = todo \ {First} /\ merged' = merged \cup {SpanOf(First)} /\ total' = total
        BY <1>6 DEF ChunkPasses, Pass
  <2>3. Apart'
    <3>1. SpanOf(First).from = First.from /\ SpanOf(First).to = First.to
          BY DEF SpanOf
    <3> QED
      BY <2>1, <2>2, <3>1 DEF Chunked, Apart
  <2>4. Ranges' = Ranges
        BY <2>1, <2>2 DEF Ranges, SpanOf
  <2>5. Tiles(Ranges)'
        BY <2>1, <2>2, <2>4 DEF Chunked, Tiles, Covers
  <2> QED
    BY <1>1, <2>1, <2>3, <2>5 DEF Chunked
<1>7. CASE \E healthy \in BOOLEAN : ChunkOom(healthy)
  <2>1. PICK healthy \in BOOLEAN : ChunkOom(healthy)
        BY <1>7
  <2>2. First \in todo /\ wpc = "chunks"
        BY <1>0, <2>1, FirstExists DEF ChunkOom
  <2>3. CASE wpc' = "exited" /\ code' # "ok"
        BY <1>1, <2>3 DEF Chunked
  <2>4. CASE NextSmaller(First.size) # 0 /\ Cut /\ UNCHANGED wpc
    <3> DEFINE next == NextSmaller(First.size)
    <3>1. next \in 1 .. MaxChunk
          BY <1>0, <2>2, <2>4, NextSmallerType DEF Job
    <3>2. todo' = (todo \ {First}) \cup Split(First.from, First.to, next)
          BY <2>4 DEF Cut
    <3>3. merged' = merged /\ total' = total
          BY <2>4 DEF Cut
    <3>4. Apart /\ Tiles(Ranges)
          BY <2>2 DEF Chunked
    <3> HIDE DEF next
    <3>5. /\ \A t \in todo' : t.from < t.to /\ t.to <= total
          /\ \A t, q \in todo' : t.from = q.from => t = q
          /\ \A t \in todo', m \in merged : t.from # m.from
          BY <1>0, <2>2, <3>1, <3>2, <3>4, CutApart, SMTT(30)
    <3>6. Tiles(merged \cup {SpanOf(t) : t \in todo'})
          BY <1>0, <2>2, <3>1, <3>2, <3>4, CutTiles
    <3>7. Apart'
          BY <3>3, <3>4, <3>5 DEF Apart
    <3>8. Ranges' = merged \cup {SpanOf(t) : t \in todo'}
          BY <3>3 DEF Ranges, SpanOf
    <3>9. Tiles(Ranges)'
          BY <3>3, <3>6, <3>8 DEF Tiles, Covers
    <3> QED
      BY <1>1, <2>2, <2>4, <3>7, <3>9 DEF Chunked
  <2> QED
    BY <2>1, <2>3, <2>4 DEF ChunkOom
<1>8. CASE Merge
  <2>1. CASE wpc' = "write" /\ UNCHANGED chunkVars
    <3>1. Ranges = merged /\ Tiles(Ranges)
          BY <1>8 DEF Merge, Ranges, Chunked
    <3>2. Tiles(merged)'
          BY <2>1, <3>1 DEF Tiles, Covers
    <3> QED
      BY <1>1, <2>1, <3>2 DEF Chunked
  <2>2. CASE Exit("non_oom")
        BY <1>1, <2>2 DEF Chunked
  <2> QED
    BY <1>8, <2>1, <2>2 DEF Merge
<1>9. CASE WriteOutputs
  <2>1. Tiles(merged)'
        BY <1>9 DEF WriteOutputs, Tiles, Covers
  <2> QED
    BY <1>1, <1>9, <2>1 DEF WriteOutputs, Chunked
<1> QED
  BY <1>2, <1>3, <1>4, <1>5, <1>6, <1>7, <1>8, <1>9 DEF Worker

LEMMA TileParent ==
  ASSUME TypeOK, ExitedWithCode, TileInv, Parent
  PROVE  TileInv'
<1> USE DEF TileInv, NothingYet, Written, Delivered, chunkVars, workerVars, parentVars, Settled
<1>1. CASE Spawn
      BY <1>1 DEF Spawn, Chunked
<1>2. CASE SpawnFails
      BY <1>2 DEF SpawnFails, Chunked, TypeOK, Running
<1>3. CASE TimeOut
  <2>1. wpc' = "exited" /\ code' = "timeout" /\ pc' = "wait"
        BY <1>3 DEF TimeOut, Exit, TypeOK, Running
  <2> QED
    BY <2>1 DEF Chunked
<1>4. CASE Succeed
  <2>1. CASE text' = merged
    <3>1. Tiles(text)'
          BY <1>4, <2>1 DEF Succeed, Tiles, Covers
    <3> QED
      BY <1>4, <3>1 DEF Succeed, Chunked
  <2>2. CASE text' = {} /\ trouble'
        BY <1>4, <2>2 DEF Succeed, Chunked
  <2> QED
    BY <1>4, <2>1, <2>2 DEF Succeed
<1>5. CASE Retry
      BY <1>5 DEF Retry, Chunked
<1>6. CASE GiveUp
  <2>1. failure' # "none" /\ pc' = "done" /\ wpc' = "off"
        BY <1>6 DEF GiveUp, ExitedWithCode
  <2> QED
    BY <2>1 DEF Chunked
<1> QED
  BY <1>1, <1>2, <1>3, <1>4, <1>5, <1>6 DEF Parent

LEMMA TileStep == TypeOK /\ ExitedWithCode /\ TileInv /\ [Next]_vars => TileInv'
<1> SUFFICES ASSUME TypeOK, ExitedWithCode, TileInv, [Next]_vars PROVE TileInv'
    OBVIOUS
<1>1. CASE Worker /\ UNCHANGED parentVars
      BY <1>1, TileWorker
<1>2. CASE Parent
      BY <1>2, TileParent
<1>3. CASE UNCHANGED <<chunkVars, workerVars, parentVars, trouble>>
  <2>1. UNCHANGED <<total, todo, merged, wpc, code, pc, text, failure, trouble>>
        BY <1>3 DEF chunkVars, workerVars, parentVars
  <2>2. Ranges' = Ranges
        BY <2>1 DEF Ranges, SpanOf
  <2>3. (Tiles(Ranges))' <=> Tiles(Ranges)
        BY <2>1, <2>2 DEF Tiles, Covers
  <2>4. (Tiles(merged))' <=> Tiles(merged)
        BY <2>1 DEF Tiles, Covers
  <2>5. (Tiles(text))' <=> Tiles(text)
        BY <2>1 DEF Tiles, Covers
  <2>6. Apart' <=> Apart
        BY <2>1 DEF Apart
  <2> QED
    BY <2>1, <2>3, <2>4, <2>5, <2>6 DEF TileInv, Chunked, NothingYet, Written, Delivered
<1> QED
  BY <1>1, <1>2, <1>3 DEF Next, Shift, vars

LEMMA Invariance == Spec => [](TypeOK /\ ExitedWithCode /\ TileInv)
<1>1. Init => TypeOK /\ ExitedWithCode /\ TileInv
      BY TypeInit, TileInit
<1>2. TypeOK /\ ExitedWithCode /\ TileInv /\ [Next]_vars => (TypeOK /\ ExitedWithCode /\ TileInv)'
      BY TypeStep, TileStep
<1> QED
  BY <1>1, <1>2, PTL DEF Spec

\* The chunking loop of the adapter never loses a page or infers one twice,
\* whatever the reduction sequence and whichever ranges run out of memory
\* (_initial_chunk_ranges, _split_range_at, _process_chunks_with_reduction).
THEOREM Tiling == Spec => []ChunksTile
<1>1. TileInv => ChunksTile
      BY DEF TileInv, Chunked, ChunksTile, Ranges
<1> QED
  BY <1>1, Invariance, PTL

\* A worker hangs only in trouble, and trouble is never forgotten.
HungInTrouble == wpc = "hung" => trouble

LEMMA TroubleStep == TypeOK /\ HungInTrouble /\ [Next]_vars => HungInTrouble' /\ (trouble => trouble')
<1> SUFFICES ASSUME TypeOK, HungInTrouble, [Next]_vars PROVE HungInTrouble' /\ (trouble => trouble')
    OBVIOUS
<1> USE DEF HungInTrouble, Exit, chunkVars, workerVars, gpuVars, parentVars, Settled
<1>1. CASE Worker /\ UNCHANGED parentVars
  <2>1. CASE Load \/ LoadFails \/ Plan(size) \/ RenderFails \/ SinglePasses \/ ChunkPasses
        BY <2>1 DEF Load, LoadFails, Plan, RenderFails, SinglePasses, ChunkPasses
  <2>2. CASE SingleFails \/ ChunkFails
        BY <2>2 DEF SingleFails, ChunkFails
  <2>3. CASE \E healthy \in BOOLEAN : ChunkOom(healthy)
        BY <2>3 DEF ChunkOom
  <2>4. CASE Merge \/ WriteOutputs \/ Breaks \/ Hang
        BY <2>4 DEF Merge, WriteOutputs, Breaks, Hang
  <2> QED
    BY <1>1, <2>1, <2>2, <2>3, <2>4 DEF Worker
<1>2. CASE Parent
      BY <1>2 DEF Parent, Spawn, SpawnFails, TimeOut, Succeed, Retry, GiveUp
<1>3. CASE Shift /\ UNCHANGED parentVars
      BY <1>3 DEF Shift
<1>4. CASE UNCHANGED vars
      BY <1>4 DEF vars
<1> QED
  BY <1>1, <1>2, <1>3, <1>4 DEF Next

LEMMA SpansNotEmpty ==
  ASSUME NEW n \in Nat \ {0}, NEW spans, \A page \in 0 .. n - 1 : \E r \in spans : Covers(r, page)
  PROVE  spans # {}
<1>1. 0 \in 0 .. n - 1
      OBVIOUS
<1> QED
  BY <1>1

\* A step before the answer: nothing that the service knows of, or a fault.
LEMMA NoAnswerYet ==
  ASSUME total' = total, Answer = "none", Answer' = "none", TypeOK, TypeOK',
         HungInTrouble, HungInTrouble', trouble => trouble'
  PROVE  Service!Next \/ UNCHANGED Service!serviceVars
<1>1. CASE trouble'
  <2>1. Stuck' \in BOOLEAN
        BY DEF Stuck
  <2> QED
    BY <1>1, <2>1 DEF Service!Next, Service!Falter
<1>2. CASE ~trouble'
  <2>1. ~trouble /\ trouble \in BOOLEAN /\ trouble' \in BOOLEAN
        BY <1>2 DEF TypeOK, WorkerTypeOK
  <2>2. Stuck = FALSE /\ Stuck' = FALSE
        BY <1>2, <2>1 DEF Stuck, HungInTrouble
  <2> QED
    BY <1>2, <2>1, <2>2 DEF Service!serviceVars
<1> QED
  BY <1>1, <1>2

\* A request starts without an answer and gets at most one: the whole text, a
\* failure or, where something else than the GPU's memory has failed, an empty
\* text, never a part of the pages (run_infer_pdf_isolated, _read_worker_text,
\* process).
THEOREM ServiceSafe == Spec => Service!Safety
<1>1. Init => Service!Init /\ HungInTrouble
  <2> SUFFICES ASSUME Init PROVE Service!Init /\ HungInTrouble
      OBVIOUS
  <2>1. total \in Nat \ {0} /\ pc = "spawn" /\ wpc = "off" /\ trouble = FALSE
        BY WorkerAssumption DEF Init, WorkerInit
  <2> QED
    BY <2>1 DEF Service!Init, Answer, Stuck, HungInTrouble
<1>2. TypeOK /\ TypeOK' /\ ExitedWithCode /\ TileInv /\ TileInv' /\ HungInTrouble /\ [Next]_vars
        => [Service!Next]_(Service!serviceVars)
  <2> SUFFICES ASSUME TypeOK, TypeOK', ExitedWithCode, TileInv, TileInv', HungInTrouble, [Next]_vars
               PROVE  Service!Next \/ UNCHANGED Service!serviceVars
      OBVIOUS
  <2>1. total' = total
        BY DEF Next, vars, Worker, Load, LoadFails, RenderFails, Plan, SinglePasses, SingleFails, ChunkPasses,
               ChunkOom, ChunkFails, Merge, WriteOutputs, Breaks, Hang, Shift, Pass, Cut, Parent,
               Spawn, SpawnFails, TimeOut, Succeed, Retry, GiveUp, Settled, chunkVars
  <2>2. HungInTrouble' /\ (trouble => trouble')
        BY TroubleStep
  <2>3. CASE pc # "done" /\ pc' # "done"
    <3>1. Answer = "none" /\ Answer' = "none"
          BY <2>3 DEF Answer
    <3> QED
      BY <2>1, <2>2, <3>1, NoAnswerYet
  <2>4. CASE UNCHANGED <<pc, failure, text, wpc, timed, trouble>>
    <3>1. (Tiles(text))' <=> Tiles(text)
          BY <2>1, <2>4 DEF Tiles, Covers
    <3>2. UNCHANGED <<Answer, Stuck>>
          BY <2>4, <3>1 DEF Answer, Stuck
    <3> QED
      BY <2>1, <2>4, <3>2 DEF Service!serviceVars
  <2>5. CASE SpawnFails \/ GiveUp
    <3>1. pc # "done" /\ pc' = "done" /\ failure' # "none" /\ wpc # "hung" /\ wpc' # "hung"
          BY <2>5 DEF SpawnFails, GiveUp, Settled, ExitedWithCode, TypeOK, Running, workerVars
    <3>2. Answer = "none" /\ Answer' = "failed" /\ Stuck = FALSE /\ Stuck' = FALSE
          BY <3>1 DEF Answer, Stuck
    <3>3. trouble' \in {trouble, TRUE}
          BY <2>5 DEF SpawnFails, GiveUp
    <3> QED
      BY <2>1, <3>2, <3>3 DEF Service!Next, Service!Respond, Service!Refuse
  <2>6. CASE Succeed
    <3>1. pc # "done" /\ pc' = "done" /\ wpc # "hung" /\ wpc' # "hung"
          BY <2>6 DEF Succeed, Settled, TypeOK, Running
    <3>2. Answer = "none" /\ Stuck = FALSE /\ Stuck' = FALSE
          BY <3>1 DEF Answer, Stuck
    <3>3. total' \in Nat \ {0}
          BY <2>1, WorkerAssumption DEF TypeOK, WorkerTypeOK
    <3>4. CASE failure' # "none"
      <4>1. Answer' = "failed" /\ trouble' \in {trouble, TRUE}
            BY <2>6, <3>1, <3>4 DEF Answer, Succeed
      <4> QED
        BY <2>1, <3>2, <4>1 DEF Service!Next, Service!Respond, Service!Refuse
    <3>5. CASE failure' = "none" /\ text' = {} /\ trouble'
      <4>1. Answer' = "empty"
            BY <3>1, <3>5 DEF Answer
      <4> QED
        BY <2>1, <3>2, <3>5, <4>1 DEF Service!Next, Service!Respond, Service!Lose
    <3>6. CASE failure' = "none" /\ ~(text' = {} /\ trouble')
      <4>1. Tiles(text)'
            BY <3>1, <3>6 DEF TileInv, Delivered
      <4>2. text' # {}
        <5>1. \A page \in 0 .. total' - 1 : \E r \in text' : Covers(r, page)
              BY <4>1 DEF Tiles, Covers
        <5> QED
          BY <3>3, <5>1, SpansNotEmpty
      <4>3. Answer' = "whole"
            BY <3>1, <3>6, <4>1, <4>2 DEF Answer
      <4>4. trouble' = trouble
        <5>1. text' = merged \/ text' = {}
              BY <2>6 DEF Succeed
        <5> QED
          BY <2>6, <4>2 DEF Succeed
      <4> QED
        BY <2>1, <3>2, <4>3, <4>4 DEF Service!Next, Service!Respond, Service!Deliver
    <3> QED
      BY <3>4, <3>5, <3>6
  <2>7. CASE Worker /\ UNCHANGED parentVars
    <3>1. wpc \in Running
          BY <2>7 DEF Worker, Load, LoadFails, RenderFails, Plan, SinglePasses, SingleFails, ChunkPasses,
                 ChunkOom, ChunkFails, Merge, WriteOutputs, Breaks, Hang, Running
    <3> QED
      BY <2>3, <2>7, <3>1 DEF TypeOK, parentVars
  <2>8. CASE Spawn \/ Retry \/ TimeOut
        BY <2>3, <2>8 DEF Spawn, Retry, TimeOut, TypeOK, Running, parentVars
  <2>9. CASE (Shift /\ UNCHANGED parentVars) \/ UNCHANGED vars
        BY <2>4, <2>9 DEF Shift, vars, parentVars, workerVars
  <2> QED
    BY <2>5, <2>6, <2>7, <2>8, <2>9 DEF Next, Parent
<1>3. TypeOK /\ HungInTrouble /\ [Next]_vars => HungInTrouble'
      BY TroubleStep
<1> QED
  BY <1>1, <1>2, <1>3, Invariance, PTL DEF Spec, Service!Safety

-----------------------------------------------------------------------------
(* A document that fits is delivered *)

\* Nothing goes wrong but that several pages together do not fit.
Quiet == shifts = 0 /\ cap >= 1 /\ ~trouble

\* Halving the greatest chunk size again and again, with an allowance for every
\* attempt, ends at a single page.
Halvings == {h \in [1 .. MaxRestarts + 1 -> Nat] :
               h[1] = MaxChunk /\ \A i \in 1 .. MaxRestarts : h[i + 1] = h[i] \div 2}

EnoughRestarts == \E h \in Halvings : h[MaxRestarts + 1] <= 1

\* A waiting range is not empty and not longer than its chunk size.
Sized == \A r \in todo : r.from < r.to /\ r.to <= r.from + r.size

NotFloored == Quiet => ~floored

MemoryOnly == Quiet => code \in {"none", "ok", "unhealthy", "oom"} /\ wpc # "hung"

Halved == \A h \in Halvings : size <= h[attempt]

\* The request does not fail.
FitsSucceeds == pc = "done" /\ Quiet => failure = "none"

FitInv == Sized /\ NotFloored /\ MemoryOnly /\ Halved /\ FitsSucceeds

\* Spans that tile the document pass the check that is made before the merge:
\* it never rejects what the chunking loop produced.
LEMMA TilesIsComplete ==
  ASSUME total \in Nat \ {0}, merged \in SUBSET Span, Tiles(merged),
         \A m \in merged : m.from < m.to /\ m.to <= total
  PROVE  CoverageComplete
<1> USE DEF Span
<1>1. ASSUME NEW a \in merged, NEW b \in merged, NEW page \in 0 .. total - 1,
             Covers(a, page), Covers(b, page)
      PROVE  a = b
      BY <1>1 DEF Tiles
\* Where a span ends before the end of the document, the next one starts.
<1>2. ASSUME NEW bound \in Nat, bound <= total,
             NEW S, S = {q \in merged : q.from < bound}, S # {},
             \A q \in merged : q.from < bound => q.to <= bound
      PROVE  Latest(S).to = bound
  <2>1. \E r \in S : \A q \in S : q.from <= r.from
    <3> DEFINE Gaps == {bound - q.from : q \in S}
    <3>1. \A q \in S : bound - q.from \in Nat
          BY <1>2
    <3>2. Gaps \in SUBSET Nat /\ Gaps # {}
          BY <1>2, <3>1
    <3>3. \E a \in Gaps : \A b \in Gaps : a <= b
          BY <3>2, LeastNatural
    <3>4. PICK r \in S : \A q \in S : bound - r.from <= bound - q.from
          BY <3>3
    <3>5. \A q \in S : q.from <= r.from
          BY <3>4, <1>2
    <3> QED
      BY <3>5
  <2> DEFINE last == Latest(S)
  <2>2. last \in S /\ \A q \in S : q.from <= last.from
        BY <2>1 DEF Latest
  <2> HIDE DEF last
  <2>3. last \in merged /\ last.from < bound /\ last.to <= bound /\ last.from < last.to
        BY <2>2, <1>2
  <2>4. ASSUME last.to < bound PROVE FALSE
    <3>1. last.to \in 0 .. total - 1 /\ last.from \in 0 .. total - 1
          BY <2>3, <2>4, <1>2
    <3>2. PICK q \in merged : Covers(q, last.to)
          BY <3>1 DEF Tiles
    <3>3. q.from < bound /\ q.from \in Nat /\ q.to \in Nat
          BY <3>2, <2>4, <2>3, <1>2 DEF Covers
    <3>4. q.from <= last.from
          BY <3>3, <2>2, <1>2
    <3>5. Covers(q, last.from) /\ Covers(last, last.from)
          BY <3>2, <3>3, <3>4, <2>3 DEF Covers
    <3>6. q = last
          BY <1>1, <3>1, <3>5, <2>3
    <3> QED
      BY <3>2, <3>6, <2>3 DEF Covers
  <2> QED
    BY <2>3, <2>4, <1>2 DEF last
<1>3. ASSUME NEW r \in merged PROVE r.from = IF Before(r) = {} THEN 0 ELSE Latest(Before(r)).to
  <2>1. r.from \in Nat /\ r.from < total /\ r.from \in 0 .. total - 1
        OBVIOUS
  <2>2. CASE Before(r) = {}
    <3>1. PICK q \in merged : Covers(q, 0)
          BY DEF Tiles
    <3>2. q.from = 0
          BY <3>1 DEF Covers
    <3> QED
      BY <2>1, <2>2, <3>2 DEF Before
  <2>3. CASE Before(r) # {}
    <3>1. ASSUME NEW q \in merged, q.from < r.from PROVE q.to <= r.from
      <4>1. r.from < q.to => Covers(q, r.from) /\ Covers(r, r.from)
            BY <2>1, <3>1 DEF Covers
      <4> QED
        BY <4>1, <1>1, <2>1, <3>1
    <3>2. Latest(Before(r)).to = r.from
          BY <2>1, <2>3, <3>1, <1>2 DEF Before
    <3> QED
      BY <2>3, <3>2
  <2> QED
    BY <2>2, <2>3
<1>4. total = IF merged = {} THEN 0 ELSE Latest(merged).to
  <2>1. merged # {}
    <3>1. 0 \in 0 .. total - 1
          OBVIOUS
    <3> QED
      BY <3>1 DEF Tiles
  <2>2. merged = {q \in merged : q.from < total}
        OBVIOUS
  <2>3. Latest(merged).to = total
        BY <2>1, <2>2, <1>2
  <2> QED
    BY <2>1, <2>3
<1> QED
  BY <1>3, <1>4 DEF CoverageComplete

\* The code's limits allow for them: 40 pages and six restarts.
LEMMA CodeRestarts ==
  ASSUME MaxChunk = 40, MaxRestarts = 6
  PROVE  EnoughRestarts
<1> DEFINE h == [i \in 1 .. MaxRestarts + 1 |->
                   IF i = 1 THEN 40 ELSE IF i = 2 THEN 20 ELSE IF i = 3 THEN 10
                   ELSE IF i = 4 THEN 5 ELSE IF i = 5 THEN 2 ELSE IF i = 6 THEN 1 ELSE 0]
<1>1. h \in [1 .. MaxRestarts + 1 -> Nat] /\ h[1] = MaxChunk /\ h[MaxRestarts + 1] <= 1
      OBVIOUS
<1>2. ASSUME NEW i \in 1 .. MaxRestarts PROVE h[i + 1] = h[i] \div 2
  <2>1. i \in {1, 2, 3, 4, 5, 6}
        OBVIOUS
  <2> QED
    BY <2>1
<1> HIDE DEF h
<1> QED
  BY <1>1, <1>2 DEF EnoughRestarts, Halvings

LEMMA FitInit == Init => FitInv
<1> SUFFICES ASSUME Init PROVE FitInv
    OBVIOUS
<1> QED
  BY DEF Init, WorkerInit, FitInv, Sized, NotFloored, MemoryOnly, Halved, FitsSucceeds, Halvings

\* With only this kind of report, an exception of n pages that is not trouble
\* says that n pages did not fit.
LEMMA OnlyOom ==
  ASSUME OomKinds \subseteq {"oom"}, NEW n \in Nat, NEW e \in Raised(n), LoopSeesOom(e)
  PROVE  e = "oom" /\ n > cap
BY DEF Raised, LoopSeesOom

LEMMA FitWorker ==
  ASSUME OomKinds \subseteq {"oom"}, TypeOK, ExitedWithCode, TileInv, FitInv,
         Worker, UNCHANGED parentVars
  PROVE  FitInv'
<1> USE DEF FitInv, Quiet, Exit, parentVars, chunkVars, workerVars, gpuVars
<1>0. /\ todo \in SUBSET Job /\ merged \in SUBSET Span /\ total \in Nat \ {0}
      /\ size \in 1 .. MaxChunk /\ pc # "done" /\ cap \in Nat
  <2>1. wpc \in Running
        BY DEF Worker, Load, LoadFails, RenderFails, Plan, SinglePasses, SingleFails, ChunkPasses, ChunkOom,
               ChunkFails, Merge, WriteOutputs, Breaks, Hang, Running
  <2> QED
    BY <2>1 DEF TypeOK, WorkerTypeOK
<1>1. FitsSucceeds'
      BY <1>0 DEF FitsSucceeds
<1>2. Halved'
      BY DEF Halved
<1> USE DEF Sized, NotFloored, MemoryOnly
<1>3. CASE Load \/ LoadFails \/ RenderFails \/ WriteOutputs \/ Breaks \/ Hang
      BY <1>1, <1>2, <1>3 DEF Load, LoadFails, RenderFails, WriteOutputs, Breaks, Hang
<1>4. CASE Plan(size)
  <2>1. \A r \in Split(0, total, size) : r.from < r.to /\ r.to <= r.from + r.size
        BY <1>0, SplitType
  <2> QED
    BY <1>1, <1>2, <1>4, <2>1 DEF Plan
<1>5. CASE SinglePasses
      BY <1>1, <1>2, <1>5 DEF SinglePasses
<1>6. CASE SingleFails
  <2>1. PICK e \in Raised(total) : /\ Exit(Reported(e))
                                   /\ trouble' = (trouble \/ ~LoopSeesOom(e))
                                   /\ floored' = (LoopSeesOom(e) /\ total = 1)
        BY <1>6 DEF SingleFails
  <2>2. LoopSeesOom(e) => code' = "oom" /\ total > cap
        BY <1>0, <2>1, OnlyOom DEF Reported, WorkerSeesOom
  <2>3. Quiet' => LoopSeesOom(e)
        BY <2>1
  <2>4. Quiet' => code' = "oom" /\ ~floored'
    <3>1. SUFFICES ASSUME Quiet' PROVE code' = "oom" /\ ~floored'
          OBVIOUS
    <3>2. cap' = cap /\ total # 1
          BY <1>0, <1>6, <2>2, <2>3, <3>1 DEF SingleFails
    <3> QED
      BY <2>1, <2>2, <2>3, <3>1, <3>2
  <2>5. Sized' /\ wpc' # "hung"
        BY <1>6, <2>1 DEF SingleFails
  <2> QED
    BY <1>1, <1>2, <2>4, <2>5
<1>7. CASE ChunkPasses
      BY <1>1, <1>2, <1>7 DEF ChunkPasses, Pass
<1>8. CASE \E healthy \in BOOLEAN : ChunkOom(healthy)
  <2>1. PICK healthy \in BOOLEAN : ChunkOom(healthy)
        BY <1>8
  <2>2. First \in todo /\ First \in Job /\ First.size \in 1 .. MaxChunk
        BY <1>0, <2>1, FirstExists DEF ChunkOom, Job
  <2>3. First.from \in Nat /\ First.to \in Nat /\ Length(First) \in Nat /\ Length(First) <= First.size
        BY <2>2 DEF Job, Length
  <2>4. Length(First) > cap
        BY <2>1, <2>3, OnlyOom DEF ChunkOom
  <2>5. UNCHANGED <<gpuVars, trouble>>
        BY <2>1 DEF ChunkOom
  <2>6. Quiet => Length(First) # 1 /\ First.size # 1
        BY <1>0, <2>2, <2>3, <2>4
  <2>7. CASE Exit("unhealthy") /\ floored' = (Length(First) = 1) /\ UNCHANGED chunkVars
        BY <1>1, <1>2, <2>5, <2>6, <2>7
  <2>8. CASE NextSmaller(First.size) = 0 /\ UNCHANGED chunkVars
    <3>1. First.size # 1 => NextSmaller(First.size) # 0
      <4>1. SUFFICES ASSUME First.size # 1 PROVE NextSmaller(First.size) # 0
            OBVIOUS
      <4>2. 1 < First.size
            BY <2>2, <4>1
      <4> QED
        BY <2>2, <4>2, NextSmallerPositive
    <3>2. ~Quiet
          BY <2>6, <2>8, <3>1
    <3>3. ~Quiet'
          BY <2>5, <3>2
    <3> QED
      BY <1>1, <1>2, <2>8, <3>3
  <2>9. CASE NextSmaller(First.size) # 0 /\ Cut /\ UNCHANGED <<workerVars, floored>>
    <3>1. NextSmaller(First.size) \in 1 .. MaxChunk
          BY <2>2, <2>9, NextSmallerType
    <3>2. \A r \in Split(First.from, First.to, NextSmaller(First.size)) :
             r.from < r.to /\ r.to <= r.from + r.size
          BY <2>3, <3>1, SplitType
    <3> QED
      BY <1>1, <1>2, <2>5, <2>9, <3>2 DEF Cut
  <2> QED
    BY <2>1, <2>7, <2>8, <2>9 DEF ChunkOom
<1>9. CASE ChunkFails
      BY <1>1, <1>2, <1>9 DEF ChunkFails
<1>10. CASE Merge
  <2>1. Apart /\ Tiles(merged)
    <3>1. Ranges = merged /\ Tiles(Ranges) /\ Apart
          BY <1>10 DEF Merge, Ranges, TileInv, Chunked
    <3> QED
      BY <3>1
  <2>2. CoverageComplete
        BY <1>0, <2>1, TilesIsComplete DEF Apart
  <2> QED
    BY <1>1, <1>2, <1>10, <2>2 DEF Merge
<1> QED
  BY <1>3, <1>4, <1>5, <1>6, <1>7, <1>8, <1>9, <1>10 DEF Worker

\* The sizes of the attempts stay below the halvings of the greatest one.
LEMMA RetryHalves ==
  ASSUME TypeOK, Halved, attempt <= MaxRestarts, attempt' = attempt + 1, size' = size \div 2
  PROVE  Halved'
<1> SUFFICES ASSUME NEW h \in Halvings PROVE size \div 2 <= h[attempt + 1]
    BY DEF Halved
<1>1. attempt \in 1 .. MaxRestarts /\ size \in Nat
      BY DEF TypeOK
<1>2. h[attempt] \in Nat /\ h[attempt + 1] = h[attempt] \div 2 /\ size <= h[attempt]
  <2>1. h \in [1 .. MaxRestarts + 1 -> Nat] /\ \A i \in 1 .. MaxRestarts : h[i + 1] = h[i] \div 2
        BY DEF Halvings
  <2>2. size <= h[attempt]
        BY DEF Halved
  <2>3. attempt \in 1 .. MaxRestarts + 1
        BY <1>1, IsolationAssumption
  <2> QED
    BY <1>1, <2>1, <2>2, <2>3
<1>3. \A a, b \in Nat : a <= b => a \div 2 <= b \div 2
      OBVIOUS
<1> QED
  BY <1>1, <1>2, <1>3

LEMMA FitParent ==
  ASSUME EnoughRestarts, TypeOK, ExitedWithCode, OomInv, FitInv, Parent
  PROVE  FitInv'
<1> USE DEF FitInv, Quiet, chunkVars, workerVars, gpuVars, parentVars, Settled
<1>1. CASE Spawn
      BY <1>1 DEF Spawn, Sized, NotFloored, MemoryOnly, Halved, FitsSucceeds
<1>2. CASE SpawnFails
      BY <1>2 DEF SpawnFails, Sized, NotFloored, MemoryOnly, Halved, FitsSucceeds
<1>3. CASE TimeOut
  <2>1. ~Quiet'
        BY <1>3 DEF TimeOut, Exit, MemoryOnly
  <2> QED
    BY <1>3, <2>1 DEF TimeOut, Exit, Sized, NotFloored, MemoryOnly, Halved, FitsSucceeds
<1>4. CASE Succeed
  <2>1. failure' = "none"
        BY <1>4 DEF Succeed, OomInv, NoFailureYet, TypeOK, Running
  <2> QED
    BY <1>4, <2>1 DEF Succeed, Sized, NotFloored, MemoryOnly, Halved, FitsSucceeds
<1>5. CASE Retry
  <2>1. Halved'
        BY <1>5, RetryHalves DEF Retry, Retryable
  <2> QED
    BY <1>5, <2>1 DEF Retry, Sized, NotFloored, MemoryOnly, FitsSucceeds
<1>6. CASE GiveUp
  <2>1. ~Quiet
    <3>1. SUFFICES ASSUME Quiet PROVE FALSE
          OBVIOUS
    <3>2. OutOfMemory /\ wpc = "exited"
          BY <1>6, <3>1 DEF GiveUp, MemoryOnly, OutOfMemory, ExitedWithCode
    <3>3. size # 1
          BY <3>1, <3>2 DEF OomInv, Blamed, NotFloored
    <3>4. PICK h \in Halvings : h[MaxRestarts + 1] <= 1
          BY DEF EnoughRestarts
    <3>5. attempt # MaxRestarts + 1
      <4>1. h[MaxRestarts + 1] \in Nat
            BY DEF Halvings
      <4>2. size \in 1 .. MaxChunk /\ size <= h[attempt]
            BY DEF Halved, TypeOK
      <4> QED
        BY <3>3, <3>4, <4>1, <4>2
    <3>6. Retryable
          BY <3>2, <3>3, <3>5 DEF Retryable, TypeOK
    <3> QED
      BY <1>6, <3>6 DEF GiveUp
  <2>2. UNCHANGED <<shifts, cap, trouble, todo, size, attempt>>
        BY <1>6 DEF GiveUp
  <2>3. ~Quiet'
        BY <2>1, <2>2
  <2> QED
    BY <2>2, <2>3 DEF Sized, NotFloored, MemoryOnly, Halved, FitsSucceeds
<1> QED
  BY <1>1, <1>2, <1>3, <1>4, <1>5, <1>6 DEF Parent

LEMMA FitStep ==
  ASSUME OomKinds \subseteq {"oom"}, EnoughRestarts
  PROVE  TypeOK /\ ExitedWithCode /\ OomInv /\ TileInv /\ FitInv /\ [Next]_vars => FitInv'
<1> SUFFICES ASSUME TypeOK, ExitedWithCode, OomInv, TileInv, FitInv, [Next]_vars PROVE FitInv'
    OBVIOUS
<1>1. CASE Worker /\ UNCHANGED parentVars
      BY <1>1, FitWorker
<1>2. CASE Parent
      BY <1>2, FitParent
<1>3. CASE Shift /\ UNCHANGED parentVars
  <2>1. ~Quiet'
        BY <1>3 DEF Shift, Quiet, TypeOK, WorkerTypeOK
  <2>2. UNCHANGED <<todo, size, attempt>>
        BY <1>3 DEF Shift, chunkVars, parentVars
  <2> QED
    BY <2>1, <2>2 DEF FitInv, Quiet, Sized, NotFloored, MemoryOnly, Halved, FitsSucceeds
<1>4. CASE UNCHANGED vars
      BY <1>4 DEF vars, chunkVars, workerVars, gpuVars, parentVars, FitInv, Quiet, Sized, NotFloored,
                  MemoryOnly, Halved, FitsSucceeds
<1> QED
  BY <1>1, <1>2, <1>3, <1>4 DEF Next

\* A document whose single pages fit on the GPU is delivered whole, whatever its
\* length, the health probes' answers and the size it starts with, if memory is
\* all that is short, torch says so by its own exception type, and max_restarts
\* allows for the halvings of the greatest size (run_infer_pdf_isolated,
\* _next_chunk_size, _process_chunks_with_reduction).
THEOREM FitsIsDelivered ==
  ASSUME OomKinds \subseteq {"oom"}, EnoughRestarts
  PROVE  Spec => []FitsMeansDelivered
<1> DEFINE IInv == TypeOK /\ ExitedWithCode /\ OomInv /\ TileInv /\ FitInv
<1>1. Init => IInv
      BY TypeInit, OomInit, TileInit, FitInit
<1>2. IInv /\ [Next]_vars => IInv'
      BY TypeStep, OomStep, TileStep, FitStep
<1>3. IInv => FitsMeansDelivered
  <2> SUFFICES ASSUME IInv, pc = "done", Quiet PROVE Answer = "whole"
      BY DEF FitsMeansDelivered, Quiet
  <2>1. failure = "none"
        BY DEF FitInv, FitsSucceeds
  <2>2. Tiles(text)
        BY <2>1 DEF TileInv, Delivered, Quiet
  <2>3. text # {}
    <3>1. \A page \in 0 .. total - 1 : \E r \in text : Covers(r, page)
          BY <2>2 DEF Tiles
    <3>2. total \in Nat \ {0}
          BY WorkerAssumption DEF TypeOK, WorkerTypeOK
    <3> QED
      BY <3>1, <3>2, SpansNotEmpty
  <2> QED
    BY <2>1, <2>2, <2>3 DEF Answer
<1> QED
  BY <1>1, <1>2, <1>3, PTL DEF Spec
=============================================================================
