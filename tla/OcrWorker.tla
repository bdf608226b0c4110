------------------------------ MODULE OcrWorker ------------------------------
(***************************************************************************)
(* The disposable worker process of one attempt (unlimited_ocr/worker.py     *)
(* and _UnlimitedOcrRunner of adapter.py) on a GPU whose free memory other   *)
(* programs share.  Its exit code is all that the parent learns.            *)
(***************************************************************************)
EXTENDS ChunkReduction

CONSTANTS OomKinds,    \* how torch reports that memory ran out
          Faults,      \* what else may go wrong in a worker
          MaxPages,    \* bound: pages of the document
          MaxShifts    \* bound: how often the GPU's free memory changes

\* "oom": OutOfMemoryError; "oom_text": a RuntimeError "CUDA error: out of memory".
ASSUME WorkerAssumption ==
  /\ OomKinds \subseteq {"oom", "oom_text"}
  /\ Faults \subseteq {"load", "error", "raise", "crash", "hang", "write", "spawn", "read"}
  /\ MaxPages \in Nat \ {0} /\ MaxShifts \in Nat

VARIABLES wpc,         \* where the worker is
          code,        \* its exit code
          cap,         \* the most pages that fit on the GPU now
          shifts,      \* how often that changed
          trouble,     \* history: something other than a lack of memory failed
          floored      \* history: it ended for a single page that did not fit

workerVars == <<wpc, code>>
gpuVars    == <<cap, shifts>>

Running == {"load", "infer", "single", "chunks", "merge", "write", "hung"}

Code == {"none", "ok", "unhealthy", "oom", "non_oom", "infra", "unknown", "timeout"}

WorkerTypeOK ==
  /\ total \in 1 .. MaxPages
  /\ todo \in SUBSET Job /\ merged \in SUBSET Span
  /\ wpc \in Running \cup {"off", "exited"}
  /\ code \in Code
  /\ cap \in 0 .. MaxPages /\ shifts \in 0 .. MaxShifts
  /\ trouble \in BOOLEAN /\ floored \in BOOLEAN

WorkerInit ==
  /\ total \in 1 .. MaxPages
  /\ todo = {} /\ merged = {}
  /\ wpc = "off" /\ code = "none"
  /\ cap \in 0 .. MaxPages /\ shifts = 0
  /\ trouble = FALSE /\ floored = FALSE

Exit(c) == wpc' = "exited" /\ code' = c

\* Mutant of WorkerSeesOom: "out of memory" is not among the patterns.
WorkerSeesAccelerator(e) == e = "accelerator"

\* _is_cuda_oom, asked by the chunking loop, and _classify_exception_message,
\* asked for the text of any other failure: two readings of one exception.
LoopSeesOom(e)   == e \in {"oom", "oom_text"}
WorkerSeesOom(e) == e \in {"oom", "accelerator"}

\* What inferring n pages in one call may raise.
Raised(n) == (IF n > cap THEN OomKinds ELSE {})
             \cup (IF "error" \in Faults THEN {"accelerator", "error"} ELSE {})

Reported(e) == IF WorkerSeesOom(e) THEN "oom" ELSE "non_oom"

-----------------------------------------------------------------------------

\* The model is verified and loaded before the document is looked at.
Load ==
  /\ wpc = "load"
  /\ wpc' = "infer"
  /\ UNCHANGED <<chunkVars, code, gpuVars, trouble, floored>>

LoadFails ==
  /\ wpc = "load" /\ "load" \in Faults
  /\ Exit("infra") /\ trouble' = TRUE
  /\ UNCHANGED <<chunkVars, gpuVars, floored>>

\* infer_pdf: the parent's size comes back through the environment variable.
Plan(size) ==
  /\ wpc = "infer"
  /\ IF total <= size
     THEN wpc' = "single" /\ UNCHANGED todo
     ELSE wpc' = "chunks" /\ todo' = Split(0, total, size)
  /\ UNCHANGED <<total, merged, code, gpuVars, trouble, floored>>

\* The pages cannot be rendered.
RenderFails ==
  /\ wpc = "infer" /\ "error" \in Faults
  /\ Exit("non_oom") /\ trouble' = TRUE
  /\ UNCHANGED <<chunkVars, gpuVars, floored>>

SinglePasses ==
  /\ wpc = "single" /\ total <= cap
  /\ wpc' = "write"
  /\ merged' = {[from |-> 0, to |-> total]}
  /\ UNCHANGED <<total, todo, code, gpuVars, trouble, floored>>

SingleFails ==
  /\ wpc = "single"
  /\ \E e \in Raised(total) :
       /\ Exit(Reported(e))
       /\ trouble' = (trouble \/ ~LoopSeesOom(e))
       /\ floored' = (LoopSeesOom(e) /\ total = 1)
  /\ UNCHANGED <<chunkVars, gpuVars>>

ChunkPasses ==
  /\ wpc = "chunks" /\ todo # {}
  /\ Length(First) <= cap
  /\ Pass
  /\ UNCHANGED <<workerVars, gpuVars, trouble, floored>>

\* The loop goes on only if the CUDA context answers the health probe.
ChunkOom(healthy) ==
  /\ wpc = "chunks" /\ todo # {}
  /\ \E e \in Raised(Length(First)) : LoopSeesOom(e)
  /\ \/ /\ ~healthy
        /\ Exit("unhealthy") /\ floored' = (Length(First) = 1) /\ UNCHANGED chunkVars
     \/ /\ healthy /\ NextSmaller(First.size) = 0
        /\ Exit("non_oom") /\ floored' = TRUE /\ UNCHANGED chunkVars
     \/ /\ healthy /\ NextSmaller(First.size) # 0
        /\ Cut /\ UNCHANGED <<workerVars, floored>>
  /\ UNCHANGED <<gpuVars, trouble>>

ChunkFails ==
  /\ wpc = "chunks" /\ todo # {}
  /\ \E e \in Raised(Length(First)) : ~LoopSeesOom(e) /\ Exit(Reported(e))
  /\ trouble' = TRUE
  /\ UNCHANGED <<chunkVars, gpuVars, floored>>

Merge ==
  /\ wpc = "chunks" /\ todo = {}
  /\ IF CoverageComplete THEN wpc' = "write" /\ UNCHANGED code ELSE Exit("non_oom")
  /\ UNCHANGED <<chunkVars, gpuVars, trouble, floored>>

\* Text and JSON are written, then the process exits with 0.
WriteOutputs ==
  /\ wpc = "write"
  /\ Exit("ok")
  /\ UNCHANGED <<chunkVars, gpuVars, trouble, floored>>

\* An exception out of infer_pdf is taken for a dead context, one while the
\* outputs are written ends the interpreter; a crash gives any other code.
Breaks ==
  /\ \/ wpc \in {"infer", "single", "chunks"} /\ "raise" \in Faults /\ Exit("unhealthy")
     \/ wpc = "write" /\ "write" \in Faults /\ Exit("unknown")
     \/ wpc \in Running /\ "crash" \in Faults /\ Exit("unknown")
  /\ trouble' = TRUE
  /\ UNCHANGED <<chunkVars, gpuVars, floored>>

Hang ==
  /\ wpc \in {"load", "single", "chunks"} /\ "hang" \in Faults
  /\ wpc' = "hung" /\ trouble' = TRUE
  /\ UNCHANGED <<chunkVars, code, gpuVars, floored>>

\* Other programs take or free GPU memory.
Shift ==
  /\ shifts < MaxShifts
  /\ shifts' = shifts + 1
  /\ cap' \in (0 .. MaxPages) \ {cap}
  /\ UNCHANGED <<chunkVars, workerVars, trouble, floored>>
=============================================================================
