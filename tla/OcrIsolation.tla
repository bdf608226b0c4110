----------------------------- MODULE OcrIsolation -----------------------------
(***************************************************************************)
(* One OCR request from the backend's process() to its results: the parent   *)
(* (unlimited_ocr/orchestrator.py, run_infer_pdf_isolated) starts a worker   *)
(* process for the whole document, starts a new one with half the chunk size *)
(* when its exit code says that memory ran out, and gives up on any other    *)
(* failure; the backend (unlimited_ocr_backend.py) turns the end into one    *)
(* result per page.                                                         *)
(***************************************************************************)
EXTENDS OcrWorker

CONSTANTS InitialSizes,  \* chunk sizes the request may start with
          MaxRestarts,   \* max_restarts
          TimeLimits     \* may a caller set per_run_timeout_seconds?

ASSUME IsolationAssumption == /\ InitialSizes \subseteq 1 .. MaxChunk
                              /\ MaxRestarts \in Nat
                              /\ TimeLimits \subseteq BOOLEAN

VARIABLES pc,            \* the parent: "spawn", "wait", "done"
          attempt,       \* attempt_index
          size,          \* current_size
          text,          \* final_text, as the spans it was merged from
          failure,       \* final_exception
          timed          \* the request's caller has set per_run_timeout_seconds

parentVars == <<pc, attempt, size, text, failure, timed>>
vars == <<parentVars, chunkVars, workerVars, gpuVars, trouble, floored>>

Failure == {"none", "max_restarts", "single_page_oom", "timeout", "non_oom", "infra",
            "unknown", "raised"}

TypeOK ==
  /\ WorkerTypeOK
  /\ pc \in {"spawn", "wait", "done"}
  /\ attempt \in 1 .. MaxRestarts + 1
  /\ size \in 1 .. MaxChunk
  /\ text \in SUBSET Span
  /\ failure \in Failure
  /\ timed \in BOOLEAN
  /\ pc = "wait" <=> wpc \in Running \cup {"exited"}

Init ==
  /\ WorkerInit
  /\ pc = "spawn" /\ attempt = 1 /\ size \in InitialSizes
  /\ text = {} /\ failure = "none"
  /\ timed \in TimeLimits

-----------------------------------------------------------------------------

Spawn ==
  /\ pc = "spawn"
  /\ pc' = "wait" /\ wpc' = "load" /\ code' = "none"
  /\ todo' = {} /\ merged' = {} /\ floored' = FALSE
  /\ UNCHANGED <<total, attempt, size, text, failure, timed, gpuVars, trouble>>

\* The attempt's directory or process cannot be created: the exception goes up
\* to the backend, which catches it.
SpawnFails ==
  /\ pc = "spawn" /\ "spawn" \in Faults
  /\ pc' = "done" /\ failure' = "raised" /\ trouble' = TRUE
  /\ UNCHANGED <<attempt, size, text, timed, chunkVars, workerVars, gpuVars, floored>>

\* subprocess.run kills the child when the time is up, if a time was set: the
\* backend of a compile sets none, and waits.
TimeOut ==
  /\ wpc = "hung" /\ timed
  /\ Exit("timeout")
  /\ UNCHANGED <<parentVars, chunkVars, gpuVars, trouble, floored>>

OutOfMemory == code \in {"unhealthy", "oom"}

\* Mutant of Retryable: a size is missed.
RetryableAboveTwo == OutOfMemory /\ attempt <= MaxRestarts /\ size > 2

\* _next_chunk_size gives a size, and another attempt is allowed.
Retryable == OutOfMemory /\ attempt <= MaxRestarts /\ size > 1

\* The attempt's end becomes the request's.
Settled == /\ pc' = "done" /\ wpc' = "off"
           /\ UNCHANGED <<attempt, size, timed, chunkVars, code, gpuVars, floored>>

\* Mutant of Succeed: the text is taken whatever way the worker failed.
SucceedWithAnyText ==
  /\ wpc = "exited" /\ code \in {"ok", "non_oom"}
  /\ text' = merged /\ UNCHANGED <<failure, trouble>>
  /\ Settled

\* A text file that cannot be read counts as an empty text, and as a success.
Succeed ==
  /\ wpc = "exited" /\ code = "ok"
  /\ \/ text' = merged /\ UNCHANGED trouble
     \/ "read" \in Faults /\ text' = {} /\ trouble' = TRUE
  /\ UNCHANGED failure
  /\ Settled

Retry ==
  /\ wpc = "exited" /\ Retryable
  /\ pc' = "spawn" /\ wpc' = "off"
  /\ attempt' = attempt + 1 /\ size' = size \div 2
  /\ UNCHANGED <<text, failure, timed, chunkVars, code, gpuVars, trouble, floored>>

GiveUp ==
  /\ wpc = "exited" /\ code # "ok" /\ ~Retryable
  /\ failure' = IF ~OutOfMemory THEN code
                ELSE IF attempt > MaxRestarts THEN "max_restarts" ELSE "single_page_oom"
  /\ UNCHANGED <<text, trouble>>
  /\ Settled

-----------------------------------------------------------------------------
(* The backend's view of the end *)

\* _classify_infer_failure of "isolated_infer_failed: <failure>...": what
\* happened, and whether the caller should try again.
Kind == CASE failure = "single_page_oom" -> "cuda_oom"
          [] failure = "timeout"         -> "timeout"
          [] OTHER                       -> "other"

\* One result per page, all of them ok or all of them failed.
Answer == IF pc # "done" THEN "none"
          ELSE IF failure # "none" THEN "failed"
          ELSE IF text = {} THEN "empty"
          ELSE IF Tiles(text) THEN "whole" ELSE "partial"

\* Nobody stops a worker that hangs.
Stuck == wpc = "hung" /\ ~timed

-----------------------------------------------------------------------------

Worker == \/ Load \/ LoadFails \/ Plan(size) \/ RenderFails \/ SinglePasses \/ SingleFails
          \/ ChunkPasses \/ (\E healthy \in BOOLEAN : ChunkOom(healthy)) \/ ChunkFails
          \/ Merge \/ WriteOutputs \/ Breaks \/ Hang

Parent == Spawn \/ SpawnFails \/ TimeOut \/ Succeed \/ Retry \/ GiveUp

Next == (Worker /\ UNCHANGED parentVars) \/ Parent \/ (Shift /\ UNCHANGED parentVars)

Spec == Init /\ [][Next]_vars

(***************************************************************************)
(* Fairness: the parent waits for its child and then goes on; a worker       *)
(* process that does not hang makes progress.  Of one that hangs nothing is  *)
(* supposed: only a parent with a time limit puts an end to it.  Nothing is  *)
(* asked of the other GPU programs.                                         *)
(***************************************************************************)
Working == wpc # "hung" /\ Worker /\ UNCHANGED parentVars

FairSpec == Spec /\ WF_vars(Working) /\ WF_vars(Parent)

-----------------------------------------------------------------------------
(* Properties *)

\* While the chunking loop runs, finished ranges and waiting ones cut the
\* document up without a gap or an overlap, however often ranges were cut.
ChunksTile == wpc = "chunks" => Tiles(merged \cup {SpanOf(r) : r \in todo})

\* A document whose single pages fit on the GPU is delivered whole, if the free memory
\* stays as it is and nothing but lack of memory goes wrong: from every initial
\* size, with every health probe's answer, within max_restarts.
FitsMeansDelivered ==
  pc = "done" /\ shifts = 0 /\ cap >= 1 /\ ~trouble => Answer = "whole"

\* A failure that is called a CUDA OOM was one, also when the free memory changed
\* on the way: in the last attempt some page did not fit alone, or something
\* else than memory did fail.
OomMeansOom ==
  pc = "done" /\ Kind = "cuda_oom" => floored \/ trouble

\* The request behaves like the abstract service: one answer, all pages or a
\* failure or, after another fault than a lack of memory, an empty text, never a
\* part of the pages; and the answer comes, unless a worker hangs for which the
\* caller has set no time limit (unlimited_ocr_backend.py:365 sets none).
Service == INSTANCE OcrService
             WITH pages <- total, answer <- Answer, faulty <- trouble, stuck <- Stuck
ServiceKept == Service!Spec

\* unlimited_ocr_backend.py, _classify_infer_failure: a page that does not fit
\* alone is "still fundamentally a CUDA OOM" and reported as kind "cuda_oom".
FloorIsCalledOom ==
  pc = "done" /\ failure # "none" /\ floored => Kind = "cuda_oom"
=============================================================================
