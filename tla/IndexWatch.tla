----------------------------- MODULE IndexWatch -----------------------------
(***************************************************************************)
(* `aksharamd watch`: one process with three threads (the watchdog          *)
(* observer, the flush thread of the debounce handler, the worker thread)   *)
(* over the job table and the vector store, next to a user who edits the    *)
(* folder, runs `aksharamd index clear` in another process, and stops or    *)
(* kills the watch and starts it again.                                     *)
(*                                                                         *)
(* Sources: aksharamd/cli.py (watch, index_clear), index/queue.py,          *)
(* index/watcher.py, index/worker.py, index/store.py.                       *)
(***************************************************************************)
EXTENDS JobQueue, VectorStore, InboxWatcher

CONSTANTS Good,          \* contents whose readiness score meets the threshold
          Accepted,      \* contents whose own rendering an assessor accepts
          RequireAccept, \* IndexConfig.require_assessment_accept
          Faults,        \* which external calls may fail: see FaultKinds
          MaxCrashes,    \* bound: how often the watch dies or is stopped
          MaxClears      \* bound: how often `index clear` is run

FaultKinds == {"read", "parse", "embed", "delete", "add"}

ASSUME WatchAssumption ==
  /\ Good \subseteq Content
  /\ Accepted \subseteq Content
  /\ RequireAccept \in BOOLEAN
  /\ Faults \subseteq FaultKinds

VARIABLES up,            \* the watch process runs
          wpc,           \* where the worker thread is
          wpath,         \* the path it took from the queue
          wcap,          \* ctx.capture_id: what the size gate hashed
          wver,          \* the version the parser read
          clearing,      \* `index clear` ran reset_all_jobs, not yet clear
          crashes, clears,
          calm,          \* history: see QuietJobFaithful
          stranded       \* history: rows whose worker died

workerVars == <<wpc, wpath, wcap, wver>>
boundVars  == <<crashes, clears>>
histVars   == <<calm, stranded>>
vars == <<queueVars, storeVars, watcherVars, up, workerVars, clearing,
          boundVars, histVars>>

Resting == {"idle", "dead"}
Working == {"capture", "parse", "gate", "embed", "delete", "add",
            "mark_done", "mark_low", "mark_error"}

Busy(p) == wpc \in Working /\ wpath = p

TypeOK ==
  /\ QueueTypeOK /\ StoreTypeOK /\ WatcherTypeOK
  /\ up \in BOOLEAN
  /\ wpc \in Resting \cup Working
  /\ wpath \in Path \cup {Nil}
  /\ wcap \in Content \cup {Nil}
  /\ wver \in Content \cup {Nil}
  /\ clearing \in BOOLEAN
  /\ crashes \in Nat /\ clears \in Nat
  /\ calm \in [Path -> BOOLEAN]
  /\ stranded \subseteq Path

Init ==
  /\ QueueInit /\ StoreInit /\ WatcherInit
  /\ up = TRUE
  /\ wpc = "idle" /\ wpath = Nil /\ wcap = Nil /\ wver = Nil
  /\ clearing = FALSE
  /\ crashes = 0 /\ clears = 0
  /\ calm = [p \in Path |-> FALSE]
  /\ stranded = {}

-----------------------------------------------------------------------------
(* The folder *)

Write(p, c) ==
  /\ WriteFile(p, c, up)
  /\ calm' = IF disk[p] = c THEN calm ELSE [calm EXCEPT ![p] = @ /\ ~Busy(p)]
  /\ UNCHANGED <<queueVars, storeVars, up, workerVars, clearing, boundVars, stranded>>

Remove(p) ==
  /\ RemoveFile(p)
  /\ calm' = [calm EXCEPT ![p] = @ /\ ~Busy(p)]
  /\ UNCHANGED <<queueVars, storeVars, up, workerVars, clearing, boundVars, stranded>>

-----------------------------------------------------------------------------
(* The flush thread: _flush_loop -> cli._enqueue -> IndexQueue.enqueue *)

FlushCollect ==
  /\ up
  /\ \E quiet \in SUBSET pending : CollectQuiet(quiet)
  /\ UNCHANGED <<queueVars, storeVars, up, workerVars, clearing, boundVars, histVars>>

FlushHash(p) ==
  /\ up
  /\ HashFile(p)
  /\ UNCHANGED <<queueVars, storeVars, up, workerVars, clearing, boundVars, histVars>>

FlushDrop(p) ==
  /\ up /\ "read" \in Faults
  /\ DropEvent(p)
  /\ UNCHANGED <<queueVars, storeVars, up, workerVars, clearing, boundVars, histVars>>

EnqueueSkip ==
  /\ up /\ hashed # NoHash
  /\ AlreadyIndexed(hashed.path, hashed.hash)
  /\ EnqueueDone
  /\ UNCHANGED <<queueVars, storeVars, up, workerVars, clearing, boundVars, histVars>>

EnqueuePut ==
  /\ up /\ hashed # NoHash
  /\ ~AlreadyIndexed(hashed.path, hashed.hash)
  /\ PutPending(hashed.path, hashed.hash)
  /\ EnqueueDone
  /\ calm' = [calm EXCEPT ![hashed.path] =
                @ /\ (Busy(hashed.path) => jobs[hashed.path].hash = hashed.hash)]
  /\ stranded' = stranded \ {hashed.path}
  /\ UNCHANGED <<storeVars, up, workerVars, clearing, boundVars>>

-----------------------------------------------------------------------------
(* The worker thread: cli._worker_loop and worker.process_file *)

WorkerAt(label) == up /\ wpc = label

WorkerGoto(label) == wpc' = label /\ UNCHANGED <<wpath, wcap, wver>>

WorkerRest(label) == wpc' = label /\ wpath' = Nil /\ wcap' = Nil /\ wver' = Nil

Dequeue(p) ==
  /\ WorkerAt("idle")
  /\ TakePending(p)
  /\ wpc' = "capture" /\ wpath' = p /\ UNCHANGED <<wcap, wver>>
  /\ calm' = [calm EXCEPT ![p] = jobs[p].hash = disk[p]]
  /\ UNCHANGED <<storeVars, watcherVars, up, clearing, boundVars, stranded>>

\* _run_pipeline: ctx.capture_id; an OSError leaves it empty.
Capture ==
  /\ WorkerAt("capture")
  /\ wpc' = "parse" /\ wcap' = disk[wpath] /\ UNCHANGED <<wpath, wver>>
  /\ UNCHANGED <<queueVars, storeVars, watcherVars, up, clearing, boundVars, histVars>>

\* The parser opens the file again.  A missing file gives a context without
\* a manifest, which scores 0; its parser may raise instead.
ParseOutcome(c) ==
  IF c \notin Good THEN "mark_low"
  ELSE IF NChunks[c] = 0 THEN "mark_error"
  ELSE IF RequireAccept THEN "gate" ELSE "embed"

Parse ==
  /\ WorkerAt("parse")
  /\ wver' = disk[wpath]
  /\ \/ wpc' = ParseOutcome(disk[wpath])
     \/ ("parse" \in Faults \/ disk[wpath] = Nil) /\ wpc' = "mark_error"
  /\ UNCHANGED <<wpath, wcap>>
  /\ UNCHANGED <<queueVars, storeVars, watcherVars, up, clearing, boundVars, histVars>>

\* Mutant of GateAccepts: the candidate's text is not compared with the source.
GateAcceptsByHash ==
  /\ disk[wpath] \in Accepted
  /\ wcap \in {Nil, disk[wpath]}

\* _source_grounded_assessment reads the source a third time.  The candidate
\* carries the capture hash (the source's own when that is empty); a mismatch,
\* a lost text or an unreadable source holds the document back.
GateAccepts ==
  /\ disk[wpath] \in Accepted
  /\ wcap \in {Nil, disk[wpath]}
  /\ wver = disk[wpath]

Gate ==
  /\ WorkerAt("gate")
  /\ WorkerGoto(IF GateAccepts THEN "embed" ELSE "mark_low")
  /\ UNCHANGED <<queueVars, storeVars, watcherVars, up, clearing, boundVars, histVars>>

Embed ==
  /\ WorkerAt("embed")
  /\ \/ WorkerGoto("delete")
     \/ "embed" \in Faults /\ WorkerGoto("mark_error")
  /\ UNCHANGED <<queueVars, storeVars, watcherVars, up, clearing, boundVars, histVars>>

\* add_chunks, first half.  delete_file may fail without a word.
DeleteOld ==
  /\ WorkerAt("delete")
  /\ \E deleted \in BOOLEAN :
       /\ deleted \/ ~Live \/ "delete" \in Faults
       /\ DeleteFile(wpath, deleted)
       /\ calm' = [calm EXCEPT ![wpath] = @ /\ deleted]
  /\ WorkerGoto("add")
  /\ UNCHANGED <<queueVars, watcherVars, up, clearing, boundVars, stranded>>

AddNew ==
  /\ WorkerAt("add") /\ Live
  /\ AddToCollection(wpath, wver)
  /\ WorkerGoto("mark_done")
  /\ UNCHANGED <<queueVars, watcherVars, up, clearing, boundVars, histVars>>

\* process_file does not guard add_chunks: the exception ends the worker
\* thread, while the watch process goes on.
AddRaises ==
  /\ WorkerAt("add")
  /\ ~Live \/ "add" \in Faults
  /\ WorkerRest("dead")
  /\ stranded' = IF jobs[wpath].status = "processing"
                 THEN stranded \cup {wpath} ELSE stranded
  /\ UNCHANGED <<queueVars, storeVars, watcherVars, up, clearing, boundVars, calm>>

MarkDone ==
  /\ WorkerAt("mark_done")
  /\ RecordDone(wpath, NChunks[wver])
  /\ WorkerRest("idle")
  /\ UNCHANGED <<storeVars, watcherVars, up, clearing, boundVars, histVars>>

MarkLowQuality ==
  /\ WorkerAt("mark_low")
  /\ RecordFailure(wpath, "low_quality")
  /\ WorkerRest("idle")
  /\ UNCHANGED <<storeVars, watcherVars, up, clearing, boundVars, histVars>>

\* Mutant of MarkError: process_file returns without telling the queue.
RestWithoutError ==
  /\ WorkerAt("mark_error")
  /\ WorkerRest("idle")
  /\ UNCHANGED <<queueVars, storeVars, watcherVars, up, clearing, boundVars, histVars>>

MarkError ==
  /\ WorkerAt("mark_error")
  /\ RecordFailure(wpath, "error")
  /\ WorkerRest("idle")
  /\ UNCHANGED <<storeVars, watcherVars, up, clearing, boundVars, histVars>>

-----------------------------------------------------------------------------
(* Stopping the watch, killing it, starting it again.  A stop waits for the *)
(* worker for five seconds, then its daemon thread dies where it is.        *)

Die ==
  /\ up /\ crashes < MaxCrashes
  /\ crashes' = crashes + 1
  /\ up' = FALSE
  /\ WorkerRest("idle")
  /\ ForgetEvents
  /\ stranded' = IF wpc \in Working /\ jobs[wpath].status = "processing"
                 THEN stranded \cup {wpath} ELSE stranded
  /\ UNCHANGED <<queueVars, storeVars, clearing, clears, calm>>

\* There is no initial scan of the folder and no repair of the job table.
Start ==
  /\ ~up
  /\ up' = TRUE
  /\ Open
  /\ UNCHANGED <<queueVars, watcherVars, workerVars, clearing, boundVars, histVars>>

-----------------------------------------------------------------------------
(* `aksharamd index clear` in a process of its own *)

ClearJobs ==
  /\ ~clearing /\ clears < MaxClears
  /\ clearing' = TRUE /\ clears' = clears + 1
  /\ ResetAllJobs
  /\ calm' = [p \in Path |-> FALSE]
  /\ stranded' = {}
  /\ UNCHANGED <<storeVars, watcherVars, up, workerVars, crashes>>

ClearStore ==
  /\ clearing
  /\ clearing' = FALSE
  /\ ClearCollection
  /\ calm' = [p \in Path |-> FALSE]
  /\ UNCHANGED <<queueVars, watcherVars, up, workerVars, boundVars, stranded>>

-----------------------------------------------------------------------------

Flush == \/ FlushCollect
         \/ \E p \in Path : FlushHash(p) \/ FlushDrop(p)
         \/ EnqueueSkip
         \/ EnqueuePut

Worker == \/ \E p \in Path : Dequeue(p)
          \/ Capture \/ Parse \/ Gate \/ Embed
          \/ DeleteOld \/ AddNew \/ AddRaises
          \/ MarkDone \/ MarkLowQuality \/ MarkError

User == \/ \E p \in Path, c \in Content : Write(p, c)
        \/ \E p \in Path : Remove(p)
        \/ Die \/ Start \/ ClearJobs \/ ClearStore

Next == Flush \/ Worker \/ User

Spec == Init /\ [][Next]_vars

(***************************************************************************)
(* Fairness: both threads are OS threads that poll (every 0.5 s, every      *)
(* 1 s) for as long as the process runs.  Nothing is asked of the user.     *)
(***************************************************************************)
FairSpec == Spec /\ WF_vars(Flush) /\ WF_vars(Worker)

-----------------------------------------------------------------------------
(* Properties *)

\* A row that says "processing" is being worked on by the live worker thread,
\* or its worker died under it: no other order of events leaves one behind.
ProcessingHasOwner ==
  \A p \in Path : jobs[p].status = "processing" => Busy(p) \/ p \in stranded

\* A job that ran undisturbed (from dequeue on, its file held the hash the row
\* holds, no new version was queued meanwhile, `index clear` did not cut in and
\* the old chunks were deleted) and says "done" has exactly the chunks of that
\* version in the store, and the row counts them.
QuietJobFaithful ==
  \A p \in Path :
    jobs[p].status = "done" /\ calm[p] =>
      /\ store[p] = Full(jobs[p].hash)
      /\ jobs[p].chunks = NChunks[jobs[p].hash]

\* What search can return passed the readiness threshold and, when the
\* assessment gate is on, the assessor: whatever changed on disk meanwhile.
StoredIsAdmitted ==
  \A p \in Path, i \in Slot :
    store[p][i] # Nil => /\ store[p][i] \in Good
                         /\ RequireAccept => store[p][i] \in Accepted

\* The chunks of a file are never a mix of two versions of it, as long as
\* deletions of old chunks do not fail: not under edits while a job runs, not
\* after the watch died between delete and add, not across `index clear`.
SingleVersion ==
  "delete" \notin Faults =>
    \A p \in Path, i, j \in Slot :
      store[p][i] # Nil /\ store[p][j] # Nil => store[p][i] = store[p][j]

\* IndexQueue.enqueue: "Returns False if the file is already indexed with
\* identical content."  When it returns False, and no newer event of the file is
\* waiting that could put it right, the store holds what the file holds.
SkipMeansIndexed ==
  [][ EnqueueSkip /\ hashed.path \notin pending =>
        store[hashed.path] = Full(hashed.hash) ]_vars

\* worker.process_file: "Updates queue status (done / low_quality / error)
\* regardless of outcome."  When it is left while the watch goes on, the row of its
\* path no longer says "processing".
OutcomeRecorded ==
  [][ \A p \in Path :
        Busy(p) /\ ~Busy(p)' /\ up' => jobs'[p].status # "processing" ]_vars

\* Once the folder is left alone, every row reaches done, low_quality or error
\* and stays there: no job is lost in the queue.
Settles == <>[](\A p \in Path : jobs[p].status \notin {"pending", "processing"})

\* Once the folder is left alone, the row of each file that was not removed
\* carries the hash of what the file holds: the last edit is never missed.
HashCatchesUp ==
  \A p \in Path : <>[](disk[p] # Nil => jobs[p].hash = disk[p])
=============================================================================
