-------------------------- MODULE IndexWatch_proofs --------------------------
(***************************************************************************)
(* Proofs about IndexWatch, for every set of files and contents, every      *)
(* chunking, every choice of faults and every bound on edits, crashes and   *)
(* clears.                                                                  *)
(***************************************************************************)
EXTENDS IndexWatch, TLAPS

USE NilAssumption, ChunkAssumption, WatchAssumption
USE DEF NilAssumption, ChunkAssumption, WatchAssumption

\* The labels behind the parser, where wver holds an admitted version.
Parsed == {"gate", "embed", "delete", "add", "mark_done"}

\* What the worker's program counter says about its variables, and what an
\* enqueue in progress holds.
Wellformed ==
  /\ wpc \in Working => wpath \in Path /\ up
  /\ wpc \in Parsed => wver \in Good
  /\ hashed = NoHash \/ hashed \in [path : Path, hash : Content]

IType == TypeOK /\ Wellformed

LEMMA FullType == ASSUME NEW c \in Content PROVE Full(c) \in [Slot -> Content \cup {Nil}]
  BY DEF Full, Slot

\* The two UPDATEs of a finished job keep the table well typed.
LEMMA RecordType ==
  ASSUME QueueTypeOK, NEW p \in Path, NEW n \in Nat, NEW s \in Terminal
  PROVE  (RecordDone(p, n) \/ RecordFailure(p, s)) => QueueTypeOK'
<1>1. jobs[p] \in Row
      BY DEF QueueTypeOK
<1>2. [jobs[p] EXCEPT !.status = "done", !.chunks = n] \in Row
      BY <1>1 DEF Row, Status, Terminal
<1>3. [jobs[p] EXCEPT !.status = s] \in Row
      BY <1>1 DEF Row, Status, Terminal
<1>4. RecordDone(p, n) => QueueTypeOK'
      BY <1>2 DEF RecordDone, QueueTypeOK
<1>5. RecordFailure(p, s) => QueueTypeOK'
      BY <1>3 DEF RecordFailure, QueueTypeOK
<1> QED
  BY <1>4, <1>5

LEMMA TypeInit == Init => IType
<1> SUFFICES ASSUME Init PROVE IType
    OBVIOUS
<1>1. QueueTypeOK
      BY DEF Init, QueueInit, QueueTypeOK, Row, NoRow, Status
<1>2. StoreTypeOK
      BY DEF Init, StoreInit, StoreTypeOK, NoChunks
<1>3. WatcherTypeOK
      BY DEF Init, WatcherInit, WatcherTypeOK, NoHash
<1> QED
  BY <1>1, <1>2, <1>3 DEF Init, IType, TypeOK, Wellformed, WatcherInit, Resting, Working, Parsed

LEMMA TypeStep == IType /\ [Next]_vars => IType'
<1> SUFFICES ASSUME IType, [Next]_vars PROVE IType'
    OBVIOUS
<1> USE DEF IType, TypeOK, QueueTypeOK, StoreTypeOK, WatcherTypeOK, Resting, Working,
            Wellformed, Parsed
<1>1. ASSUME NEW p \in Path, NEW c \in Content, Write(p, c) PROVE IType'
      BY <1>1 DEF Write, WriteFile, queueVars, storeVars, workerVars, boundVars, Busy
<1>2. ASSUME NEW p \in Path, Remove(p) PROVE IType'
      BY <1>2 DEF Remove, RemoveFile, queueVars, storeVars, workerVars, boundVars, Busy
<1>3. CASE FlushCollect
      BY <1>3 DEF FlushCollect, CollectQuiet, NoHash, queueVars, storeVars, workerVars,
                  boundVars, histVars
<1>4. ASSUME NEW p \in Path, FlushHash(p) PROVE IType'
      BY <1>4 DEF FlushHash, HashFile, NoHash, queueVars, storeVars, workerVars, boundVars,
                  histVars
<1>5. ASSUME NEW p \in Path, FlushDrop(p) PROVE IType'
      BY <1>5 DEF FlushDrop, DropEvent, queueVars, storeVars, workerVars, boundVars, histVars
<1>6. CASE EnqueueSkip
      BY <1>6 DEF EnqueueSkip, EnqueueDone, NoHash, queueVars, storeVars, workerVars,
                  boundVars, histVars
<1>7. CASE EnqueuePut
      BY <1>7 DEF EnqueuePut, PutPending, EnqueueDone, NoHash, Row, Status, storeVars,
                  workerVars, boundVars, Busy
<1>8. ASSUME NEW p \in Path, Dequeue(p) PROVE IType'
      BY <1>8, SMTT(30) DEF Dequeue, TakePending, WorkerAt, Row, Status, storeVars, watcherVars, boundVars
<1>9. CASE Capture
      BY <1>9 DEF Capture, WorkerAt, queueVars, storeVars, watcherVars, boundVars, histVars
<1>10. CASE Parse
      BY <1>10 DEF Parse, ParseOutcome, WorkerAt, queueVars, storeVars, watcherVars, boundVars,
                   histVars
<1>11. CASE Gate
      BY <1>11 DEF Gate, WorkerAt, WorkerGoto, queueVars, storeVars, watcherVars, boundVars,
                   histVars
<1>12. CASE Embed
      BY <1>12 DEF Embed, WorkerAt, WorkerGoto, queueVars, storeVars, watcherVars, boundVars,
                   histVars
<1>13. CASE DeleteOld
      BY <1>13 DEF DeleteOld, DeleteFile, NoChunks, Slot, WorkerAt, WorkerGoto, queueVars,
                   watcherVars, boundVars
<1>14. CASE AddNew
      BY <1>14 DEF AddNew, AddToCollection, Slot, WorkerAt, WorkerGoto, queueVars,
                   watcherVars, boundVars, histVars
<1>15. CASE AddRaises
      BY <1>15 DEF AddRaises, WorkerAt, WorkerRest, queueVars, storeVars, watcherVars, boundVars
<1>16. CASE MarkDone
  <2>1. wpath \in Path /\ NChunks[wver] \in Nat
        BY <1>16 DEF MarkDone, WorkerAt
  <2>2. QueueTypeOK'
        BY <1>16, <2>1, RecordType DEF MarkDone, Terminal
  <2> QED
    BY <1>16, <2>2 DEF MarkDone, WorkerAt, WorkerRest, storeVars, watcherVars, boundVars, histVars
<1>17. CASE MarkLowQuality
  <2>1. wpath \in Path
        BY <1>17 DEF MarkLowQuality, WorkerAt
  <2>2. QueueTypeOK'
        BY <1>17, <2>1, RecordType DEF MarkLowQuality, Terminal
  <2> QED
    BY <1>17, <2>2 DEF MarkLowQuality, WorkerAt, WorkerRest, storeVars, watcherVars, boundVars, histVars
<1>18. CASE MarkError
  <2>1. wpath \in Path
        BY <1>18 DEF MarkError, WorkerAt
  <2>2. QueueTypeOK'
        BY <1>18, <2>1, RecordType DEF MarkError, Terminal
  <2> QED
    BY <1>18, <2>2 DEF MarkError, WorkerAt, WorkerRest, storeVars, watcherVars, boundVars, histVars
<1>19. CASE Die
  <2>1. QueueTypeOK' /\ StoreTypeOK'
        BY <1>19 DEF Die, queueVars, storeVars
  <2>2. WatcherTypeOK' /\ hashed' = NoHash
        BY <1>19 DEF Die, ForgetEvents, NoHash
  <2>3. stranded' \subseteq Path
        BY <1>19 DEF Die
  <2>4. wpc' = "idle" /\ wpath' = Nil /\ wcap' = Nil /\ wver' = Nil /\ up' = FALSE
        BY <1>19 DEF Die, WorkerRest
  <2>5. crashes' \in Nat /\ UNCHANGED <<clearing, clears, calm>>
        BY <1>19 DEF Die
  <2> HIDE DEF QueueTypeOK, StoreTypeOK, WatcherTypeOK
  <2> QED
    BY <2>1, <2>2, <2>3, <2>4, <2>5
<1>20. CASE Start
      BY <1>20 DEF Start, Open, queueVars, watcherVars, workerVars, boundVars, histVars
<1>21. CASE ClearJobs
      BY <1>21 DEF ClearJobs, ResetAllJobs, NoRow, Row, Status, Terminal, storeVars,
                   watcherVars, workerVars
<1>22. CASE ClearStore
  <2>1. StoreTypeOK'
        BY <1>22 DEF ClearStore, ClearCollection, NoChunks
  <2> QED
    BY <1>22, <2>1 DEF ClearStore, queueVars, watcherVars, workerVars, boundVars
<1>23. CASE UNCHANGED vars
      BY <1>23 DEF vars, queueVars, storeVars, watcherVars, workerVars, boundVars, histVars
<1> QED
  BY <1>1, <1>2, <1>3, <1>4, <1>5, <1>6, <1>7, <1>8, <1>9, <1>10, <1>11, <1>12, <1>13,
     <1>14, <1>15, <1>16, <1>17, <1>18, <1>19, <1>20, <1>21, <1>22, <1>23
  DEF Next, Flush, Worker, User

\* The variables of all parts keep their types, and an admitted version is at
\* hand wherever the worker uses one.
THEOREM TypeCorrect == Spec => []TypeOK
<1>1. Spec => []IType
      BY TypeInit, TypeStep, PTL DEF Spec
<1> QED
  BY <1>1, PTL DEF IType

-----------------------------------------------------------------------------
(* Who owns a row that says "processing" *)

LEMMA OwnerStep ==
  IType /\ ProcessingHasOwner /\ [Next]_vars => ProcessingHasOwner'
<1> SUFFICES ASSUME IType, ProcessingHasOwner, [Next]_vars PROVE ProcessingHasOwner'
    OBVIOUS
<1> USE DEF IType, TypeOK, QueueTypeOK, Wellformed, ProcessingHasOwner, Busy, Working, Row
<1>1. ASSUME NEW p \in Path, NEW c \in Content, Write(p, c) PROVE ProcessingHasOwner'
      BY <1>1 DEF Write, WriteFile, queueVars, storeVars, workerVars, boundVars
<1>2. ASSUME NEW p \in Path, Remove(p) PROVE ProcessingHasOwner'
      BY <1>2 DEF Remove, RemoveFile, queueVars, storeVars, workerVars, boundVars
<1>3. CASE FlushCollect
      BY <1>3 DEF FlushCollect, queueVars, storeVars, workerVars, boundVars, histVars
<1>4. ASSUME NEW p \in Path, FlushHash(p) PROVE ProcessingHasOwner'
      BY <1>4 DEF FlushHash, queueVars, storeVars, workerVars, boundVars, histVars
<1>5. ASSUME NEW p \in Path, FlushDrop(p) PROVE ProcessingHasOwner'
      BY <1>5 DEF FlushDrop, queueVars, storeVars, workerVars, boundVars, histVars
<1>6. CASE EnqueueSkip
      BY <1>6 DEF EnqueueSkip, queueVars, storeVars, workerVars, boundVars, histVars
<1>7. CASE EnqueuePut
      BY <1>7 DEF EnqueuePut, PutPending, storeVars, workerVars, boundVars
<1>8. ASSUME NEW p \in Path, Dequeue(p) PROVE ProcessingHasOwner'
      BY <1>8 DEF Dequeue, TakePending, Oldest, WorkerAt, storeVars, watcherVars, boundVars
<1>9. CASE Capture
      BY <1>9 DEF Capture, WorkerAt, queueVars, storeVars, watcherVars, boundVars, histVars
<1>10. CASE Parse
      BY <1>10 DEF Parse, ParseOutcome, WorkerAt, queueVars, histVars
<1>11. CASE Gate
      BY <1>11 DEF Gate, GateAccepts, WorkerAt, WorkerGoto, queueVars, histVars
<1>12. CASE Embed
      BY <1>12 DEF Embed, WorkerAt, WorkerGoto, queueVars, storeVars, watcherVars, boundVars, histVars
<1>13. CASE DeleteOld
      BY <1>13 DEF DeleteOld, DeleteFile, WorkerAt, WorkerGoto, queueVars, watcherVars, boundVars
<1>14. CASE AddNew
      BY <1>14 DEF AddNew, AddToCollection, WorkerAt, WorkerGoto, queueVars, watcherVars, boundVars, histVars
<1>15. CASE AddRaises
      BY <1>15 DEF AddRaises, WorkerAt, WorkerRest, queueVars, storeVars, watcherVars, boundVars
<1>16. CASE MarkDone
      BY <1>16 DEF MarkDone, RecordDone, HasRow, WorkerAt, WorkerRest, storeVars, watcherVars, boundVars, histVars
<1>17. CASE MarkLowQuality
      BY <1>17 DEF MarkLowQuality, RecordFailure, HasRow, WorkerAt, WorkerRest, storeVars, watcherVars, boundVars, histVars
<1>18. CASE MarkError
      BY <1>18 DEF MarkError, RecordFailure, HasRow, WorkerAt, WorkerRest, storeVars, watcherVars, boundVars, histVars
<1>19. CASE Die
      BY <1>19 DEF Die, WorkerRest, queueVars, storeVars
<1>20. CASE Start
      BY <1>20 DEF Start, Open, queueVars, watcherVars, workerVars, boundVars, histVars
<1>21. CASE ClearJobs
      BY <1>21 DEF ClearJobs, ResetAllJobs, NoRow, storeVars, watcherVars, workerVars
<1>22. CASE ClearStore
      BY <1>22 DEF ClearStore, ClearCollection, queueVars, watcherVars, workerVars, boundVars
<1>23. CASE UNCHANGED vars
      BY <1>23 DEF vars, queueVars, storeVars, watcherVars, workerVars, boundVars, histVars
<1> QED
  BY <1>1, <1>2, <1>3, <1>4, <1>5, <1>6, <1>7, <1>8, <1>9, <1>10, <1>11, <1>12, <1>13,
     <1>14, <1>15, <1>16, <1>17, <1>18, <1>19, <1>20, <1>21, <1>22, <1>23
  DEF Next, Flush, Worker, User

\* A job that says "processing" is in the hands of the live worker, or of one
\* that died: there is no third way to strand a job.
THEOREM ProcessingOwned == Spec => []ProcessingHasOwner
<1>1. Init => ProcessingHasOwner
      BY DEF Init, QueueInit, NoRow, ProcessingHasOwner
<1>2. Spec => []IType
      BY TypeInit, TypeStep, PTL DEF Spec
<1> QED
  BY <1>1, <1>2, OwnerStep, PTL DEF Spec

-----------------------------------------------------------------------------
(* What search can return *)

\* Behind the assessment gate the worker holds a version the assessor took.
AdmitInv ==
  /\ StoredIsAdmitted
  /\ RequireAccept /\ wpc \in Parsed \ {"gate"} => wver \in Accepted

LEMMA AdmitStep == IType /\ AdmitInv /\ [Next]_vars => AdmitInv'
<1> SUFFICES ASSUME IType, AdmitInv, [Next]_vars PROVE AdmitInv'
    OBVIOUS
<1> USE DEF IType, TypeOK, StoreTypeOK, Wellformed, AdmitInv, StoredIsAdmitted, Working, Parsed
<1>1. ASSUME NEW p \in Path, NEW c \in Content, Write(p, c) PROVE AdmitInv'
      BY <1>1 DEF Write, WriteFile, queueVars, storeVars, workerVars, boundVars
<1>2. ASSUME NEW p \in Path, Remove(p) PROVE AdmitInv'
      BY <1>2 DEF Remove, RemoveFile, queueVars, storeVars, workerVars, boundVars
<1>3. CASE FlushCollect
      BY <1>3 DEF FlushCollect, CollectQuiet, queueVars, storeVars, workerVars, boundVars,
                  histVars
<1>4. ASSUME NEW p \in Path, FlushHash(p) PROVE AdmitInv'
      BY <1>4 DEF FlushHash, HashFile, queueVars, storeVars, workerVars, boundVars,
                  histVars
<1>5. ASSUME NEW p \in Path, FlushDrop(p) PROVE AdmitInv'
      BY <1>5 DEF FlushDrop, DropEvent, queueVars, storeVars, workerVars, boundVars,
                  histVars
<1>6. CASE EnqueueSkip
      BY <1>6 DEF EnqueueSkip, EnqueueDone, queueVars, storeVars, workerVars, boundVars,
                  histVars
<1>7. CASE EnqueuePut
      BY <1>7 DEF EnqueuePut, PutPending, EnqueueDone, storeVars, workerVars, boundVars
<1>8. ASSUME NEW p \in Path, Dequeue(p) PROVE AdmitInv'
      BY <1>8 DEF Dequeue, TakePending, Oldest, WorkerAt, storeVars, watcherVars,
                  boundVars
<1>9. CASE Capture
      BY <1>9 DEF Capture, WorkerAt, queueVars, storeVars, watcherVars, boundVars,
                  histVars
<1>10. CASE Parse
      BY <1>10 DEF Parse, ParseOutcome, WorkerAt, queueVars, storeVars, watcherVars,
                   boundVars, histVars
<1>11. CASE Gate
      BY <1>11 DEF Gate, GateAccepts, WorkerAt, WorkerGoto, queueVars, storeVars,
                   watcherVars, boundVars, histVars
<1>12. CASE Embed
      BY <1>12 DEF Embed, WorkerAt, WorkerGoto, queueVars, storeVars, watcherVars,
                   boundVars, histVars
<1>13. CASE DeleteOld
      BY <1>13 DEF DeleteOld, DeleteFile, NoChunks, WorkerAt, WorkerGoto, queueVars,
                   watcherVars, boundVars
<1>14. CASE AddNew
      BY <1>14 DEF AddNew, AddToCollection, Slot, WorkerAt, WorkerGoto, queueVars,
                   watcherVars, boundVars, histVars
<1>15. CASE AddRaises
      BY <1>15 DEF AddRaises, WorkerAt, WorkerRest, queueVars, storeVars, watcherVars,
                   boundVars
<1>16. CASE MarkDone
      BY <1>16 DEF MarkDone, RecordDone, HasRow, WorkerAt, WorkerRest, storeVars,
                   watcherVars, boundVars, histVars
<1>17. CASE MarkLowQuality
      BY <1>17 DEF MarkLowQuality, RecordFailure, HasRow, WorkerAt, WorkerRest, storeVars,
                   watcherVars, boundVars, histVars
<1>18. CASE MarkError
      BY <1>18 DEF MarkError, RecordFailure, HasRow, WorkerAt, WorkerRest, storeVars,
                   watcherVars, boundVars, histVars
<1>19. CASE Die
      BY <1>19 DEF Die, ForgetEvents, WorkerRest, queueVars, storeVars
<1>20. CASE Start
      BY <1>20 DEF Start, Open, queueVars, watcherVars, workerVars, boundVars, histVars
<1>21. CASE ClearJobs
      BY <1>21 DEF ClearJobs, ResetAllJobs, NoRow, storeVars, watcherVars, workerVars
<1>22. CASE ClearStore
      BY <1>22 DEF ClearStore, ClearCollection, NoChunks, queueVars, watcherVars,
                   workerVars, boundVars
<1>23. CASE UNCHANGED vars
      BY <1>23 DEF vars, queueVars, storeVars, watcherVars, workerVars, boundVars, histVars
<1> QED
  BY <1>1, <1>2, <1>3, <1>4, <1>5, <1>6, <1>7, <1>8, <1>9, <1>10, <1>11, <1>12, <1>13,
      <1>14, <1>15, <1>16, <1>17, <1>18, <1>19, <1>20, <1>21, <1>22, <1>23
  DEF Next, Flush, Worker, User

\* Search never returns a chunk of a version below the readiness threshold, nor
\* one the assessment gate turned down, however edits, crashes and clears fall.
THEOREM Admission == Spec => []StoredIsAdmitted
<1>1. Init => AdmitInv
      BY DEF Init, StoreInit, NoChunks, AdmitInv, StoredIsAdmitted, Parsed
<1>2. Spec => []IType
      BY TypeInit, TypeStep, PTL DEF Spec
<1> QED
  BY <1>1, <1>2, AdmitStep, PTL DEF Spec, AdmitInv

\* Between the delete and the add of a job whose collection is still the live
\* one, the path has no chunks.
VersionInv ==
  /\ SingleVersion
  /\ "delete" \notin Faults /\ wpc = "add" /\ Live => store[wpath] = NoChunks

LEMMA VersionStep == IType /\ VersionInv /\ [Next]_vars => VersionInv'
<1> SUFFICES ASSUME IType, VersionInv, [Next]_vars PROVE VersionInv'
    OBVIOUS
<1> USE DEF IType, TypeOK, StoreTypeOK, Wellformed, VersionInv, SingleVersion, Working, Parsed,
            Live, NoChunks
<1>1. ASSUME NEW p \in Path, NEW c \in Content, Write(p, c) PROVE VersionInv'
      BY <1>1 DEF Write, WriteFile, queueVars, storeVars, workerVars, boundVars
<1>2. ASSUME NEW p \in Path, Remove(p) PROVE VersionInv'
      BY <1>2 DEF Remove, RemoveFile, queueVars, storeVars, workerVars, boundVars
<1>3. CASE FlushCollect
      BY <1>3 DEF FlushCollect, CollectQuiet, queueVars, storeVars, workerVars, boundVars,
                  histVars
<1>4. ASSUME NEW p \in Path, FlushHash(p) PROVE VersionInv'
      BY <1>4 DEF FlushHash, HashFile, queueVars, storeVars, workerVars, boundVars,
                  histVars
<1>5. ASSUME NEW p \in Path, FlushDrop(p) PROVE VersionInv'
      BY <1>5 DEF FlushDrop, DropEvent, queueVars, storeVars, workerVars, boundVars,
                  histVars
<1>6. CASE EnqueueSkip
      BY <1>6 DEF EnqueueSkip, EnqueueDone, queueVars, storeVars, workerVars, boundVars,
                  histVars
<1>7. CASE EnqueuePut
      BY <1>7 DEF EnqueuePut, PutPending, EnqueueDone, storeVars, workerVars, boundVars
<1>8. ASSUME NEW p \in Path, Dequeue(p) PROVE VersionInv'
      BY <1>8 DEF Dequeue, TakePending, Oldest, WorkerAt, storeVars, watcherVars,
                  boundVars
<1>9. CASE Capture
      BY <1>9 DEF Capture, WorkerAt, queueVars, storeVars, watcherVars, boundVars,
                  histVars
<1>10. CASE Parse
      BY <1>10 DEF Parse, ParseOutcome, WorkerAt, queueVars, storeVars, watcherVars,
                   boundVars, histVars
<1>11. CASE Gate
      BY <1>11 DEF Gate, GateAccepts, WorkerAt, WorkerGoto, queueVars, storeVars,
                   watcherVars, boundVars, histVars
<1>12. CASE Embed
      BY <1>12 DEF Embed, WorkerAt, WorkerGoto, queueVars, storeVars, watcherVars,
                   boundVars, histVars
<1>13. CASE DeleteOld
      BY <1>13 DEF DeleteOld, DeleteFile, NoChunks, WorkerAt, WorkerGoto, queueVars,
                   watcherVars, boundVars
<1>14. CASE AddNew
      BY <1>14 DEF AddNew, AddToCollection, Slot, WorkerAt, WorkerGoto, queueVars,
                   watcherVars, boundVars, histVars
<1>15. CASE AddRaises
      BY <1>15 DEF AddRaises, WorkerAt, WorkerRest, queueVars, storeVars, watcherVars,
                   boundVars
<1>16. CASE MarkDone
      BY <1>16 DEF MarkDone, RecordDone, HasRow, WorkerAt, WorkerRest, storeVars,
                   watcherVars, boundVars, histVars
<1>17. CASE MarkLowQuality
      BY <1>17 DEF MarkLowQuality, RecordFailure, HasRow, WorkerAt, WorkerRest, storeVars,
                   watcherVars, boundVars, histVars
<1>18. CASE MarkError
      BY <1>18 DEF MarkError, RecordFailure, HasRow, WorkerAt, WorkerRest, storeVars,
                   watcherVars, boundVars, histVars
<1>19. CASE Die
      BY <1>19 DEF Die, ForgetEvents, WorkerRest, queueVars, storeVars
<1>20. CASE Start
      BY <1>20 DEF Start, Open, queueVars, watcherVars, workerVars, boundVars, histVars
<1>21. CASE ClearJobs
      BY <1>21 DEF ClearJobs, ResetAllJobs, NoRow, storeVars, watcherVars, workerVars
<1>22. CASE ClearStore
      BY <1>22 DEF ClearStore, ClearCollection, NoChunks, queueVars, watcherVars,
                   workerVars, boundVars
<1>23. CASE UNCHANGED vars
      BY <1>23 DEF vars, queueVars, storeVars, watcherVars, workerVars, boundVars, histVars
<1> QED
  BY <1>1, <1>2, <1>3, <1>4, <1>5, <1>6, <1>7, <1>8, <1>9, <1>10, <1>11, <1>12, <1>13,
      <1>14, <1>15, <1>16, <1>17, <1>18, <1>19, <1>20, <1>21, <1>22, <1>23
  DEF Next, Flush, Worker, User

\* The chunks of a file always stem from one version of it, unless Chroma fails
\* to delete: this needs the delete and the add to see the same collection.
THEOREM OneVersion == Spec => []SingleVersion
<1>1. Init => VersionInv
      BY DEF Init, StoreInit, NoChunks, VersionInv, SingleVersion
<1>2. Spec => []IType
      BY TypeInit, TypeStep, PTL DEF Spec
<1> QED
  BY <1>1, <1>2, VersionStep, PTL DEF Spec, VersionInv

-----------------------------------------------------------------------------
(* What a finished job says of the store *)

\* The worker's row is never "done" while it works; as long as the job is calm
\* the row is there, carries the hash of the file, and so does the version at
\* hand; delete and add then leave exactly that version.
QuietInv ==
  /\ QuietJobFaithful
  /\ \A p \in Path : Busy(p) =>
       /\ jobs[p].status # "done"
       /\ calm[p] => /\ HasRow(p)
                     /\ jobs[p].hash = disk[p]
                     /\ wpc \in Parsed => wver = disk[p]
                     /\ wpc = "add" => store[p] = NoChunks
                     /\ wpc = "mark_done" => store[p] = Full(wver)

LEMMA QuietStep == IType /\ QuietInv /\ [Next]_vars => QuietInv'
<1> SUFFICES ASSUME IType, QuietInv, [Next]_vars PROVE QuietInv'
    OBVIOUS
<1> USE DEF IType, TypeOK, QueueTypeOK, StoreTypeOK, WatcherTypeOK, Row, Wellformed, QuietInv,
            QuietJobFaithful, Working, Parsed, Busy, HasRow
<1>1. ASSUME NEW p \in Path, NEW c \in Content, Write(p, c) PROVE QuietInv'
      BY <1>1 DEF Write, WriteFile, queueVars, storeVars, workerVars, boundVars
<1>2. ASSUME NEW p \in Path, Remove(p) PROVE QuietInv'
      BY <1>2 DEF Remove, RemoveFile, queueVars, storeVars, workerVars, boundVars
<1>3. CASE FlushCollect
      BY <1>3 DEF FlushCollect, CollectQuiet, queueVars, storeVars, workerVars, boundVars,
                  histVars
<1>4. ASSUME NEW p \in Path, FlushHash(p) PROVE QuietInv'
      BY <1>4 DEF FlushHash, HashFile, queueVars, storeVars, workerVars, boundVars,
                  histVars
<1>5. ASSUME NEW p \in Path, FlushDrop(p) PROVE QuietInv'
      BY <1>5 DEF FlushDrop, DropEvent, queueVars, storeVars, workerVars, boundVars,
                  histVars
<1>6. CASE EnqueueSkip
      BY <1>6 DEF EnqueueSkip, EnqueueDone, queueVars, storeVars, workerVars, boundVars,
                  histVars
<1>7. CASE EnqueuePut
      BY <1>7, ZenonT(40) DEF EnqueuePut, PutPending, EnqueueDone, storeVars, workerVars, boundVars
<1>8. ASSUME NEW p \in Path, Dequeue(p) PROVE QuietInv'
  <2>1. /\ jobs'[p].status = "processing" /\ jobs'[p].hash = jobs[p].hash
        /\ \A q \in Path \ {p} : jobs'[q] = jobs[q]
        BY <1>8 DEF Dequeue, TakePending
  <2>2. /\ calm'[p] = (jobs[p].hash = disk[p])
        /\ \A q \in Path \ {p} : calm'[q] = calm[q]
        BY <1>8 DEF Dequeue
  <2>3. wpc' = "capture" /\ wpath' = p /\ wpc = "idle"
        BY <1>8 DEF Dequeue, WorkerAt
  <2>4. UNCHANGED <<store, disk>>
        BY <1>8 DEF Dequeue, storeVars, watcherVars
  <2> QED
    BY <2>1, <2>2, <2>3, <2>4, ZenonT(40)
<1>9. CASE Capture
      BY <1>9 DEF Capture, WorkerAt, queueVars, storeVars, watcherVars, boundVars,
                  histVars
<1>10. CASE Parse
      BY <1>10 DEF Parse, ParseOutcome, WorkerAt, queueVars, storeVars, watcherVars,
                   boundVars, histVars
<1>11. CASE Gate
      BY <1>11 DEF Gate, GateAccepts, WorkerAt, WorkerGoto, queueVars, storeVars,
                   watcherVars, boundVars, histVars
<1>12. CASE Embed
      BY <1>12 DEF Embed, WorkerAt, WorkerGoto, queueVars, storeVars, watcherVars,
                   boundVars, histVars
<1>13. CASE DeleteOld
      BY <1>13 DEF DeleteOld, DeleteFile, NoChunks, WorkerAt, WorkerGoto, queueVars,
                   watcherVars, boundVars
<1>14. CASE AddNew
  <2>1. wpath \in Path /\ wpc' = "mark_done" /\ UNCHANGED <<wpath, wver, jobs, disk, calm>>
        BY <1>14 DEF AddNew, WorkerAt, WorkerGoto, queueVars, watcherVars, histVars
  <2>2. \A q \in Path \ {wpath} : store'[q] = store[q]
        BY <1>14 DEF AddNew, AddToCollection
  <2>3. store[wpath] = NoChunks => store'[wpath] = Full(wver)
        BY <1>14, <2>1 DEF AddNew, AddToCollection, NoChunks, Full
  <2> QED
    BY <1>14, <2>1, <2>2, <2>3 DEF AddNew, WorkerAt
<1>15. CASE AddRaises
      BY <1>15 DEF AddRaises, WorkerAt, WorkerRest, queueVars, storeVars, watcherVars,
                   boundVars
<1>16. CASE MarkDone
      BY <1>16 DEF MarkDone, RecordDone, HasRow, WorkerAt, WorkerRest, storeVars,
                   watcherVars, boundVars, histVars
<1>17. CASE MarkLowQuality
      BY <1>17 DEF MarkLowQuality, RecordFailure, HasRow, WorkerAt, WorkerRest, storeVars,
                   watcherVars, boundVars, histVars
<1>18. CASE MarkError
      BY <1>18 DEF MarkError, RecordFailure, HasRow, WorkerAt, WorkerRest, storeVars,
                   watcherVars, boundVars, histVars
<1>19. CASE Die
      BY <1>19 DEF Die, ForgetEvents, WorkerRest, queueVars, storeVars
<1>20. CASE Start
      BY <1>20 DEF Start, Open, queueVars, watcherVars, workerVars, boundVars, histVars
<1>21. CASE ClearJobs
      BY <1>21 DEF ClearJobs, ResetAllJobs, NoRow, storeVars, watcherVars, workerVars
<1>22. CASE ClearStore
      BY <1>22 DEF ClearStore, ClearCollection, NoChunks, queueVars, watcherVars,
                   workerVars, boundVars
<1>23. CASE UNCHANGED vars
      BY <1>23 DEF vars, queueVars, storeVars, watcherVars, workerVars, boundVars, histVars
<1> QED
  BY <1>1, <1>2, <1>3, <1>4, <1>5, <1>6, <1>7, <1>8, <1>9, <1>10, <1>11, <1>12, <1>13,
      <1>14, <1>15, <1>16, <1>17, <1>18, <1>19, <1>20, <1>21, <1>22, <1>23
  DEF Next, Flush, Worker, User

\* A job nothing disturbed means what it says: "done" is the version in the row,
\* complete and unmixed in the store, and counted right.
THEOREM QuietJobs == Spec => []QuietJobFaithful
<1>1. Init => QuietInv
      BY DEF Init, QueueInit, NoRow, QuietInv, QuietJobFaithful, Busy, Working
<1>2. Spec => []IType
      BY TypeInit, TypeStep, PTL DEF Spec
<1> QED
  BY <1>1, <1>2, QuietStep, PTL DEF Spec, QuietInv
=============================================================================
