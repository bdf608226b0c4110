------------------------------ MODULE JobQueue ------------------------------
(***************************************************************************)
(* The SQLite job table of the local document index                        *)
(* (aksharamd/index/queue.py, class IndexQueue).  There is at most one row  *)
(* per path.  Each method takes the instance lock for all of its SQL, so    *)
(* between the threads of one watch process every operation here is one     *)
(* step; the SHA-256 of the file is taken BEFORE the lock, and is therefore *)
(* a step of its own in the module that composes the queue.                 *)
(*                                                                         *)
(* The columns error, readiness_score and processed_at are reported to the  *)
(* user and never read back: left out.                                      *)
(***************************************************************************)
EXTENDS Documents

VARIABLES jobs,       \* the table: one record per path, "none" if no row
          clock       \* time.time(): the next value of added_at

queueVars == <<jobs, clock>>

Terminal == {"done", "low_quality", "error"}
Status   == {"none", "pending", "processing"} \cup Terminal

\* chunks = 0 is the NULL chunk_count of a row that was never marked done.
Row == [hash : Content \cup {Nil}, status : Status, added : Nat, chunks : Nat]

NoRow == [hash |-> Nil, status |-> "none", added |-> 0, chunks |-> 0]

QueueTypeOK == jobs \in [Path -> Row] /\ clock \in Nat

QueueInit == jobs = [p \in Path |-> NoRow] /\ clock = 0

HasRow(p) == jobs[p].status # "none"

(***************************************************************************)
(* enqueue                                                                 *)
(***************************************************************************)
\* Mutant of AlreadyIndexed: the hash is not compared.
AlreadyIndexedByStatus(p, h) == jobs[p].status = "done" /\ h = h

\* enqueue's early return: same hash, and the row says "done".
AlreadyIndexed(p, h) == jobs[p].status = "done" /\ jobs[p].hash = h

\* The UPDATE of an existing row resets every column, whatever its status,
\* and equals the INSERT of a fresh one.
PutPending(p, h) ==
  /\ jobs' = [jobs EXCEPT ![p] =
                [hash |-> h, status |-> "pending", added |-> clock, chunks |-> 0]]
  /\ clock' = clock + 1

(***************************************************************************)
(* dequeue: SELECT ... WHERE status='pending' ORDER BY added_at LIMIT 1    *)
(***************************************************************************)
Oldest(p) ==
  /\ jobs[p].status = "pending"
  /\ \A q \in Path : jobs[q].status = "pending" => jobs[p].added <= jobs[q].added

TakePending(p) ==
  /\ Oldest(p)
  /\ jobs' = [jobs EXCEPT ![p].status = "processing"]
  /\ UNCHANGED clock

(***************************************************************************)
(* mark_done, mark_low_quality, mark_error: UPDATE ... WHERE path=?, which  *)
(* looks neither at the status nor at the hash the row has by now, and      *)
(* changes nothing when the row is gone.                                    *)
(***************************************************************************)
RecordDone(p, n) ==
  /\ jobs' = IF HasRow(p)
             THEN [jobs EXCEPT ![p].status = "done", ![p].chunks = n]
             ELSE jobs
  /\ UNCHANGED clock

\* Mutant of RecordFailure: UPDATE ... WHERE path=? AND status='pending'.
RecordFailureOfPending(p, s) ==
  /\ jobs' = IF jobs[p].status = "pending" THEN [jobs EXCEPT ![p].status = s] ELSE jobs
  /\ UNCHANGED clock

RecordFailure(p, s) ==
  /\ jobs' = IF HasRow(p) THEN [jobs EXCEPT ![p].status = s] ELSE jobs
  /\ UNCHANGED clock

(***************************************************************************)
(* reset_all_jobs                                                          *)
(***************************************************************************)
ResetAllJobs == jobs' = [p \in Path |-> NoRow] /\ UNCHANGED clock
=============================================================================
