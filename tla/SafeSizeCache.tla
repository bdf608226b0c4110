---------------------------- MODULE SafeSizeCache ----------------------------
(***************************************************************************)
(* The sizing of an Unlimited-OCR run (unlimited_ocr/portable.py) from the    *)
(* operator's override, the safe-size cache (unlimited_ocr/cache.py) or the   *)
(* memory formula, and the record of its outcome.  Processes share the cache  *)
(* file without a lock: each loads it, changes the record of its own          *)
(* fingerprint and replaces the whole file.                                  *)
(*                                                                         *)
(* Memory is counted in pages; 0 pages of free memory stand for no reading.   *)
(***************************************************************************)
EXTENDS Integers, FiniteSetsExt

CONSTANTS Procs,
          KeyOf,       \* the fingerprint of each process's hardware and software
          Capacity,    \* how many pages always fit for a fingerprint
          MaxSize,     \* _MAX_CHUNK_SIZE; _MIN_CHUNK_SIZE is 1
          Footprint,   \* _DEFAULT_MODEL_FOOTPRINT_ESTIMATE_MIB, in pages
          Free,        \* the readings of free memory
          MaxRestarts, \* max_restarts
          MaxTrouble,  \* bound: failing writes, kills, damaged files, other errors
          Rivals,      \* processes that stop after some runs
          MaxRivalRuns \* bound: the runs of all of them

Keys == {KeyOf[p] : p \in Procs}

ASSUME CacheAssumption ==
  /\ MaxSize \in Nat \ {0} /\ Footprint \in Nat /\ Free \subseteq Nat
  /\ MaxRestarts \in Nat /\ MaxTrouble \in Nat /\ MaxRivalRuns \in Nat
  /\ Capacity \in [Keys -> 1 .. MaxSize]
  /\ Rivals \subseteq Procs

VARIABLES file,        \* the records load_cache makes of the cache file
          pc,          \* each process: "idle", "run", "record", "save"
          size,        \* the chunk size of its attempt
          left,        \* the restarts it may still make
          passed,      \* whether its document completed
          loaded,      \* the records it has loaded
          trouble, runs,
          succeeded,   \* history: <<fingerprint, size>> of completed documents
          failed,      \* history: the same of failed ones
          lost         \* history: some record did not get into the file, or out of it

vars == <<file, pc, size, left, passed, loaded, trouble, runs, succeeded, failed,
          lost>>

Sizes == 1 .. MaxSize

\* A CacheRecord; 0 stands for no size.  NoRecord is a key that is not there.
Record == [ok : 0 .. MaxSize, high : 0 .. MaxSize, bad : 0 .. MaxSize]

NoRecord == [ok |-> 0, high |-> 0, bad |-> 0]

\* load_cache: so does a file that is not there, is damaged or of another version.
Empty == [k \in Keys |-> NoRecord]

Init ==
  /\ file = Empty
  /\ pc = [p \in Procs |-> "idle"]
  /\ size = [p \in Procs |-> 1] /\ left = [p \in Procs |-> 0]
  /\ passed = [p \in Procs |-> FALSE]
  /\ loaded = [p \in Procs |-> Empty]
  /\ trouble = 0 /\ runs = 0
  /\ succeeded = {} /\ failed = {} /\ lost = FALSE

-----------------------------------------------------------------------------
(* The first chunk size *)

Clamp(n) == Max({1, Min({MaxSize, n})})

\* _estimate_initial_chunk_size: what is left beside the model.
Formula(free) == IF free = 0 THEN 1 ELSE Clamp(free - Footprint)

\* The guard of choose_initial_size_from_cache_hit leaves no room for the model.
LiveGuard(free) == IF free = 0 THEN MaxSize ELSE Clamp(free)

\* The cached success, or half of a failure that is not larger.
Trusted(rec) ==
  IF rec.bad > 0 /\ rec.bad <= Clamp(rec.ok)
  THEN Max({1, rec.bad \div 2}) ELSE Clamp(rec.ok)

\* Mutant of Choose: a record without a success is taken for a miss.
ChooseOnHitOnly(rec, free) ==
  IF rec.ok > 0 THEN Min({Trusted(rec), LiveGuard(free)}) ELSE Formula(free)

\* _resolve_initial_size without an override.
Choose(rec, free) ==
  IF rec.ok > 0 THEN Min({Trusted(rec), LiveGuard(free)})
  ELSE IF rec.bad > 0
       THEN Clamp(Min({Formula(free), Max({1, rec.bad \div 2})}))
       ELSE Formula(free)

-----------------------------------------------------------------------------
(* infer_pdf_portable *)

MayRun(p) == p \in Rivals => runs < MaxRivalRuns

Begin(p, first) ==
  /\ pc[p] = "idle" /\ MayRun(p)
  /\ pc' = [pc EXCEPT ![p] = "run"]
  /\ size' = [size EXCEPT ![p] = first]
  /\ left' = [left EXCEPT ![p] = MaxRestarts]
  /\ runs' = IF p \in Rivals THEN runs + 1 ELSE runs
  /\ UNCHANGED <<file, passed, loaded, succeeded, failed, lost>>

\* The size from the cache file as it is now.
Start(p) ==
  /\ \E free \in Free : Begin(p, Choose(file[KeyOf[p]], free))
  /\ UNCHANGED trouble

Stumble == trouble < MaxTrouble /\ trouble' = trouble + 1

\* The operator's override counts as trouble: it ignores what is known.
StartOverridden(p) ==
  /\ \E n \in Sizes : Begin(p, n)
  /\ Stumble

Fits(p) == size[p] <= Capacity[KeyOf[p]]

Ends(p, ok) ==
  /\ passed' = [passed EXCEPT ![p] = ok]
  /\ pc' = [pc EXCEPT ![p] = "record"]
  /\ IF ok
     THEN /\ succeeded' = succeeded \cup {<<KeyOf[p], size[p]>>}
          /\ UNCHANGED failed
     ELSE /\ failed' = failed \cup {<<KeyOf[p], size[p]>>}
          /\ UNCHANGED succeeded
  /\ UNCHANGED <<file, size, left, loaded, runs, lost>>

\* At any size: the document may be shorter than the chunk, and the worker halves
\* its chunks on its own where it can.
Completes(p) ==
  /\ pc[p] = "run"
  /\ Ends(p, TRUE)
  /\ UNCHANGED trouble

\* Out of memory: a fresh worker with half the size, while restarts are left.
Restarts(p) ==
  /\ pc[p] = "run" /\ ~Fits(p)
  /\ left[p] > 0 /\ size[p] > 1
  /\ size' = [size EXCEPT ![p] = @ \div 2]
  /\ left' = [left EXCEPT ![p] = @ - 1]
  /\ UNCHANGED <<file, pc, passed, loaded, trouble, runs, succeeded, failed, lost>>

RunsOut(p) ==
  /\ pc[p] = "run" /\ ~Fits(p)
  /\ left[p] = 0 \/ size[p] = 1
  /\ Ends(p, FALSE)
  /\ UNCHANGED trouble

\* Any other failure of the orchestrator: a timeout, a broken PDF, a crash.
Breaks(p) ==
  /\ pc[p] = "run"
  /\ Ends(p, FALSE)
  /\ Stumble

\* record_success and record_failure: load, change the own record, save.
LoadRecords(p) ==
  /\ pc[p] = "record"
  /\ pc' = [pc EXCEPT ![p] = "save"]
  /\ loaded' = [loaded EXCEPT ![p] = file]
  /\ UNCHANGED <<file, size, left, passed, trouble, runs, succeeded, failed, lost>>

WithSuccess(rec, n) ==
  [rec EXCEPT !.ok = n, !.high = Max({@, n})]

\* Mutant of WithFailure: a failure resets the record to a smaller success.
WithFailureGuessing(rec, n) ==
  [rec EXCEPT !.bad = IF @ = 0 THEN n ELSE Min({@, n}), !.ok = n \div 2]

\* Mutant of WithFailure: the latest failure counts, not the smallest.
WithLatestFailure(rec, n) == [rec EXCEPT !.bad = n]

WithFailure(rec, n) ==
  [rec EXCEPT !.bad = IF @ = 0 THEN n ELSE Min({@, n})]

Updated(p) ==
  LET rec == loaded[p][KeyOf[p]]
  IN [loaded[p] EXCEPT ![KeyOf[p]] = IF passed[p] THEN WithSuccess(rec, size[p])
                                                  ELSE WithFailure(rec, size[p])]

Idle(p) ==
  /\ pc' = [pc EXCEPT ![p] = "idle"]
  /\ size' = [size EXCEPT ![p] = 1]
  /\ left' = [left EXCEPT ![p] = 0]
  /\ passed' = [passed EXCEPT ![p] = FALSE]
  /\ loaded' = [loaded EXCEPT ![p] = Empty]
  /\ UNCHANGED <<runs, succeeded, failed>>

\* save_cache_atomic: a temporary file, then os.replace.
Save(p) ==
  /\ pc[p] = "save"
  /\ file' = Updated(p)
  /\ lost' = (lost \/ file # loaded[p])
  /\ Idle(p)
  /\ UNCHANGED trouble

\* The write fails (the error is only noted), or the process is killed.
Dies(p) ==
  /\ pc[p] # "idle"
  /\ lost' = (lost \/ pc[p] \in {"record", "save"})
  /\ Idle(p) /\ Stumble
  /\ UNCHANGED file

\* The file is deleted or damaged, or another version wrote it.
Damage ==
  /\ file # Empty
  /\ file' = Empty
  /\ lost' = TRUE
  /\ Stumble
  /\ UNCHANGED <<pc, size, left, passed, loaded, runs, succeeded, failed>>

Step(p) ==
  \/ Start(p) \/ StartOverridden(p)
  \/ Completes(p) \/ Restarts(p) \/ RunsOut(p) \/ Breaks(p)
  \/ LoadRecords(p) \/ Save(p) \/ Dies(p)

Next ==
  \/ \E p \in Procs : Step(p)
  \/ Damage

\* A process that has begun a run goes on, and documents keep coming.
Progress(p) ==
  \/ Start(p) \/ Completes(p) \/ Restarts(p) \/ RunsOut(p)
  \/ LoadRecords(p) \/ Save(p)

Spec == Init /\ [][Next]_vars /\ \A p \in Procs : WF_vars(Progress(p))

-----------------------------------------------------------------------------
(* Properties *)

\* "Write a size ONLY after an entire document completes successfully" and "a
\* failure never claims a working size" (cache.py:13, 302): every size in the
\* file was the final size of a completed, or failed, document of the same
\* fingerprint, whichever saves were lost, and the high-water mark is not below
\* the success.
ClaimsEarned ==
  \A k \in Keys :
    LET rec == file[k]
    IN /\ rec.ok # 0 => <<k, rec.ok>> \in succeeded
       /\ rec.high # 0 => <<k, rec.high>> \in succeeded
       /\ rec.bad # 0 => <<k, rec.bad>> \in failed
       /\ rec.ok <= rec.high

\* "The SMALLEST known failed size" (cache.py:298): unless records crossed, were
\* not written or were damaged, a run that starts has it, for its fingerprint, of
\* every document that failed and was recorded, in whatever order.
SmallestFailureKept ==
  ~lost =>
    \A p \in Procs, n \in Sizes :
      /\ <<KeyOf[p], n>> \in failed
      /\ \A q \in Procs : KeyOf[q] = KeyOf[p] => pc[q] \in {"idle", "run"}
      => file[KeyOf[p]].bad \in 1 .. n

\* "Guard against a failure recorded at or below the cached success" (cache.py:231):
\* unless records were lost, a run that is sized by the cache starts below every
\* size that has failed for its fingerprint, or at 1, although short documents have
\* completed at any size since.
StartsBelowFailure ==
  [][\A p \in Procs :
       /\ Start(p) /\ ~lost
       /\ \A q \in Procs : KeyOf[q] = KeyOf[p] => pc[q] \in {"idle", "run"}
       => size'[p] = 1 \/ \A n \in Sizes : <<KeyOf[p], n>> \in failed => size'[p] < n]_vars

\* Sizing learns: with a stable GPU the only process of its fingerprint that goes on
\* ends with runs that complete, from any cache file, although other processes have
\* crossed its saves and short documents complete at sizes that do not fit.
Learns ==
  \A p \in Procs \ Rivals : <>[](pc[p] = "record" => passed[p])

\* "The formula for the live-VRAM guard is the SAME as
\* _estimate_initial_chunk_size's vram-based branch, kept in sync"
\* (cache.py:227): a cached size is not trusted above what the formula allows.
GuardInSync ==
  \A p \in Procs, free \in Free \ {0} :
    file[KeyOf[p]].ok > 0 => Choose(file[KeyOf[p]], free) <= Formula(free)
=============================================================================
