------------------------------ MODULE ModelLock ------------------------------
(***************************************************************************)
(* The advisory lock file of the Unlimited-OCR model lifecycle             *)
(* (plugins/ocr_backends/unlimited_ocr/_lock.py).  A process takes the lock *)
(* by creating the file with O_EXCL and then writing its pid, host and time *)
(* into it; one that finds the file there reads it, and unlinks it when the *)
(* holder is dead or the time is old; the release unlinks the file, whose   *)
(* ever it is.  All processes run on one host (a lock of another host is    *)
(* broken by age alone, a case that SlowOps covers), and a pid is not used  *)
(* again while its lock file exists.                                        *)
(***************************************************************************)
EXTENDS Naturals

CONSTANTS Proc,        \* shells, CI jobs: each runs one command at a time
          SlowOps,     \* may an operation outlive stale_seconds?
          MaxRuns      \* bound: commands started per process

ASSUME LockAssumption == /\ "nobody" \notin Proc
                         /\ SlowOps \in BOOLEAN
                         /\ MaxRuns \in Nat

VARIABLES lock,        \* the lock file, or Free
          pc,          \* where each process is; "idle" between commands
          run,         \* the number of the command: a pid
          overtaken    \* history: a live holder's file was unlinked by another

lockVars == <<lock, pc, run, overtaken>>

\* model_lock up to its yield.
Acquiring == {"create", "write", "judge", "unlink", "recreate"}

Free == [owner |-> "nobody", run |-> 0, text |-> FALSE, old |-> FALSE]

File(p) == [owner |-> p, run |-> run[p], text |-> FALSE, old |-> FALSE]

Exists == lock # Free

Mine(p) == lock.owner = p /\ lock.run = run[p]

\* The process that wrote the file is running that same command.
HolderLives == \E p \in Proc : Mine(p) /\ pc[p] # "idle"

LockInit ==
  /\ lock = Free
  /\ pc = [p \in Proc |-> "idle"]
  /\ run = [p \in Proc |-> 0]
  /\ overtaken = FALSE

Goto(p, label) == pc' = [pc EXCEPT ![p] = label]

\* Unlinking the file, if it is there, on behalf of p.
UnlinkFile(p) ==
  /\ lock' = Free
  /\ overtaken' = (overtaken \/ (HolderLives /\ ~Mine(p)))

-----------------------------------------------------------------------------
(* model_lock *)

\* Mutant of Create: the file is opened without O_EXCL.
CreateOrOverwrite(p) ==
  /\ pc[p] \in {"create", "recreate"}
  /\ lock' = File(p)
  /\ Goto(p, "write")
  /\ UNCHANGED <<run, overtaken>>

\* _write_lock_atomic: os.open with O_EXCL.  The second attempt, after a stale
\* file was broken, gives up where the first one looks at the file.
Create(p) ==
  /\ pc[p] \in {"create", "recreate"}
  /\ ~Exists
  /\ lock' = File(p)
  /\ Goto(p, "write")
  /\ UNCHANGED <<run, overtaken>>

FileExists(p) ==
  /\ pc[p] = "create" /\ Exists
  /\ Goto(p, "judge")
  /\ UNCHANGED <<lock, run, overtaken>>

\* The payload is written through the descriptor: into the file if it is still
\* the one p created.
WriteText(p, label) ==
  /\ pc[p] = "write"
  /\ lock' = IF Mine(p) THEN [lock EXCEPT !.text = TRUE] ELSE lock
  /\ Goto(p, label)
  /\ UNCHANGED <<run, overtaken>>

\* The write fails (a full disk): the file is dropped, the error goes up.
WriteFails(p) ==
  /\ pc[p] = "write"
  /\ UnlinkFile(p)
  /\ Goto(p, "idle")
  /\ UNCHANGED run

\* _is_stale of a parsed file: too old, or its process is gone.
Stale == lock.text /\ (lock.old \/ ~HolderLives)

\* _try_break_stale: read and judge; the unlink is another system call.
JudgeStale(p) ==
  /\ pc[p] = "judge" /\ Stale
  /\ Goto(p, "unlink")
  /\ UNCHANGED <<lock, run, overtaken>>

BreakStale(p) ==
  /\ pc[p] = "unlink"
  /\ UnlinkFile(p)
  /\ Goto(p, "recreate")
  /\ UNCHANGED run

\* LockHeld: the file is active, malformed (empty so far, or for good when its
\* writer died), gone again, or taken by another one after the break.
Denied(p) ==
  /\ \/ pc[p] = "judge" /\ ~Stale
     \/ pc[p] = "recreate" /\ Exists
  /\ Goto(p, "idle")
  /\ UNCHANGED <<lock, run, overtaken>>

\* The finally clause unlinks the path without looking at what is there.
Release(p, label) ==
  /\ pc[p] = label
  /\ UnlinkFile(p)
  /\ Goto(p, "idle")
  /\ UNCHANGED run

-----------------------------------------------------------------------------
(* Around the lock *)

BeginAt(p, label) ==
  /\ pc[p] = "idle" /\ run[p] < MaxRuns
  /\ run' = [run EXCEPT ![p] = @ + 1]
  /\ Goto(p, label)
  /\ UNCHANGED <<lock, overtaken>>

\* The process is killed: no finally clause runs.
Kill(p) ==
  /\ pc[p] # "idle"
  /\ Goto(p, "idle")
  /\ UNCHANGED <<lock, run, overtaken>>

\* stale_seconds pass.  Without SlowOps no operation takes that long, so only
\* the file of a dead process grows old.
Age ==
  /\ Exists /\ ~lock.old
  /\ SlowOps \/ ~HolderLives
  /\ lock' = [lock EXCEPT !.old = TRUE]
  /\ UNCHANGED <<pc, run, overtaken>>
=============================================================================
