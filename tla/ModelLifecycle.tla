---------------------------- MODULE ModelLifecycle ----------------------------
(***************************************************************************)
(* `aksharamd models install | remove | verify`: the pinned snapshot of the *)
(* Unlimited-OCR model, its staging directory and its verification receipt  *)
(* (unlimited_ocr/models.py, ocr_backends/verification_receipt.py) under    *)
(* concurrent commands that may be killed at any point.  install and remove *)
(* hold the model lock; verify, and the model loader of a compile that finds *)
(* no receipt, do not.                                                      *)
(*                                                                         *)
(* A snapshot is good when every file has the hash the trusted manifest     *)
(* names, bad when some file is wrong or missing (a partial removal too).   *)
(* Preflight failures (hardware, disk, manifest) touch nothing and are left *)
(* out, as are the blobs of symlinked snapshots and the runtime cache.      *)
(***************************************************************************)
EXTENDS ModelLock

CONSTANTS Commands,    \* the commands in use
          MaxKills     \* bound: how many commands are killed

ASSUME CommandAssumption == Commands \subseteq {"install", "remove", "verify"}

VARIABLES final,       \* the snapshot directory of the pinned revision
          staging,     \* the staging directory next to it
          receipt,     \* is there a verification receipt?
          cmd,         \* the command each process runs
          kills,
          verified,    \* history: the snapshot in place passed a verification
          placedBy,    \* history: the command that moved it into place
          unlocked     \* history: a verify overlapped another command, or a
                       \* command was killed

fileVars == <<final, staging, receipt>>
histVars == <<verified, placedBy, unlocked>>
vars == <<lockVars, fileVars, cmd, kills, histVars>>

Snapshot == {"none", "good", "bad"}

InstallPc == {"check", "hash_old", "note_old", "download", "promote", "hash_new",
              "note_new", "scrap", "forget_new", "installed", "failed"}
RemovePc  == {"look", "rmtree", "rmdir", "forget", "removed"}
VerifyPc  == {"hash", "note"}

Locked == {"write"} \cup InstallPc \cup RemovePc

\* p is between the creation of its lock file and the release.
Inside(p) == pc[p] \in Locked

\* A command runs its own body and no other.
Assigned ==
  \A p \in Proc : /\ pc[p] \in Acquiring => cmd[p] \in {"install", "remove"}
                  /\ pc[p] \in InstallPc => cmd[p] = "install"
                  /\ pc[p] \in RemovePc => cmd[p] = "remove"

TypeOK ==
  /\ Assigned
  /\ lock \in [owner : Proc \cup {"nobody"}, run : Nat, text : BOOLEAN, old : BOOLEAN]
  /\ pc \in [Proc -> {"idle"} \cup Acquiring \cup InstallPc \cup RemovePc \cup VerifyPc]
  /\ run \in [Proc -> Nat]
  /\ overtaken \in BOOLEAN
  /\ final \in Snapshot /\ staging \in Snapshot /\ receipt \in BOOLEAN
  /\ cmd \in [Proc -> {"install", "remove", "verify"}]
  /\ kills \in Nat
  /\ verified \in BOOLEAN
  /\ placedBy \in (Proc \cup {"nobody"}) \X Nat
  /\ unlocked \in BOOLEAN

Init ==
  /\ LockInit
  /\ final = "none" /\ staging = "none" /\ receipt = FALSE
  /\ cmd = [p \in Proc |-> "verify"]
  /\ kills = 0
  /\ verified = FALSE /\ placedBy = <<"nobody", 0>> /\ unlocked = FALSE

-----------------------------------------------------------------------------
(* Starting a command and taking the lock *)

Begin(p, c) ==
  /\ BeginAt(p, IF c = "verify" THEN "hash" ELSE "create")
  /\ cmd' = [cmd EXCEPT ![p] = c]
  /\ unlocked' = (unlocked \/ \E q \in Proc :
                    pc[q] # "idle" /\ (c = "verify" \/ cmd[q] = "verify"))
  /\ UNCHANGED <<fileVars, kills, verified, placedBy>>

Acquire(p) ==
  /\ \/ Create(p) \/ FileExists(p) \/ JudgeStale(p) \/ BreakStale(p) \/ Denied(p)
     \/ WriteText(p, IF cmd[p] = "install" THEN "check" ELSE "look")
     \/ WriteFails(p)
  /\ UNCHANGED <<fileVars, cmd, kills, histVars>>

\* One step of the body of a command.
Step(p, from, to) ==
  /\ pc[p] = from
  /\ Goto(p, to)
  /\ UNCHANGED <<lock, run, overtaken, cmd, kills, unlocked>>

-----------------------------------------------------------------------------
(* full_verify_and_write_receipt: hash, then write the receipt *)

\* Mutant of Hash: a mismatch is not looked at.
HashAnything(p, from, good, bad) ==
  /\ bad = bad
  /\ Step(p, from, good)
  /\ UNCHANGED <<fileVars, verified, placedBy>>

Hash(p, from, good, bad) ==
  /\ Step(p, from, IF final = "good" THEN good ELSE bad)
  /\ UNCHANGED <<fileVars, verified, placedBy>>

Note(p, from, to) ==
  /\ Step(p, from, to)
  /\ receipt' = TRUE
  /\ verified' = (verified \/ final = "good")
  /\ UNCHANGED <<final, staging, placedBy>>

NoteFails(p, from, to) ==
  /\ Step(p, from, to)
  /\ UNCHANGED <<fileVars, verified, placedBy>>

-----------------------------------------------------------------------------
(* install_model under the lock *)

\* A snapshot in place is verified and never overwritten; otherwise leftovers
\* of a crashed run are cleared and the download starts.
CheckPresent(p) ==
  /\ final # "none"
  /\ Step(p, "check", "hash_old")
  /\ UNCHANGED <<fileVars, verified, placedBy>>

\* Mutant of CheckAbsent: a snapshot in place may be downloaded again.
CheckNothing(p) ==
  /\ Step(p, "check", "download")
  /\ staging' = "none"
  /\ UNCHANGED <<final, receipt, verified, placedBy>>

CheckAbsent(p) ==
  /\ final = "none"
  /\ Step(p, "check", "download")
  /\ staging' = "none"
  /\ UNCHANGED <<final, receipt, verified, placedBy>>

\* snapshot_download into the staging directory.
Download(p) ==
  /\ Step(p, "download", "promote")
  /\ staging' \in {"good", "bad"}
  /\ UNCHANGED <<final, receipt, verified, placedBy>>

DownloadFails(p) ==
  /\ Step(p, "download", "failed")
  /\ staging' = "none"
  /\ UNCHANGED <<final, receipt, verified, placedBy>>

\* _remove_tree_best_effort tolerates files it cannot delete: some, or all.
BestEffort(tree) == IF tree = "none" THEN {"none"} ELSE {"none", "bad", tree}

\* _promote_staging: remove what is at the final place, then os.replace.
Promote(p) ==
  /\ staging # "none"
  /\ Step(p, "promote", "hash_new")
  /\ final' = staging /\ staging' = "none"
  /\ verified' = FALSE /\ placedBy' = <<p, run[p]>>
  /\ UNCHANGED <<receipt>>

PromoteFails(p) ==
  /\ Step(p, "promote", "failed")
  /\ final' \in BestEffort(final) /\ staging' = "none"
  /\ verified' = (verified /\ final' = "good")
  /\ UNCHANGED <<receipt, placedBy>>

\* Verification of the new snapshot failed: away with it and the receipt.
Scrap(p) ==
  /\ Step(p, "scrap", "forget_new")
  /\ final' \in BestEffort(final) /\ verified' = (verified /\ final' = "good")
  /\ UNCHANGED <<staging, receipt, placedBy>>

\* Mutant of Forget: the receipt stays.
ForgetNothing(p, from, to) ==
  /\ Step(p, from, to)
  /\ UNCHANGED <<fileVars, verified, placedBy>>

Forget(p, from, to) ==
  /\ Step(p, from, to)
  /\ receipt' = FALSE
  /\ UNCHANGED <<final, staging, verified, placedBy>>

Install(p) ==
  \/ CheckPresent(p) \/ CheckAbsent(p)
  \/ Hash(p, "hash_old", "note_old", "failed")
  \/ Note(p, "note_old", "installed") \/ NoteFails(p, "note_old", "failed")
  \/ Download(p) \/ DownloadFails(p)
  \/ Promote(p) \/ PromoteFails(p)
  \/ Hash(p, "hash_new", "note_new", "scrap")
  \/ Note(p, "note_new", "installed") \/ NoteFails(p, "note_new", "scrap")
  \/ Scrap(p) \/ Forget(p, "forget_new", "failed")

-----------------------------------------------------------------------------
(* remove_model under the lock *)

Look(p) ==
  /\ Step(p, "look", IF final = "none" THEN "removed" ELSE "rmtree")
  /\ UNCHANGED <<fileVars, verified, placedBy>>

\* The tree goes file by file: in between it is there and incomplete.
RemoveFiles(p) ==
  /\ Step(p, "rmtree", "rmdir")
  /\ final' \in BestEffort(final) /\ (final # "none" => final' # "none")
  /\ verified' = (verified /\ final' = "good")
  /\ UNCHANGED <<staging, receipt, placedBy>>

RemoveDir(p) ==
  /\ Step(p, "rmdir", "forget")
  /\ final' \in BestEffort(final) /\ verified' = (verified /\ final' = "good")
  /\ UNCHANGED <<staging, receipt, placedBy>>

RemoveModel(p) == Look(p) \/ RemoveFiles(p) \/ RemoveDir(p) \/ Forget(p, "forget", "removed")

-----------------------------------------------------------------------------
(* The end of a command *)

Leave(p) ==
  /\ \E label \in {"installed", "failed", "removed"} : Release(p, label)
  /\ UNCHANGED <<fileVars, cmd, kills, histVars>>

VerifyModel(p) ==
  Hash(p, "hash", "note", "idle") \/ Note(p, "note", "idle") \/ NoteFails(p, "note", "idle")

Die(p) ==
  /\ kills < MaxKills
  /\ Kill(p)
  /\ kills' = kills + 1
  /\ unlocked' = TRUE
  /\ UNCHANGED <<fileVars, cmd, verified, placedBy>>

TimePasses == Age /\ UNCHANGED <<fileVars, cmd, kills, histVars>>

Next ==
  \/ \E p \in Proc :
       \/ \E c \in Commands : Begin(p, c)
       \/ Acquire(p) \/ Install(p) \/ RemoveModel(p) \/ VerifyModel(p)
       \/ Leave(p) \/ Die(p)
  \/ TimePasses

Spec == Init /\ [][Next]_vars

-----------------------------------------------------------------------------
(* Properties *)

\* Two commands are inside the lock only after one of them lost its lock file to
\* a third party: a break between another's judging and unlinking, or a break
\* by age of an operation that took longer than stale_seconds.
ExclusionUnlessOvertaken ==
  ~overtaken => \A p, q \in Proc : Inside(p) /\ Inside(q) => p = q

\* models.py, safety invariant 4: install reports success only with a snapshot
\* in place that passed byte verification, and its receipt.
InstallTellsTruth ==
  ~overtaken =>
    \A p \in Proc : pc[p] = "installed" => final = "good" /\ verified /\ receipt

\* models.py, safety invariant 5: a verified snapshot goes away only through a
\* remove, or through the install that moved it there and could not finish.
VerifiedSurvives ==
  [][ verified /\ ~verified' /\ ~overtaken =>
        \E p \in Proc : /\ pc[p] # pc'[p]
                        /\ cmd[p] = "remove" \/ placedBy = <<p, run[p]>> ]_vars

\* With no command running, a receipt stands for a complete snapshot of good
\* bytes, if verify ran alone and nothing was killed.
RestReceiptSound ==
  (\A p \in Proc : pc[p] = "idle") /\ ~unlocked /\ ~overtaken =>
    (receipt => final = "good")

\* _lock.py: "Raises LockHeld if the lock is currently held by another live
\* process": two commands are never inside together.
MutualExclusion == \A p, q \in Proc : Inside(p) /\ Inside(q) => p = q

\* UnlimitedOcrBackend.availability: "runnable_now=True additionally requires a
\* local verification receipt", so that "stale / tampered snapshots fail early":
\* at rest, a snapshot with a receipt on file is a verified one.
AvailableMeansVerified ==
  (\A p \in Proc : pc[p] = "idle") /\ receipt /\ final # "none" => final = "good"
=============================================================================
