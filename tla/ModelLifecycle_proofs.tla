------------------------ MODULE ModelLifecycle_proofs ------------------------
(***************************************************************************)
(* Proofs about ModelLifecycle, for every set of processes, every bound and *)
(* both choices of SlowOps.                                                 *)
(***************************************************************************)
EXTENDS ModelLifecycle, TLAPS

USE LockAssumption, CommandAssumption
USE DEF LockAssumption, CommandAssumption

-----------------------------------------------------------------------------
(* Types *)

Pcs == {"idle"} \cup Acquiring \cup InstallPc \cup RemovePc \cup VerifyPc

LEMMA TypeInit == Init => TypeOK
<1> SUFFICES ASSUME Init PROVE TypeOK
    OBVIOUS
<1>1. \A p \in Proc : pc[p] = "idle"
      BY DEF Init, LockInit
<1>2. Assigned
      BY <1>1 DEF Assigned, Acquiring, InstallPc, RemovePc
<1> QED
  BY <1>2 DEF Init, LockInit, Free, TypeOK, Snapshot

\* A step within the body of a command: the rest of TypeOK is about the files.
LEMMA BodyType ==
  ASSUME TypeOK, NEW p \in Proc, NEW from, NEW to \in Pcs, Step(p, from, to),
         to \notin Acquiring,
         to \in InstallPc => cmd[p] = "install",
         to \in RemovePc => cmd[p] = "remove",
         final' \in Snapshot, staging' \in Snapshot, receipt' \in BOOLEAN,
         verified' \in BOOLEAN,
         placedBy' \in (Proc \cup {"nobody"}) \X Nat
  PROVE  TypeOK'
<1>1. pc' = [pc EXCEPT ![p] = to] /\ UNCHANGED <<lock, run, overtaken, cmd, kills, unlocked>>
      BY DEF Step, Goto
<1>2. pc' \in [Proc -> Pcs]
      BY <1>1 DEF TypeOK, Pcs
<1>3. Assigned'
      BY <1>1 DEF TypeOK, Assigned
<1> QED
  BY <1>1, <1>2, <1>3 DEF TypeOK, Pcs

LEMMA BodyTypes ==
  ASSUME TypeOK, NEW p \in Proc, Install(p) \/ RemoveModel(p) \/ VerifyModel(p)
  PROVE  TypeOK'
<1>1. /\ final \in Snapshot /\ staging \in Snapshot /\ receipt \in BOOLEAN
      /\ verified \in BOOLEAN /\ run[p] \in Nat
      /\ placedBy \in (Proc \cup {"nobody"}) \X Nat
      BY DEF TypeOK
<1>2. /\ pc[p] \in InstallPc => cmd[p] = "install"
      /\ pc[p] \in RemovePc => cmd[p] = "remove"
      BY DEF TypeOK, Assigned
<1> USE DEF Pcs, Acquiring, InstallPc, RemovePc, VerifyPc, Snapshot, fileVars
<1>3. CASE Install(p)
  <2>1. CASE CheckPresent(p)
        BY <2>1, <1>1, <1>2, BodyType DEF CheckPresent, Step
  <2>2. CASE CheckAbsent(p)
        BY <2>2, <1>1, <1>2, BodyType DEF CheckAbsent, Step
  <2>3. CASE Hash(p, "hash_old", "note_old", "failed")
    <3>1. PICK to \in {"note_old", "failed"} : Step(p, "hash_old", to)
          BY <2>3 DEF Hash
    <3> QED
      BY <2>3, <3>1, <1>1, <1>2, BodyType DEF Hash, Step
  <2>4. CASE Note(p, "note_old", "installed")
        BY <2>4, <1>1, <1>2, BodyType DEF Note, Step
  <2>5. CASE NoteFails(p, "note_old", "failed")
        BY <2>5, <1>1, <1>2, BodyType DEF NoteFails, Step
  <2>6. CASE Download(p)
        BY <2>6, <1>1, <1>2, BodyType DEF Download, Step
  <2>7. CASE DownloadFails(p)
        BY <2>7, <1>1, <1>2, BodyType DEF DownloadFails, Step
  <2>8. CASE Promote(p)
        BY <2>8, <1>1, <1>2, BodyType DEF Promote, Step
  <2>9. CASE PromoteFails(p)
    <3>1. verified' = (verified /\ final' = "good")
          BY <2>9 DEF PromoteFails
    <3>2. verified' \in BOOLEAN
          BY <3>1, Zenon
    <3> QED
      BY <2>9, <3>2, <1>1, <1>2, BodyType DEF PromoteFails, Step, BestEffort
  <2>10. CASE Hash(p, "hash_new", "note_new", "scrap")
    <3>1. PICK to \in {"note_new", "scrap"} : Step(p, "hash_new", to)
          BY <2>10 DEF Hash
    <3> QED
      BY <2>10, <3>1, <1>1, <1>2, BodyType DEF Hash, Step
  <2>11. CASE Note(p, "note_new", "installed")
        BY <2>11, <1>1, <1>2, BodyType DEF Note, Step
  <2>12. CASE NoteFails(p, "note_new", "scrap")
        BY <2>12, <1>1, <1>2, BodyType DEF NoteFails, Step
  <2>13. CASE Scrap(p)
    <3>1. verified' = (verified /\ final' = "good")
          BY <2>13 DEF Scrap
    <3>2. verified' \in BOOLEAN
          BY <3>1, Zenon
    <3> QED
      BY <2>13, <3>2, <1>1, <1>2, BodyType DEF Scrap, Step, BestEffort
  <2>14. CASE Forget(p, "forget_new", "failed")
        BY <2>14, <1>1, <1>2, BodyType DEF Forget, Step
  <2> QED
    BY <1>3, <2>1, <2>2, <2>3, <2>4, <2>5, <2>6, <2>7, <2>8, <2>9, <2>10, <2>11, <2>12, <2>13, <2>14 DEF Install
<1>4. CASE RemoveModel(p)
  <2>1. CASE Look(p)
    <3>1. PICK to \in {"removed", "rmtree"} : Step(p, "look", to)
          BY <2>1 DEF Look
    <3> QED
      BY <2>1, <3>1, <1>1, <1>2, BodyType DEF Look, Step
  <2>2. CASE RemoveFiles(p)
    <3>1. verified' = (verified /\ final' = "good")
          BY <2>2 DEF RemoveFiles
    <3>2. verified' \in BOOLEAN
          BY <3>1, Zenon
    <3> QED
      BY <2>2, <3>2, <1>1, <1>2, BodyType DEF RemoveFiles, Step, BestEffort
  <2>3. CASE RemoveDir(p)
    <3>1. verified' = (verified /\ final' = "good")
          BY <2>3 DEF RemoveDir
    <3>2. verified' \in BOOLEAN
          BY <3>1, Zenon
    <3> QED
      BY <2>3, <3>2, <1>1, <1>2, BodyType DEF RemoveDir, Step, BestEffort
  <2>4. CASE Forget(p, "forget", "removed")
        BY <2>4, <1>1, <1>2, BodyType DEF Forget, Step
  <2> QED
    BY <1>4, <2>1, <2>2, <2>3, <2>4 DEF RemoveModel
<1>5. CASE VerifyModel(p)
  <2>1. CASE Hash(p, "hash", "note", "idle")
    <3>1. PICK to \in {"note", "idle"} : Step(p, "hash", to)
          BY <2>1 DEF Hash
    <3> QED
      BY <2>1, <3>1, <1>1, <1>2, BodyType DEF Hash, Step
  <2>2. CASE Note(p, "note", "idle")
        BY <2>2, <1>1, <1>2, BodyType DEF Note, Step
  <2>3. CASE NoteFails(p, "note", "idle")
        BY <2>3, <1>1, <1>2, BodyType DEF NoteFails, Step
  <2> QED
    BY <1>5, <2>1, <2>2, <2>3 DEF VerifyModel
<1> QED
  BY <1>3, <1>4, <1>5

LEMMA TypeStep == TypeOK /\ [Next]_vars => TypeOK'
<1> SUFFICES ASSUME TypeOK, [Next]_vars PROVE TypeOK'
    OBVIOUS
<1> USE DEF TypeOK, Assigned, Pcs, Acquiring, InstallPc, RemovePc, VerifyPc, Goto,
            UnlinkFile, Snapshot, fileVars, histVars
<1>1. ASSUME NEW p \in Proc, NEW c \in Commands, Begin(p, c) PROVE TypeOK'
      BY <1>1 DEF Begin, BeginAt
<1>2. ASSUME NEW p \in Proc, Acquire(p) PROVE TypeOK'
  <2> USE DEF Acquire
  <2>1. CASE Create(p)
        BY <1>2, <2>1 DEF Create, File
  <2>2. CASE FileExists(p)
        BY <1>2, <2>2 DEF FileExists
  <2>3. CASE JudgeStale(p)
        BY <1>2, <2>3 DEF JudgeStale
  <2>4. CASE BreakStale(p)
        BY <1>2, <2>4 DEF BreakStale, Free
  <2>5. CASE Denied(p)
        BY <1>2, <2>5 DEF Denied
  <2>6. CASE WriteText(p, IF cmd[p] = "install" THEN "check" ELSE "look")
    <3>1. lock' \in [owner : Proc \cup {"nobody"}, run : Nat, text : BOOLEAN, old : BOOLEAN]
          BY <2>6 DEF WriteText
    <3>2. pc' = [pc EXCEPT ![p] = IF cmd[p] = "install" THEN "check" ELSE "look"]
          BY <2>6 DEF WriteText
    <3>3. CASE cmd[p] = "install"
          BY <1>2, <2>6, <3>1, <3>2, <3>3 DEF WriteText
    <3>4. CASE cmd[p] # "install"
          BY <1>2, <2>6, <3>1, <3>2, <3>4 DEF WriteText
    <3> QED
      BY <3>3, <3>4
  <2>7. CASE WriteFails(p)
        BY <1>2, <2>7 DEF WriteFails, Free
  <2> QED
    BY <1>2, <2>1, <2>2, <2>3, <2>4, <2>5, <2>6, <2>7
<1>6. ASSUME NEW p \in Proc, Leave(p) PROVE TypeOK'
      BY <1>6 DEF Leave, Release, Free
<1>7. ASSUME NEW p \in Proc, Die(p) PROVE TypeOK'
      BY <1>7 DEF Die, Kill
<1>8. CASE TimePasses
      BY <1>8 DEF TimePasses, Age
<1>9. CASE UNCHANGED vars
      BY <1>9 DEF vars, lockVars
<1> QED
  BY <1>1, <1>2, <1>6, <1>7, <1>8, <1>9, BodyTypes DEF Next

\* All variables of the lifecycle keep their types.
THEOREM TypeCorrect == Spec => []TypeOK
<1>1. Spec => []TypeOK
      BY TypeInit, TypeStep, PTL DEF Spec
<1> QED
  BY <1>1, PTL DEF TypeOK

-----------------------------------------------------------------------------
(* The inductive invariant *)

\* While nobody was overtaken, a command inside the lock owns the lock file.
Owned == ~overtaken => \A p \in Proc : Inside(p) => Mine(p)

\* What a command inside the lock relies on between its steps.
Relied(p) ==
  /\ pc[p] \in {"note_old", "note_new"} => final = "good"
  /\ pc[p] = "installed" => final = "good" /\ verified /\ receipt
  /\ pc[p] \in {"download", "promote"} => final = "none"
  /\ pc[p] \in {"hash_new", "note_new", "scrap"} => placedBy = <<p, run[p]>>

\* A verify that ran alone is the only command there is.
Alone == /\ \A p \in Proc : pc[p] \in VerifyPc => cmd[p] = "verify"
         /\ ~unlocked => \A p, q \in Proc :
                           pc[p] \in VerifyPc /\ pc[q] # "idle" => p = q

\* A receipt of a snapshot that is not good is about to be removed.
Receipted ==
  ~overtaken /\ ~unlocked =>
    /\ receipt => \/ final = "good"
                  \/ \E p \in Proc : pc[p] \in {"rmdir", "forget", "forget_new"}
    /\ \A p \in Proc : pc[p] = "note" => final = "good"

IInv ==
  /\ TypeOK
  /\ Owned
  /\ verified => final = "good"
  /\ ~overtaken => \A p \in Proc : Relied(p)
  /\ Alone
  /\ Receipted

LEMMA InvInit == Init => IInv
<1> SUFFICES ASSUME Init PROVE IInv
    OBVIOUS
<1>1. \A p \in Proc : pc[p] = "idle"
      BY DEF Init, LockInit
<1> QED
  BY <1>1, TypeInit DEF Init, IInv, Owned, Inside, Locked, InstallPc, RemovePc, VerifyPc,
                        Relied, Alone, Receipted

\* The lock does its work for as long as nobody was overtaken.
LEMMA OneInside ==
  ASSUME IInv, ~overtaken, NEW p \in Proc, NEW q \in Proc, Inside(p), Inside(q)
  PROVE  p = q
  BY DEF IInv, Owned, Mine

LEMMA OwnedStep == IInv /\ [Next]_vars => Owned'
<1> SUFFICES ASSUME IInv, [Next]_vars, ~overtaken', NEW q \in Proc, Inside(q)'
             PROVE  Mine(q)'
    BY DEF Owned
<1> USE DEF IInv, TypeOK, Owned, Inside, Locked, InstallPc, RemovePc, Mine, Goto
<1>1. ASSUME NEW p \in Proc, NEW c \in Commands, Begin(p, c) PROVE Mine(q)'
      BY <1>1 DEF Begin, BeginAt
<1>2. ASSUME NEW p \in Proc, UnlinkFile(p), run' = run,
             Inside(q)' => Inside(q) /\ q # p
      PROVE  FALSE
      BY <1>2 DEF UnlinkFile, HolderLives
<1>3. ASSUME NEW p \in Proc, Acquire(p) PROVE Mine(q)'
  <2>1. CASE Create(p)
        BY <2>1 DEF Create, File, Exists, Free
  <2>2. CASE FileExists(p) \/ JudgeStale(p) \/ Denied(p)
        BY <2>2 DEF FileExists, JudgeStale, Denied
  <2>3. CASE BreakStale(p)
        BY <2>3, <1>2 DEF BreakStale
  <2>4. CASE WriteText(p, IF cmd[p] = "install" THEN "check" ELSE "look")
        BY <2>4 DEF WriteText
  <2>5. CASE WriteFails(p)
        BY <2>5, <1>2 DEF WriteFails
  <2> QED
    BY <1>3, <2>1, <2>2, <2>3, <2>4, <2>5 DEF Acquire
<1>4. ASSUME NEW p \in Proc, NEW from, NEW to, Step(p, from, to), from \in Locked
      PROVE  Mine(q)'
      BY <1>4 DEF Step
<1>5. ASSUME NEW p \in Proc, Install(p) \/ RemoveModel(p) PROVE Mine(q)'
  <2>1. PICK from \in Locked : \E to : Step(p, from, to)
        BY <1>5 DEF Install, RemoveModel, CheckPresent, CheckAbsent, Hash, Note, NoteFails,
                    Download, DownloadFails, Promote, PromoteFails, Scrap, Forget, Look,
                    RemoveFiles, RemoveDir
  <2> QED
    BY <2>1, <1>4
<1>6. ASSUME NEW p \in Proc, VerifyModel(p) PROVE Mine(q)'
      BY <1>6 DEF VerifyModel, Hash, Note, NoteFails, Step
<1>7. ASSUME NEW p \in Proc, Leave(p) PROVE Mine(q)'
      BY <1>7, <1>2 DEF Leave, Release
<1>8. ASSUME NEW p \in Proc, Die(p) PROVE Mine(q)'
      BY <1>8 DEF Die, Kill
<1>9. CASE TimePasses
      BY <1>9 DEF TimePasses, Age
<1>10. CASE UNCHANGED vars
      BY <1>10 DEF vars, lockVars
<1> QED
  BY <1>1, <1>3, <1>5, <1>6, <1>7, <1>8, <1>9, <1>10 DEF Next

LEMMA AloneStep == IInv /\ [Next]_vars => Alone'
<1> SUFFICES ASSUME IInv, [Next]_vars PROVE Alone'
    OBVIOUS
<1> USE DEF IInv, TypeOK, Alone, VerifyPc, Goto
<1>1. ASSUME NEW p \in Proc, NEW c \in Commands, Begin(p, c) PROVE Alone'
      BY <1>1 DEF Begin, BeginAt
<1>2. ASSUME NEW p \in Proc, NEW label, pc[p] # "idle", Goto(p, label), cmd' = cmd,
             unlocked => unlocked',
             label \in VerifyPc => pc[p] \in VerifyPc
      PROVE  Alone'
      BY <1>2
<1>3. ASSUME NEW p \in Proc, Acquire(p) PROVE Alone'
  <2>1. PICK label : Goto(p, label) /\ label \notin VerifyPc
        BY <1>3 DEF Acquire, Create, FileExists, JudgeStale, BreakStale, Denied, WriteText, WriteFails
  <2>2. pc[p] # "idle"
        BY <1>3 DEF Acquire, Create, FileExists, JudgeStale, BreakStale, Denied, WriteText, WriteFails
  <2> QED
    BY <1>3, <2>1, <2>2, <1>2 DEF Acquire, histVars
<1>4. ASSUME NEW p \in Proc, Install(p) \/ RemoveModel(p) \/ VerifyModel(p) PROVE Alone'
  <2>1. PICK from, to : /\ Step(p, from, to) /\ from # "idle"
                        /\ to \in VerifyPc => from \in VerifyPc
        BY <1>4 DEF Install, RemoveModel, VerifyModel, CheckPresent, CheckAbsent, Hash, Note,
                    NoteFails, Download, DownloadFails, Promote, PromoteFails, Scrap, Forget,
                    Look, RemoveFiles, RemoveDir
  <2> QED
    BY <2>1, <1>2 DEF Step
<1>5. ASSUME NEW p \in Proc, Leave(p) PROVE Alone'
      BY <1>5, <1>2 DEF Leave, Release, histVars
<1>6. ASSUME NEW p \in Proc, Die(p) PROVE Alone'
      BY <1>6, <1>2 DEF Die, Kill
<1>7. CASE TimePasses \/ UNCHANGED vars
      BY <1>7 DEF TimePasses, Age, vars, lockVars, histVars
<1> QED
  BY <1>1, <1>3, <1>4, <1>5, <1>6, <1>7 DEF Next

-----------------------------------------------------------------------------
(* The files *)

\* What the steps do to the snapshot and its receipt.
FilesInv == /\ verified => final = "good"
            /\ ~overtaken => \A p \in Proc : Relied(p)
            /\ Receipted

\* A step inside the lock disturbs nobody else.
LEMMA BodyFiles ==
  ASSUME IInv, NEW p \in Proc, NEW from \in Locked, NEW to \in Locked, Step(p, from, to),
         verified' => final' = "good",
         ~overtaken => Relied(p)',
         ~overtaken /\ ~unlocked /\ receipt' =>
            final' = "good" \/ to \in {"rmdir", "forget", "forget_new"}
  PROVE  FilesInv'
<1> USE DEF IInv, TypeOK, Step, Goto
<1>1. ASSUME ~overtaken', NEW q \in Proc PROVE Relied(q)'
  <2>1. CASE q # p
    <3>1. ~Inside(q)
          BY <1>1, <2>1, OneInside DEF Inside
    <3>2. pc'[q] = pc[q]
          BY <2>1
    <3> QED
      BY <3>1, <3>2 DEF Relied, Inside, Locked, InstallPc
  <2> QED
    BY <1>1, <2>1
<1>2. Receipted'
  <2> SUFFICES ASSUME ~overtaken', ~unlocked' PROVE Receipted'
      BY DEF Receipted
  <2>1. \A q \in Proc : pc'[q] # "note"
        BY DEF Alone, VerifyPc, Locked, InstallPc, RemovePc
  <2>2. pc'[p] = to
        OBVIOUS
  <2> QED
    BY <2>1, <2>2 DEF Receipted
<1> QED
  BY <1>1, <1>2 DEF FilesInv

\* A step that leaves the files alone, and that takes p out of its command or
\* to a place where nothing is relied on yet.
LEMMA QuietFiles ==
  ASSUME IInv, NEW p \in Proc, UNCHANGED <<final, receipt, verified, placedBy>>,
         overtaken => overtaken', unlocked => unlocked',
         NEW to, Goto(p, to),
         to \in {"idle", "hash", "check", "look", "write"} \cup Acquiring,
         \A q \in Proc : q # p => run'[q] = run[q],
         pc[p] \in {"rmdir", "forget", "forget_new"} => unlocked'
  PROVE  FilesInv'
<1> USE DEF IInv, TypeOK, Goto, Acquiring
<1>1. ASSUME ~overtaken', NEW q \in Proc PROVE Relied(q)'
  <2>1. CASE q # p
        BY <1>1, <2>1 DEF Relied
  <2>2. CASE q = p
        BY <2>2 DEF Relied
  <2> QED
    BY <2>1, <2>2
<1>2. Receipted'
  <2> SUFFICES ASSUME ~overtaken', ~unlocked' PROVE Receipted'
      BY DEF Receipted
  <2>1. receipt' => \/ final' = "good"
                    \/ \E q \in Proc : pc'[q] \in {"rmdir", "forget", "forget_new"}
    <3> SUFFICES ASSUME receipt, final # "good"
                 PROVE  \E q \in Proc : pc'[q] \in {"rmdir", "forget", "forget_new"}
        OBVIOUS
    <3>1. PICK q \in Proc : pc[q] \in {"rmdir", "forget", "forget_new"}
          BY DEF Receipted
    <3>2. pc'[q] = pc[q]
          BY <3>1
    <3> QED
      BY <3>1, <3>2
  <2>2. ASSUME NEW q \in Proc, pc'[q] = "note" PROVE final' = "good"
        BY <2>2 DEF Receipted
  <2> QED
    BY <2>1, <2>2 DEF Receipted
<1> QED
  BY <1>1, <1>2 DEF FilesInv

LEMMA InstallFiles ==
  ASSUME IInv, NEW p \in Proc, Install(p)
  PROVE  FilesInv'
<1>1. /\ verified => final = "good"
      /\ ~overtaken => Relied(p)
      BY DEF IInv
<1>2. \A from, to : Step(p, from, to) => pc[p] = from /\ pc'[p] = to /\ run' = run
      BY DEF IInv, TypeOK, Step, Goto
    \* A receipt is there for a good snapshot as long as nobody is cleaning up.
<1>3. ~overtaken /\ ~unlocked /\ receipt /\ Inside(p) =>
         final = "good" \/ pc[p] \in {"rmdir", "forget", "forget_new"}
      BY OneInside DEF IInv, Receipted, Inside, Locked, InstallPc, RemovePc
<1>4. Inside(p)
      BY DEF Install, CheckPresent, CheckAbsent, Hash, Note, NoteFails, Download, DownloadFails,
             Promote, PromoteFails, Scrap, Forget, Step, Inside, Locked, InstallPc
<1> USE DEF Relied, Locked, InstallPc, fileVars
<1>5. CASE CheckPresent(p)
      BY <1>5, <1>1, <1>2, <1>3, <1>4, BodyFiles DEF CheckPresent
<1>6. CASE CheckAbsent(p)
      BY <1>6, <1>1, <1>2, <1>3, <1>4, BodyFiles DEF CheckAbsent
<1>7. CASE Hash(p, "hash_old", "note_old", "failed")
  <2>1. CASE final = "good"
        BY <1>7, <2>1, <1>1, <1>2, <1>3, <1>4, BodyFiles DEF Hash
  <2>2. CASE final # "good"
        BY <1>7, <2>2, <1>1, <1>2, <1>3, <1>4, BodyFiles DEF Hash
  <2> QED
    BY <2>1, <2>2
<1>8. CASE Note(p, "note_old", "installed")
  <2>1. Step(p, "note_old", "installed") /\ final' = final /\ receipt'
        BY <1>8 DEF Note
  <2>2. verified' = (verified \/ final = "good")
        BY <1>8 DEF Note
  <2>3. verified' => final' = "good"
        BY <2>1, <2>2, <1>1
  <2>4. ~overtaken => final = "good"
        BY <2>1, <1>1, <1>2
  <2>5. ~overtaken => verified'
        BY <2>2, <2>4, Zenon
  <2>6. ~overtaken => Relied(p)'
        BY <2>1, <2>4, <2>5, <1>2
  <2> QED
    BY <2>1, <2>3, <2>4, <2>6, BodyFiles
<1>9. CASE NoteFails(p, "note_old", "failed")
      BY <1>9, <1>1, <1>2, <1>3, <1>4, BodyFiles DEF NoteFails
<1>10. CASE Download(p)
      BY <1>10, <1>1, <1>2, <1>3, <1>4, BodyFiles DEF Download
<1>11. CASE DownloadFails(p)
      BY <1>11, <1>1, <1>2, <1>3, <1>4, BodyFiles DEF DownloadFails
<1>12. CASE Promote(p)
      BY <1>12, <1>1, <1>2, <1>3, <1>4, BodyFiles DEF Promote
<1>13. CASE PromoteFails(p)
  <2>1. Step(p, "promote", "failed") /\ final' \in BestEffort(final) /\ receipt' = receipt
        BY <1>13 DEF PromoteFails
  <2>2. verified' = (verified /\ final' = "good")
        BY <1>13 DEF PromoteFails
  <2>3. verified' => final' = "good"
        BY <2>2, Zenon
  <2> QED
    BY <1>13, <2>1, <2>3, <1>1, <1>2, <1>3, <1>4, BodyFiles DEF PromoteFails, BestEffort
<1>14. CASE Hash(p, "hash_new", "note_new", "scrap")
  <2>1. CASE final = "good"
        BY <1>14, <2>1, <1>1, <1>2, <1>3, <1>4, BodyFiles DEF Hash
  <2>2. CASE final # "good"
        BY <1>14, <2>2, <1>1, <1>2, <1>3, <1>4, BodyFiles DEF Hash
  <2> QED
    BY <2>1, <2>2
<1>15. CASE Note(p, "note_new", "installed")
  <2>1. Step(p, "note_new", "installed") /\ final' = final /\ receipt'
        BY <1>15 DEF Note
  <2>2. verified' = (verified \/ final = "good")
        BY <1>15 DEF Note
  <2>3. verified' => final' = "good"
        BY <2>1, <2>2, <1>1
  <2>4. ~overtaken => final = "good"
        BY <2>1, <1>1, <1>2
  <2>5. ~overtaken => verified'
        BY <2>2, <2>4, Zenon
  <2>6. ~overtaken => Relied(p)'
        BY <2>1, <2>4, <2>5, <1>2
  <2> QED
    BY <2>1, <2>3, <2>4, <2>6, BodyFiles
<1>16. CASE NoteFails(p, "note_new", "scrap")
      BY <1>16, <1>1, <1>2, <1>3, <1>4, BodyFiles DEF NoteFails
<1>17. CASE Scrap(p)
  <2>1. Step(p, "scrap", "forget_new") /\ final' \in BestEffort(final) /\ receipt' = receipt
        BY <1>17 DEF Scrap
  <2>2. verified' = (verified /\ final' = "good")
        BY <1>17 DEF Scrap
  <2>3. verified' => final' = "good"
        BY <2>2, Zenon
  <2> QED
    BY <1>17, <2>1, <2>3, <1>1, <1>2, <1>3, <1>4, BodyFiles DEF Scrap, BestEffort
<1>18. CASE Forget(p, "forget_new", "failed")
      BY <1>18, <1>1, <1>2, <1>3, <1>4, BodyFiles DEF Forget
<1> QED
  BY <1>5, <1>6, <1>7, <1>8, <1>9, <1>10, <1>11, <1>12, <1>13, <1>14, <1>15, <1>16, <1>17, <1>18 DEF Install

LEMMA RemoveFilesInv ==
  ASSUME IInv, NEW p \in Proc, RemoveModel(p)
  PROVE  FilesInv'
<1>1. /\ verified => final = "good"
      /\ ~overtaken => Relied(p)
      BY DEF IInv
<1>2. \A from, to : Step(p, from, to) => pc[p] = from /\ pc'[p] = to /\ run' = run
      BY DEF IInv, TypeOK, Step, Goto
<1>3. ~overtaken /\ ~unlocked /\ receipt /\ Inside(p) =>
         final = "good" \/ pc[p] \in {"rmdir", "forget", "forget_new"}
      BY OneInside DEF IInv, Receipted, Inside, Locked, InstallPc, RemovePc
<1>4. Inside(p)
      BY DEF RemoveModel, Look, RemoveFiles, RemoveDir, Forget, Step, Inside, Locked, RemovePc
<1> USE DEF Relied, Locked, RemovePc, fileVars
<1>5. CASE Look(p)
  <2>1. CASE final = "none"
        BY <1>5, <2>1, <1>1, <1>2, <1>3, <1>4, BodyFiles DEF Look
  <2>2. CASE final # "none"
        BY <1>5, <2>2, <1>1, <1>2, <1>3, <1>4, BodyFiles DEF Look
  <2> QED
    BY <2>1, <2>2
<1>6. CASE RemoveFiles(p)
  <2>1. Step(p, "rmtree", "rmdir") /\ final' \in BestEffort(final) /\ receipt' = receipt
        BY <1>6 DEF RemoveFiles
  <2>2. verified' = (verified /\ final' = "good")
        BY <1>6 DEF RemoveFiles
  <2>3. verified' => final' = "good"
        BY <2>2, Zenon
  <2> QED
    BY <1>6, <2>1, <2>3, <1>1, <1>2, <1>3, <1>4, BodyFiles DEF RemoveFiles, BestEffort
<1>7. CASE RemoveDir(p)
  <2>1. Step(p, "rmdir", "forget") /\ final' \in BestEffort(final) /\ receipt' = receipt
        BY <1>7 DEF RemoveDir
  <2>2. verified' = (verified /\ final' = "good")
        BY <1>7 DEF RemoveDir
  <2>3. verified' => final' = "good"
        BY <2>2, Zenon
  <2> QED
    BY <1>7, <2>1, <2>3, <1>1, <1>2, <1>3, <1>4, BodyFiles DEF RemoveDir, BestEffort
<1>8. CASE Forget(p, "forget", "removed")
      BY <1>8, <1>1, <1>2, <1>3, <1>4, BodyFiles DEF Forget
<1> QED
  BY <1>5, <1>6, <1>7, <1>8 DEF RemoveModel

LEMMA VerifyFiles ==
  ASSUME IInv, NEW p \in Proc, VerifyModel(p)
  PROVE  FilesInv'
<1> USE DEF IInv, TypeOK, Step, Goto, fileVars
<1>1. CASE Hash(p, "hash", "note", "idle")
  <2>1. UNCHANGED <<final, receipt, verified, placedBy, run, overtaken, unlocked>>
        BY <1>1 DEF Hash
  <2>2. pc[p] = "hash" /\ pc' = [pc EXCEPT ![p] = IF final = "good" THEN "note" ELSE "idle"]
        BY <1>1 DEF Hash
  <2>3. ASSUME ~overtaken', NEW q \in Proc PROVE Relied(q)'
    <3>1. CASE q # p
          BY <2>1, <2>2, <2>3, <3>1 DEF Relied
    <3>2. CASE q = p
          BY <2>2, <3>2 DEF Relied
    <3> QED
      BY <3>1, <3>2
  <2>4. Receipted'
        BY <2>1, <2>2 DEF Receipted
  <2> QED
    BY <2>1, <2>3, <2>4 DEF FilesInv
<1>2. CASE Note(p, "note", "idle")
  <2>1. /\ UNCHANGED <<final, placedBy, run, overtaken, unlocked>> /\ receipt'
        /\ pc[p] = "note" /\ pc' = [pc EXCEPT ![p] = "idle"]
        BY <1>2 DEF Note
  <2>2. verified' = (verified \/ final = "good")
        BY <1>2 DEF Note
  <2>3. (verified => verified') /\ (verified' => final' = "good")
        BY <2>1, <2>2, Zenon
  <2>4. ASSUME ~overtaken', NEW q \in Proc PROVE Relied(q)'
    <3>1. CASE q # p
          BY <2>1, <2>3, <2>4, <3>1 DEF Relied
    <3>2. CASE q = p
          BY <2>1, <3>2 DEF Relied
    <3> QED
      BY <3>1, <3>2
  <2>5. Receipted'
        BY <2>1 DEF Receipted
  <2> QED
    BY <2>3, <2>4, <2>5 DEF FilesInv
<1>3. CASE NoteFails(p, "note", "idle")
      BY <1>3, QuietFiles DEF NoteFails
<1> QED
  BY <1>1, <1>2, <1>3 DEF VerifyModel

LEMMA FilesStep == IInv /\ [Next]_vars => FilesInv'
<1> SUFFICES ASSUME IInv, [Next]_vars PROVE FilesInv'
    OBVIOUS
<1> USE DEF fileVars, histVars, Acquiring, UnlinkFile
<1>1. ASSUME NEW p \in Proc, NEW c \in Commands, Begin(p, c) PROVE FilesInv'
  <2>1. /\ pc[p] = "idle" /\ UNCHANGED <<final, receipt, verified, placedBy>>
        /\ overtaken' = overtaken /\ (unlocked => unlocked')
        /\ \A q \in Proc : q # p => run'[q] = run[q]
        BY <1>1 DEF Begin, BeginAt, IInv, TypeOK
  <2>2. PICK to \in {"hash", "create"} : Goto(p, to)
        BY <1>1 DEF Begin, BeginAt
  <2> QED
    BY <2>1, <2>2, QuietFiles
<1>2. ASSUME NEW p \in Proc, Acquire(p) PROVE FilesInv'
  <2>1. /\ UNCHANGED <<final, receipt, verified, placedBy, unlocked, run>>
        /\ pc[p] \notin {"rmdir", "forget", "forget_new"}
        BY <1>2 DEF Acquire, Create, FileExists, JudgeStale, BreakStale, Denied, WriteText, WriteFails
  <2>2. overtaken => overtaken'
        BY <1>2, Zenon DEF Acquire, Create, FileExists, JudgeStale, BreakStale, Denied,
                           WriteText, WriteFails
  <2>3. PICK to \in {"write", "judge", "unlink", "recreate", "idle", "check", "look"} : Goto(p, to)
    <3>1. CASE WriteText(p, IF cmd[p] = "install" THEN "check" ELSE "look")
          BY <3>1 DEF WriteText
    <3> QED
      BY <1>2, <3>1 DEF Acquire, Create, FileExists, JudgeStale, BreakStale, Denied, WriteFails
  <2> QED
    BY <2>1, <2>2, <2>3, QuietFiles
<1>3. ASSUME NEW p \in Proc, Leave(p) PROVE FilesInv'
      BY <1>3, QuietFiles DEF Leave, Release
<1>4. ASSUME NEW p \in Proc, Die(p) PROVE FilesInv'
      BY <1>4, QuietFiles DEF Die, Kill
<1>5. CASE TimePasses \/ UNCHANGED vars
      BY <1>5 DEF TimePasses, Age, vars, lockVars, FilesInv, IInv, Relied, Receipted
<1> QED
  BY <1>1, <1>2, <1>3, <1>4, <1>5, InstallFiles, RemoveFilesInv, VerifyFiles DEF Next

LEMMA InvStep == IInv /\ [Next]_vars => IInv'
  BY TypeStep, OwnedStep, AloneStep, FilesStep DEF IInv, FilesInv

LEMMA Invariance == Spec => []IInv
  BY InvInit, InvStep, PTL DEF Spec

-----------------------------------------------------------------------------
(* What the model lock and the lifecycle commands promise *)

\* Two commands meet inside the lock only after a live one was overtaken.
THEOREM Exclusion == Spec => []ExclusionUnlessOvertaken
<1>1. IInv => ExclusionUnlessOvertaken
      BY OneInside DEF ExclusionUnlessOvertaken
<1> QED
  BY <1>1, Invariance, PTL

\* An install that reports success left a verified snapshot and its receipt.
THEOREM InstallSound == Spec => []InstallTellsTruth
<1>1. IInv => InstallTellsTruth
      BY DEF IInv, Relied, InstallTellsTruth
<1> QED
  BY <1>1, Invariance, PTL

\* At rest a receipt stands for a good snapshot, if no verify raced a command
\* and nothing was killed.
THEOREM ReceiptSound == Spec => []RestReceiptSound
<1>1. IInv => RestReceiptSound
      BY DEF IInv, Receipted, RestReceiptSound
<1> QED
  BY <1>1, Invariance, PTL

\* No step but one of a remove, or of the install that placed it, takes a
\* verified snapshot away.
THEOREM VerifiedKept == Spec => VerifiedSurvives
<1> DEFINE Kept == verified /\ ~verified' /\ ~overtaken =>
                     \E p \in Proc : /\ pc[p] # pc'[p]
                                     /\ cmd[p] = "remove" \/ placedBy = <<p, run[p]>>
<1>1. ASSUME IInv, [Next]_vars PROVE [Kept]_vars
  <2> SUFFICES ASSUME verified, ~verified', ~overtaken, Next
               PROVE  \E p \in Proc : /\ pc[p] # pc'[p]
                                      /\ cmd[p] = "remove" \/ placedBy = <<p, run[p]>>
      BY <1>1 DEF vars, histVars
  <2> USE <1>1 DEF IInv
  <2>1. ASSUME NEW p \in Proc, NEW from, NEW to, Step(p, from, to), from # to
        PROVE  pc[p] = from /\ pc[p] # pc'[p]
        BY <2>1 DEF Step, Goto, TypeOK
  <2>2. PICK p \in Proc : Install(p) \/ RemoveModel(p) \/ VerifyModel(p)
        BY DEF Next, Begin, Acquire, Leave, Die, TimePasses, histVars
  <2>3. CASE Install(p)
    <3>1. pc[p] = "promote" => final = "none"
          BY DEF Relied
    <3>2. ~PromoteFails(p)
          BY <3>1 DEF PromoteFails, Step
    <3>3. Promote(p) \/ Scrap(p)
          BY <2>3, <3>2 DEF Install, CheckPresent, CheckAbsent, Hash, Note, NoteFails, Download,
                            DownloadFails, Forget
    <3>4. CASE Promote(p)
          BY <2>1, <3>4, <3>1 DEF Promote, Step
    <3>5. CASE Scrap(p)
          BY <2>1, <3>5 DEF Scrap, Relied
    <3> QED
      BY <3>3, <3>4, <3>5
  <2>4. CASE RemoveModel(p)
    <3>1. RemoveFiles(p) \/ RemoveDir(p)
          BY <2>4 DEF RemoveModel, Look, Forget
    <3> QED
      BY <2>1, <3>1 DEF RemoveFiles, RemoveDir, RemovePc, TypeOK, Assigned
  <2>5. CASE VerifyModel(p)
        BY <2>5 DEF VerifyModel, Hash, Note, NoteFails
  <2> QED
    BY <2>2, <2>3, <2>4, <2>5
<1>2. IInv /\ [Next]_vars => [Kept]_vars
      BY <1>1
<1>3. Spec => [][Kept]_vars
      BY <1>2, Invariance, PTL DEF Spec
<1> QED
  BY <1>3 DEF VerifiedSurvives
=============================================================================
