-------------------------- MODULE CompileRun_proofs --------------------------
(***************************************************************************)
(* Proofs about CompileRun, for every number of processes, every set of      *)
(* commands and contents, and any number of faults.                         *)
(***************************************************************************)
EXTENDS CompileRun, TLAPS

-----------------------------------------------------------------------------
(* The type invariant *)

Reports == [source : Files \cup {""}, origin : Files \cup {""},
            cand : Candidates \cup {Nothing}, disposition : {"HOLD", "ABSTAIN", "ACCEPT"}]

Dirs == [exists : BOOLEAN, md : Candidates \cup {Nothing},
         json : Candidates \cup {Nothing}, chunks : SUBSET Candidates,
         report : Reports \cup {Nothing}, package : BOOLEAN]

Contexts == [fetched : Contents \cup {""}, capture : Contents \cup {""},
             doc : Candidates \cup {Nothing}, errors : BOOLEAN, manifest : BOOLEAN,
             low : BOOLEAN, gateError : BOOLEAN, verified : Files \cup {""},
             activated : BOOLEAN, code : {0, 1, 2, 9}]

TypeOK ==
  /\ source \in Files
  /\ temp \subseteq Procs \X {"fetch", "adapter"}
  /\ kept \subseteq Procs \X {"fetch", "adapter"}
  /\ pc \in [Procs -> Labels]
  /\ cmd \in [Procs -> Cmd]
  /\ ctx \in [Procs -> Contexts]
  /\ dir \in [Procs \cup {Final} -> Dirs]

-----------------------------------------------------------------------------
(* The inductive invariant, of one process at a time *)

\* Temporary files whose deletion has not failed are there only while the pipeline
\* holds them.
TempOf(p) ==
  /\ <<p, "fetch">> \in temp \ kept => pc[p] \in InPipeline \cup {"killed"}
  /\ <<p, "adapter">> \in temp \ kept => pc[p] \in {"ingest", "killed"}

\* The document is made by the parse, once, and kept until the exporters are done.
Unparsed == {"idle", "fetch", "download", "stat", "parse", "adapter"}
Holding == {"answer", "ingest", "stages", "markdown", "json", "assess", "package"}

DocumentOf(p) ==
  /\ pc[p] \in Unparsed => ctx[p].doc = Nothing
  /\ pc[p] \in Holding => ctx[p].doc # Nothing

\* The staging directory of a gated compile holds what its own exporters wrote; an
\* accepting report speaks of its document and of the bytes it was compared with.
Unreported == Unparsed \cup {"answer", "ingest", "stages", "mkdir", "markdown", "json", "assess"}
Reported == {"package", "finalise", "gate", "verify", "exists", "rename"}

Faithful(p, content) ==
  /\ ctx[p].doc # Nothing /\ ctx[p].doc.flaw = "none"
  /\ SameWording(ctx[p].doc.of, content)
  /\ cmd[p].profile # "unmet"

StagingOf(p) ==
  cmd[p].gate =>
    /\ pc[p] \in Unreported => dir[p].report = Nothing
    /\ pc[p] \in {"json", "assess"} => dir[p].md = ctx[p].doc
    /\ pc[p] \in Reported /\ Accepted(p) => Faithful(p, dir[p].report.source)

\* What the gate has established by each of its steps.
GateOf(p) ==
  /\ pc[p] \in {"gate", "verify", "exists", "rename"} => cmd[p].gate
  /\ pc[p] \in {"verify", "exists", "rename"} =>
       Accepted(p) /\ ~ctx[p].errors /\ ~ctx[p].low /\ ~ctx[p].gateError
  /\ pc[p] \in {"exists", "rename"} =>
       /\ ctx[p].verified = ctx[p].capture
       /\ dir[p].report.source = ctx[p].capture
       /\ Remote(p) => <<p, "fetch">> \in kept

Promoted(p) ==
  /\ ctx[p].verified = ctx[p].capture
  /\ Faithful(p, ctx[p].capture)
  /\ ~ctx[p].errors /\ ~ctx[p].low /\ ~ctx[p].gateError
  /\ cmd[p].gate /\ dir[p].report = Nothing
  /\ Remote(p) => <<p, "fetch">> \in kept

\* The ways to the exit code.
ExitOf(p) ==
  /\ ctx[p].activated => pc[p] \in {"exit", "done", "killed"} /\ Promoted(p)
  /\ pc[p] = "exit" /\ cmd[p].gate /\ ~ctx[p].activated =>
       ctx[p].errors \/ ctx[p].low \/ ctx[p].gateError \/ NotAccepted(p)
  /\ pc[p] = "done" /\ cmd[p].gate => (ctx[p].code = 0 <=> ctx[p].activated)

InvOf(p) == TempOf(p) /\ DocumentOf(p) /\ StagingOf(p) /\ GateOf(p) /\ ExitOf(p)

IInv == TypeOK /\ \A p \in Procs : InvOf(p)

-----------------------------------------------------------------------------
(* What an accepting report means *)

LEMMA Verdicts ==
  /\ Failed.verdict = "fail" /\ Mismatched.verdict = "fail"
  /\ Undetermined.status = "unknown"
BY DEF Failed, Mismatched, Undetermined

\* Under the default policy a candidate of a Markdown source is accepted only if it
\* has, without a flaw, the wording of the assessed bytes.
LEMMA AcceptMeansFaithful ==
  ASSUME TypeOK, NEW p \in Procs, NEW cand \in Candidates, NEW content,
         Assess(DefaultPolicy, Observe(p, cand, content)) = "ACCEPT"
  PROVE  /\ cand.flaw = "none" /\ SameWording(cand.of, content)
         /\ cmd[p].profile # "unmet"
<1> DEFINE o == Observe(p, cand, content)
           d1 == Fidelity(DefaultPolicy, o)
           d2 == Structure(DefaultPolicy, o)
           d3 == TaskSuitability(o)
<1>1. /\ d1.verdict # "fail" /\ d1.status # "unknown"
      /\ d2.verdict # "fail" /\ d3.verdict # "fail"
  <2>1. Decide({d1, d2, Integrity(o), d3}) = "ACCEPT"
        BY DEF Assess
  <2> HIDE DEF d1, d2, d3, o
  <2> QED
    BY <2>1 DEF Decide
<1>2. o.match
  <2>1. Fidelity(DefaultPolicy, o) # Undetermined
        BY <1>1, Verdicts
  <2>2. Fidelity(DefaultPolicy, o) \notin {Mismatched, Failed}
        BY <1>1, Verdicts
  <2>3. /\ ~(o.source /\ o.origin = "other")
        /\ ~(DefaultPolicy = DefaultPolicy /\ o.truncated)
        BY <2>2 DEF Fidelity
  <2>4. Fidelity(DefaultPolicy, o) = TextPreservation(DefaultPolicy, o, LiteralCoverage(o))
        BY <2>3 DEF Fidelity
  <2>5. LiteralCoverage(o).verdict # "fail"
        BY <2>1, <2>4, <1>1 DEF TextPreservation, DefaultPolicy
  <2> QED
    BY <2>1, <2>4, <2>5 DEF TextPreservation, DefaultPolicy
<1>3. ~o.openFences
  <2>1. o.candText
        BY DEF Observe
  <2>2. Structure(DefaultPolicy, o) # Failed
        BY <1>1, Verdicts
  <2> QED
    BY <2>1, <2>2 DEF Structure, Verdict
<1>4. SameWording(cand.of, content) /\ cand.flaw = "none"
      BY <1>2, <1>3 DEF Observe
<1>5. cmd[p].profile # "unmet"
  <2>1. o.candText /\ o.profile = cmd[p].profile
        BY DEF Observe
  <2>2. TaskSuitability(o) # Failed
        BY <1>1, Verdicts
  <2> QED
    BY <2>1, <2>2 DEF TaskSuitability, Verdict
<1> QED
  BY <1>4, <1>5

-----------------------------------------------------------------------------
(* A step of one process leaves what is said of the others alone *)

Step(p) == Start(p) \/ BadSizes(p) \/ Fetch(p) \/ Pipeline(p)
           \/ Export(p) \/ Gate(p) \/ Exit(p) \/ Kill(p)

Same(q) ==
  /\ pc'[q] = pc[q] /\ ctx'[q] = ctx[q] /\ dir'[q] = dir[q] /\ cmd' = cmd
  /\ \A kind : <<q, kind>> \in temp' <=> <<q, kind>> \in temp
  /\ \A kind : <<q, kind>> \in kept' <=> <<q, kind>> \in kept

\* A step that deletes and makes no temporary file.
TempSame == temp' = temp /\ kept' = kept

\* Whatever deletion fails, no other file is touched, and what is still there of
\* the files to be deleted has its failure noted.
LEMMA UnlinkIs ==
  ASSUME TypeOK, NEW files, Unlink(files)
  PROVE  /\ temp' \subseteq Procs \X {"fetch", "adapter"}
         /\ kept' \subseteq Procs \X {"fetch", "adapter"}
         /\ kept \subseteq kept' /\ temp' \subseteq temp
         /\ \A t : t \notin files => (t \in temp' <=> t \in temp) /\ (t \in kept' <=> t \in kept)
         /\ \A t \in files : t \in temp' => t \in kept'
BY DEF Unlink, TypeOK

LEMMA SameKeeps ==
  ASSUME NEW q \in Procs, InvOf(q), Same(q)
  PROVE  InvOf(q)'
<1> USE DEF Same
<1>1. /\ Accepted(q)' = Accepted(q) /\ NotAccepted(q)' = NotAccepted(q)
      /\ Remote(q)' = Remote(q)
      BY DEF Accepted, NotAccepted, HasReport, Remote
<1>2. TempOf(q)'
      BY DEF InvOf, TempOf
<1>3. DocumentOf(q)'
      BY DEF InvOf, DocumentOf
<1>4. StagingOf(q)'
      BY <1>1 DEF InvOf, StagingOf, Faithful
<1>5. GateOf(q)'
      BY <1>1 DEF InvOf, GateOf
<1>6. ExitOf(q)'
      BY <1>1 DEF InvOf, ExitOf, Promoted, Faithful
<1> QED
  BY <1>2, <1>3, <1>4, <1>5, <1>6 DEF InvOf

LEMMA OthersSame ==
  ASSUME TypeOK, NEW p \in Procs, Step(p), NEW q \in Procs, q # p
  PROVE  Same(q)
<1> USE DEF TypeOK, Goto, At, Advance
<1>1. OutDir(p) # q
      BY DirAssumption DEF OutDir, DirAssumption
<1>2. ASSUME NEW files \in SUBSET {<<p, "fetch">>, <<p, "adapter">>}, Unlink(files)
      PROVE  /\ \A kind : <<q, kind>> \in temp' <=> <<q, kind>> \in temp
             /\ \A kind : <<q, kind>> \in kept' <=> <<q, kind>> \in kept
  <2>1. \A kind : <<q, kind>> \notin files
        OBVIOUS
  <2> QED
    BY <1>2, <2>1, UnlinkIs
<1>3. ASSUME NEW c, ReturnWith(p, c) PROVE Same(q)
  <2>1. \E files \in SUBSET {<<p, "fetch">>, <<p, "adapter">>} : Unlink(files)
        BY <1>3 DEF ReturnWith
  <2> QED
    BY <1>2, <1>3, <2>1 DEF ReturnWith, Same
<1>4. ASSUME Raise(p) PROVE Same(q)
  <2>1. \E files \in SUBSET {<<p, "fetch">>, <<p, "adapter">>} : Unlink(files)
        BY <1>4 DEF Raise
  <2> QED
    BY <1>2, <1>4, <2>1 DEF Raise, Same
<1>5. CASE Start(p)
      BY <1>5 DEF Start, MakeStaging, Same
<1>6. CASE BadSizes(p)
      BY <1>4, <1>6 DEF BadSizes
<1>7. CASE Fetch(p)
  <2>1. CASE BeginDownload(p) \/ FinishDownload(p)
        BY <2>1 DEF BeginDownload, FinishDownload, Same
  <2> QED
    BY <1>3, <1>4, <1>7, <2>1 DEF Fetch, FetchRefused, FetchRaises, DownloadFails, ReturnError
<1>8. CASE Pipeline(p)
  <2>1. CASE ReturnError(p) \/ Raise(p)
        BY <1>3, <1>4, <2>1 DEF ReturnError
  <2>2. CASE (Capture(p) \/ AdapterReads(p)) /\ ~ReturnError(p)
        BY <2>2 DEF Capture, AdapterReads, Same
  <2>3. CASE AdapterIngests(p) \/ \E flaw \in Flaws : Parse(p, flaw)
        BY <2>3 DEF AdapterIngests, Parse, Same
  <2>4. CASE \E flaw \in Flaws : AdapterParsed(p, flaw)
    <3>1. \E files \in SUBSET {<<p, "fetch">>, <<p, "adapter">>} : Unlink(files)
          BY <2>4 DEF AdapterParsed
    <3> QED
      BY <1>2, <2>4, <3>1 DEF AdapterParsed, Same
  <2>5. CASE AdapterIngestFails(p)
    <3>1. \E files \in SUBSET {<<p, "fetch">>, <<p, "adapter">>} : Unlink(files)
          BY <2>5 DEF AdapterIngestFails
    <3> QED
      BY <1>2, <2>5, <3>1 DEF AdapterIngestFails, Same
  <2>6. CASE AdapterRefused(p) \/ \E errors, low \in BOOLEAN : Stages(p, errors, low)
        BY <1>3, <2>6 DEF AdapterRefused, Stages
  <2> QED
    BY <1>8, <2>1, <2>2, <2>3, <2>4, <2>5, <2>6
    DEF Pipeline, ParseFails, ParseRaises, StagesRaise
<1>9. CASE Export(p)
  <2>1. CASE ExportNothing(p) \/ Finalise(p)
        BY <2>1 DEF ExportNothing, Finalise, Write, Same
  <2>2. CASE ExportRaises(p)
        BY <1>4, <2>2 DEF ExportRaises
  <2>3. CASE ExportDir(p) \/ ExportMarkdown(p) \/ ExportJson(p)
        BY <2>3, <1>1 DEF ExportDir, ExportMarkdown, ExportJson, Write, MakeDir,
                          PutMarkdown, PutJson, Same
  <2>4. CASE ExportAssessment(p) \/ WritePackage(p)
        BY <2>4, <1>1 DEF ExportAssessment, WritePackage, Write, PutReport,
                          PutPackage, Same
  <2> QED
    BY <1>9, <2>1, <2>2, <2>3, <2>4 DEF Export
<1>10. CASE Gate(p)
  <2>1. dir'[q] = dir[q]
        BY <1>10, DirAssumption DEF DirAssumption, Gate, ReadReport, Verify, RefuseExisting,
                  FinalIsFree, Rename, RenameFails, GateFails, Promote
  <2> QED
    BY <1>10, <2>1 DEF Gate, ReadReport, Verify, RefuseExisting, FinalIsFree, Rename,
                       RenameFails, GateFails, Same
<1>11. CASE Exit(p) \/ Kill(p)
      BY <1>11 DEF Exit, Kill, Same
<1> QED
  BY <1>5, <1>6, <1>7, <1>8, <1>9, <1>10, <1>11 DEF Step

-----------------------------------------------------------------------------
(* Types *)

LEMMA FilesAre ==
  /\ Contents \subseteq Files /\ Files = Contents \cup {"absent", "oversize"}
  /\ "" \notin Contents /\ "absent" \notin Contents /\ "oversize" \notin Contents
BY RunAssumption DEF Files, RunAssumption

LEMMA PartTypes ==
  ASSUME TypeOK
  PROVE  /\ \A p \in Procs : ctx[p] \in Contexts
         /\ \A d \in Procs \cup {Final} : dir[d] \in Dirs
BY DEF TypeOK

LEMMA ReadsType ==
  ASSUME TypeOK, NEW p \in Procs
  PROVE  Reads(p) \in Files \cup {""}
<1>1. ctx[p].fetched \in Contents \cup {""}
      BY DEF TypeOK, Contexts
<1> QED
  BY <1>1, FilesAre DEF TypeOK, Reads

\* A directory stays one when the exporters write to it.
LEMMA DirKeeps ==
  ASSUME NEW d \in Dirs
  PROVE  /\ [d EXCEPT !.exists = TRUE] \in Dirs
         /\ [d EXCEPT !.package = TRUE] \in Dirs
         /\ \A cand \in Candidates : [d EXCEPT !.md = cand] \in Dirs
         /\ \A cand \in Candidates :
              [d EXCEPT !.json = cand, !.chunks = @ \cup {cand}] \in Dirs
         /\ \A report \in Reports : [d EXCEPT !.report = report] \in Dirs
<1>1. /\ [d EXCEPT !.exists = TRUE] \in Dirs
      /\ [d EXCEPT !.package = TRUE] \in Dirs
      BY Zenon DEF Dirs
<1>2. \A cand \in Candidates : [d EXCEPT !.md = cand] \in Dirs
      BY Zenon DEF Dirs
<1>3. ASSUME NEW cand \in Candidates
      PROVE  [d EXCEPT !.json = cand, !.chunks = @ \cup {cand}] \in Dirs
  <2>1. d.chunks \cup {cand} \in SUBSET Candidates
        BY DEF Dirs
  <2> QED
    BY <2>1, Zenon DEF Dirs
<1>4. \A report \in Reports : [d EXCEPT !.report = report] \in Dirs
      BY Zenon DEF Dirs
<1> QED
  BY <1>1, <1>2, <1>3, <1>4, Zenon

\* A context stays one when a field gets a value of its set.
LEMMA ContextKeeps ==
  ASSUME NEW c \in Contexts
  PROVE  /\ [c EXCEPT !.errors = TRUE] \in Contexts
         /\ [c EXCEPT !.errors = TRUE, !.doc = Nothing] \in Contexts
         /\ \A s \in Contents : [c EXCEPT !.fetched = s] \in Contexts
         /\ \A s \in Contents \cup {""} : [c EXCEPT !.capture = s] \in Contexts
         /\ \A d \in Candidates : [c EXCEPT !.doc = d] \in Contexts
         /\ \A e, l \in BOOLEAN :
              [c EXCEPT !.manifest = TRUE, !.errors = e, !.low = l] \in Contexts
         /\ \A e \in BOOLEAN : [c EXCEPT !.gateError = e] \in Contexts
         /\ \A s \in Files \cup {""} : [c EXCEPT !.verified = s] \in Contexts
         /\ [c EXCEPT !.activated = TRUE] \in Contexts
         /\ \A n \in {0, 1, 2} : [c EXCEPT !.code = n] \in Contexts
<1>1. /\ [c EXCEPT !.errors = TRUE] \in Contexts
      /\ [c EXCEPT !.activated = TRUE] \in Contexts
      BY Zenon DEF Contexts
<1>2. [c EXCEPT !.errors = TRUE, !.doc = Nothing] \in Contexts
      BY Zenon DEF Contexts
<1>3. \A s \in Contents : [c EXCEPT !.fetched = s] \in Contexts
      BY Zenon DEF Contexts
<1>4. \A s \in Contents \cup {""} : [c EXCEPT !.capture = s] \in Contexts
      BY Zenon DEF Contexts
<1>5. \A d \in Candidates : [c EXCEPT !.doc = d] \in Contexts
      BY Zenon DEF Contexts
<1>6. \A e, l \in BOOLEAN :
        [c EXCEPT !.manifest = TRUE, !.errors = e, !.low = l] \in Contexts
      BY Zenon DEF Contexts
<1>7. \A e \in BOOLEAN : [c EXCEPT !.gateError = e] \in Contexts
      BY Zenon DEF Contexts
<1>8. \A s \in Files \cup {""} : [c EXCEPT !.verified = s] \in Contexts
      BY Zenon DEF Contexts
<1>9. \A n \in {0, 1, 2} : [c EXCEPT !.code = n] \in Contexts
      BY Zenon DEF Contexts
<1> QED
  BY <1>1, <1>2, <1>3, <1>4, <1>5, <1>6, <1>7, <1>8, <1>9, Zenon

LEMMA GotoType ==
  ASSUME TypeOK, NEW p \in Procs, NEW label \in Labels, Goto(p, label)
  PROVE  pc' \in [Procs -> Labels]
BY DEF TypeOK, Goto

LEMMA TempType ==
  ASSUME TypeOK, NEW p \in Procs, NEW kind \in {"fetch", "adapter"}
  PROVE  temp \cup {<<p, kind>>} \subseteq Procs \X {"fetch", "adapter"}
<1>1. <<p, kind>> \in Procs \X {"fetch", "adapter"}
      OBVIOUS
<1> QED
  BY <1>1 DEF TypeOK

LEMMA OutDirType ==
  ASSUME NEW p \in Procs
  PROVE  OutDir(p) \in Procs \cup {Final} /\ (cmd[p].gate => OutDir(p) = p)
BY DEF OutDir

LEMMA ReturnType ==
  ASSUME TypeOK, NEW p \in Procs, NEW c \in Contexts, ReturnWith(p, c)
  PROVE  TypeOK'
<1>1. /\ temp' \subseteq Procs \X {"fetch", "adapter"}
      /\ kept' \subseteq Procs \X {"fetch", "adapter"}
      BY UnlinkIs DEF ReturnWith
<1> QED
  BY <1>1, GotoType, PartTypes DEF ReturnWith, Labels, TypeOK

LEMMA RaiseType ==
  ASSUME TypeOK, NEW p \in Procs, Raise(p)
  PROVE  TypeOK'
<1>1. [ctx[p] EXCEPT !.code = 1] \in Contexts
      BY PartTypes, ContextKeeps
<1>2. ctx' \in [Procs -> Contexts]
      BY <1>1 DEF Raise, TypeOK
<1>3. /\ temp' \subseteq Procs \X {"fetch", "adapter"}
      /\ kept' \subseteq Procs \X {"fetch", "adapter"}
      BY UnlinkIs DEF Raise
<1> QED
  BY <1>2, <1>3, GotoType DEF Raise, Labels, TypeOK

LEMMA ReportType ==
  ASSUME TypeOK, NEW p \in Procs, NEW cand \in Candidates \cup {Nothing},
         NEW content \in Files \cup {""}
  PROVE  Report(p, cand, content) \in Reports
<1>1. Assess(DefaultPolicy, Observe(p, cand, content)) \in {"HOLD", "ABSTAIN", "ACCEPT"}
      BY DEF Assess, Decide
<1>2. Origin(p, content) \in Files \cup {""}
      BY PartTypes, FilesAre DEF Origin, Contexts
<1> QED
  BY <1>1, <1>2 DEF Report, Reports

LEMMA FetchType ==
  ASSUME TypeOK, NEW p \in Procs, Fetch(p)
  PROVE  TypeOK'
<1>1. [ctx[p] EXCEPT !.errors = TRUE] \in Contexts
      BY PartTypes, ContextKeeps
<1>2. CASE FetchRefused(p)
      BY <1>1, <1>2, ReturnType DEF FetchRefused, ReturnError
<1>3. CASE FetchRaises(p)
      BY <1>3, RaiseType DEF FetchRaises
<1>4. CASE BeginDownload(p)
      BY <1>4, GotoType, PartTypes, TempType DEF BeginDownload, Labels, TypeOK
<1>5. CASE FinishDownload(p)
  <2>1. \A c \in Contents : [ctx[p] EXCEPT !.fetched = c] \in Contexts
        BY PartTypes, ContextKeeps
  <2>2. ctx' \in [Procs -> Contexts]
        BY <1>5, <2>1 DEF FinishDownload, TypeOK
  <2> QED
    BY <1>5, <2>2, GotoType DEF FinishDownload, Labels, TypeOK
<1>6. CASE DownloadFails(p)
      BY <1>1, <1>6, ReturnType, RaiseType DEF DownloadFails, ReturnError
<1> QED
  BY <1>2, <1>3, <1>4, <1>5, <1>6 DEF Fetch

LEMMA PipelineType ==
  ASSUME TypeOK, NEW p \in Procs, InvOf(p), Pipeline(p)
  PROVE  TypeOK'
<1> USE ReadsType
<1>1. /\ [ctx[p] EXCEPT !.errors = TRUE] \in Contexts
      /\ [ctx[p] EXCEPT !.errors = TRUE, !.doc = Nothing] \in Contexts
      BY PartTypes, ContextKeeps
<1>2. CASE Capture(p)
  <2>1. CASE Reads(p) = "oversize"
        BY <1>1, <1>2, <2>1, ReturnType DEF Capture, ReturnError
  <2>2. CASE Reads(p) # "oversize"
    <3> DEFINE c == IF Reads(p) = "absent" THEN "" ELSE Reads(p)
    <3>0. c \in Contents \cup {""}
          BY <2>2, ReadsType, FilesAre
    <3>1. [ctx[p] EXCEPT !.capture = c] \in Contexts
      <4> HIDE DEF c
      <4> QED
        BY <3>0, PartTypes, ContextKeeps
    <3>2. ctx' \in [Procs -> Contexts]
          BY <1>2, <2>2, <3>1 DEF Capture, TypeOK
    <3> QED
      BY <1>2, <2>2, <3>2, GotoType DEF Capture, Labels, TypeOK
  <2> QED
    BY <2>1, <2>2
<1>3. CASE ParseFails(p)
      BY <1>1, <1>3, ReturnType DEF ParseFails, ReturnError
<1>4. CASE ParseRaises(p) \/ StagesRaise(p)
      BY <1>4, RaiseType DEF ParseRaises, StagesRaise
<1>5. ASSUME NEW flaw \in Flaws, Parse(p, flaw) PROVE TypeOK'
  <2>1. [ctx[p] EXCEPT !.doc = [of |-> Reads(p), flaw |-> flaw]] \in Contexts
        BY <1>5, PartTypes, ContextKeeps DEF Parse, Candidates
  <2>2. ctx' \in [Procs -> Contexts]
        BY <1>5, <2>1 DEF Parse, TypeOK
  <2> QED
    BY <1>5, <2>2, GotoType DEF Parse, Labels, TypeOK
<1>6. ASSUME NEW flaw \in Flaws, AdapterParsed(p, flaw) PROVE TypeOK'
  <2>1. ctx[p].doc \in Candidates
        BY <1>6, PartTypes DEF AdapterParsed, At, InvOf, DocumentOf, Holding, Contexts
  <2>2. [ctx[p].doc EXCEPT !.flaw = flaw] \in Candidates
        BY <2>1 DEF Candidates
  <2>3. [ctx[p] EXCEPT !.doc = [ctx[p].doc EXCEPT !.flaw = flaw]] \in Contexts
        BY <2>2, PartTypes, ContextKeeps
  <2>4. ctx' \in [Procs -> Contexts]
        BY <1>6, <2>3 DEF AdapterParsed, TypeOK
  <2>5. /\ temp' \subseteq Procs \X {"fetch", "adapter"}
        /\ kept' \subseteq Procs \X {"fetch", "adapter"}
        BY <1>6, UnlinkIs DEF AdapterParsed
  <2> QED
    BY <1>6, <2>4, <2>5, GotoType DEF AdapterParsed, Labels, TypeOK
<1>7. CASE AdapterReads(p)
  <2>1. CASE Reads(p) \notin Contents \/ ctx[p].capture \notin {"", Reads(p)}
        BY <1>1, <1>7, <2>1, ReturnType DEF AdapterReads, ReturnError
  <2>2. CASE ~(Reads(p) \notin Contents \/ ctx[p].capture \notin {"", Reads(p)})
    <3>0. [of |-> Reads(p), flaw |-> "none"] \in Candidates
          BY <2>2, RunAssumption DEF RunAssumption, Candidates
    <3>1. [ctx[p] EXCEPT !.doc = [of |-> Reads(p), flaw |-> "none"]] \in Contexts
          BY <3>0, PartTypes, ContextKeeps
    <3>2. ctx' \in [Procs -> Contexts]
          BY <1>7, <2>2, <3>1 DEF AdapterReads, TypeOK
    <3> QED
      BY <1>7, <2>2, <3>2, GotoType DEF AdapterReads, Labels, TypeOK
  <2> QED
    BY <2>1, <2>2
<1>8. CASE AdapterRefused(p)
      BY <1>1, <1>8, ReturnType DEF AdapterRefused
<1>9. CASE AdapterIngests(p)
      BY <1>9, GotoType, PartTypes, TempType DEF AdapterIngests, Labels, TypeOK
<1>10. CASE AdapterIngestFails(p)
  <2>1. [ctx[p] EXCEPT !.errors = TRUE, !.doc = Nothing] \in Contexts
        BY PartTypes, ContextKeeps
  <2>2. ctx' \in [Procs -> Contexts]
        BY <1>10, <2>1 DEF AdapterIngestFails, TypeOK
  <2>3. /\ temp' \subseteq Procs \X {"fetch", "adapter"}
        /\ kept' \subseteq Procs \X {"fetch", "adapter"}
        BY <1>10, UnlinkIs DEF AdapterIngestFails
  <2> QED
    BY <1>10, <2>2, <2>3, GotoType DEF AdapterIngestFails, Labels, TypeOK
<1>11. ASSUME NEW errors \in BOOLEAN, NEW low \in BOOLEAN, Stages(p, errors, low)
       PROVE  TypeOK'
  <2>1. [ctx[p] EXCEPT !.manifest = TRUE, !.errors = errors, !.low = low] \in Contexts
        BY PartTypes, ContextKeeps
  <2> QED
    BY <1>11, <2>1, ReturnType DEF Stages
<1> QED
  BY <1>2, <1>3, <1>4, <1>5, <1>6, <1>7, <1>8, <1>9, <1>10, <1>11 DEF Pipeline

LEMMA ExportType ==
  ASSUME TypeOK, NEW p \in Procs, InvOf(p), Export(p)
  PROVE  TypeOK'
<1> USE OutDirType, GotoType, PartTypes DEF Write, Advance, Labels
<1>1. pc[p] \in {"markdown", "json"} => ctx[p].doc \in Candidates
      BY DEF InvOf, DocumentOf, Holding, TypeOK, Contexts
<1>2. CASE ExportNothing(p) \/ Finalise(p)
      BY <1>2 DEF ExportNothing, Finalise, TypeOK
<1>3. CASE ExportRaises(p)
      BY <1>3, RaiseType DEF ExportRaises
<1>4. CASE ExportDir(p)
  <2>1. [dir[OutDir(p)] EXCEPT !.exists = TRUE] \in Dirs
        BY PartTypes, DirKeeps
  <2>2. dir' \in [Procs \cup {Final} -> Dirs]
        BY <1>4, <2>1 DEF ExportDir, MakeDir, TypeOK
  <2> QED
    BY <1>4, <2>2 DEF ExportDir, TypeOK
<1>5. CASE ExportMarkdown(p)
  <2>1. [dir[OutDir(p)] EXCEPT !.md = ctx[p].doc] \in Dirs
        BY <1>1, <1>5, PartTypes, DirKeeps DEF ExportMarkdown, At
  <2>2. dir' \in [Procs \cup {Final} -> Dirs]
        BY <1>5, <2>1 DEF ExportMarkdown, PutMarkdown, TypeOK
  <2> QED
    BY <1>5, <2>2, GotoType DEF ExportMarkdown, Labels, TypeOK
<1>6. CASE ExportJson(p)
  <2>1. [dir[OutDir(p)] EXCEPT !.json = ctx[p].doc,
                                 !.chunks = @ \cup {ctx[p].doc}] \in Dirs
    <3>1. ctx[p].doc \in Candidates
          BY <1>1, <1>6 DEF ExportJson, At
    <3> QED
      BY <3>1, PartTypes, DirKeeps, Zenon
  <2>2. dir' \in [Procs \cup {Final} -> Dirs]
        BY <1>6, <2>1 DEF ExportJson, PutJson, TypeOK
  <2> QED
    BY <1>6, <2>2, GotoType DEF ExportJson, Labels, TypeOK
<1>7. CASE ExportAssessment(p)
  <2>1. dir[OutDir(p)].md \in Candidates \cup {Nothing}
        BY DEF TypeOK, Dirs
  <2>2. Report(p, dir[OutDir(p)].md, Reads(p)) \in Reports
        BY <2>1, ReportType, ReadsType
  <2>3. dir' \in [Procs \cup {Final} -> Dirs]
    <3>1. [dir[OutDir(p)] EXCEPT !.report = Report(p, dir[OutDir(p)].md, Reads(p))] \in Dirs
          BY <2>2, PartTypes, DirKeeps
    <3> QED
      BY <1>7, <3>1 DEF ExportAssessment, PutReport, TypeOK
  <2> QED
    BY <1>7, <2>3 DEF ExportAssessment, TypeOK
<1>8. CASE WritePackage(p)
  <2>1. [dir[OutDir(p)] EXCEPT !.package = TRUE] \in Dirs
        BY PartTypes, DirKeeps
  <2>2. dir' \in [Procs \cup {Final} -> Dirs]
        BY <1>8, <2>1 DEF WritePackage, PutPackage, TypeOK
  <2> QED
    BY <1>8, <2>2 DEF WritePackage, TypeOK
<1> QED
  BY <1>2, <1>3, <1>4, <1>5, <1>6, <1>7, <1>8 DEF Export

LEMMA FailsType ==
  ASSUME TypeOK, NEW p \in Procs, GateFails(p)
  PROVE  TypeOK'
<1>1. [ctx[p] EXCEPT !.gateError = TRUE] \in Contexts
      BY PartTypes, ContextKeeps
<1>2. ctx' \in [Procs -> Contexts]
      BY <1>1 DEF GateFails, TypeOK
<1> QED
  BY <1>2, GotoType DEF GateFails, Labels, TypeOK

LEMMA GateType ==
  ASSUME TypeOK, NEW p \in Procs, Gate(p) \/ Exit(p)
  PROVE  TypeOK'
<1> USE GotoType DEF Labels
<1>1. CASE ReadReport(p)
  <2>1. [ctx[p] EXCEPT !.gateError = ~HasReport(p)] \in Contexts
        BY PartTypes, ContextKeeps DEF HasReport
  <2>2. ctx' \in [Procs -> Contexts]
        BY <1>1, <2>1 DEF ReadReport, TypeOK
  <2> QED
    BY <1>1, <2>2 DEF ReadReport, TypeOK
<1>2. CASE Verify(p)
  <2>1. CASE Verified(p)
    <3>1. [ctx[p] EXCEPT !.verified = Reads(p)] \in Contexts
          BY PartTypes, ContextKeeps, ReadsType
    <3>2. ctx' \in [Procs -> Contexts]
          BY <1>2, <2>1, <3>1 DEF Verify, TypeOK
    <3> QED
      BY <1>2, <2>1, <3>2 DEF Verify, TypeOK
  <2>2. CASE ~Verified(p)
        BY <1>2, <2>2, FailsType DEF Verify
  <2> QED
    BY <2>1, <2>2
<1>3. CASE RefuseExisting(p) \/ RenameFails(p)
      BY <1>3, FailsType DEF RefuseExisting, RenameFails
<1>4. CASE FinalIsFree(p)
      BY <1>4 DEF FinalIsFree, TypeOK
<1>5. CASE Rename(p)
  <2>0. NoDir \in Dirs
        BY DEF NoDir, Dirs
  <2>1. [ctx[p] EXCEPT !.activated = TRUE] \in Contexts
        BY PartTypes, ContextKeeps
  <2>2. ctx' \in [Procs -> Contexts] /\ dir' \in [Procs \cup {Final} -> Dirs]
        BY <1>5, <2>0, <2>1, PartTypes DEF Rename, Promote, TypeOK
  <2> QED
    BY <1>5, <2>2 DEF Rename, TypeOK
<1>6. CASE Exit(p)
  <2>1. ExitCode(p) \in {0, 1, 2}
        BY DEF ExitCode, JsonCode, RichCode
  <2>2. [ctx[p] EXCEPT !.code = ExitCode(p)] \in Contexts
        BY <2>1, PartTypes, ContextKeeps
  <2>3. ctx' \in [Procs -> Contexts]
        BY <1>6, <2>2 DEF Exit, TypeOK
  <2> QED
    BY <1>6, <2>3 DEF Exit, TypeOK
<1> QED
  BY <1>1, <1>2, <1>3, <1>4, <1>5, <1>6 DEF Gate

LEMMA StepType ==
  ASSUME TypeOK, NEW p \in Procs, InvOf(p), Step(p)
  PROVE  TypeOK'
<1>1. CASE Start(p)
  <2>1. EmptyDir \in Dirs
        BY DEF EmptyDir, NoDir, Dirs
  <2>2. dir' \in [Procs \cup {Final} -> Dirs]
        BY <1>1, <2>1 DEF Start, MakeStaging, TypeOK
  <2> QED
    BY <1>1, <2>2, GotoType DEF Start, Labels, TypeOK
<1>2. CASE BadSizes(p)
      BY <1>2, RaiseType DEF BadSizes
<1>3. CASE Kill(p)
      BY <1>3, GotoType, PartTypes DEF Kill, Labels, TypeOK
<1> QED
  BY <1>1, <1>2, <1>3, FetchType, PipelineType, ExportType, GateType DEF Step

-----------------------------------------------------------------------------
(* A step keeps what is said of its own process *)

\* Beyond Same, most steps leave the directories alone, and the report with them.
LEMMA ReturnKeeps ==
  ASSUME TypeOK, NEW p \in Procs, InvOf(p), NEW c \in Contexts, ReturnWith(p, c),
         pc[p] \in {"fetch", "download", "stat", "parse", "adapter", "answer", "stages"},
         c.activated = ctx[p].activated, c.capture = ctx[p].capture,
         c.doc \in {Nothing, ctx[p].doc}
  PROVE  InvOf(p)'
<1> DEFINE next == IF cmd[p].run = "validate" THEN "finalise" ELSE "mkdir"
<1>1. /\ pc'[p] = next /\ ctx'[p] = c /\ dir' = dir /\ cmd' = cmd
      /\ Unlink({<<p, "fetch">>})
      BY DEF ReturnWith, Goto, TypeOK
<1>2. cmd[p].gate => next = "mkdir"
      BY DEF TypeOK, Cmd
<1>3. next \in {"mkdir", "finalise"}
      OBVIOUS
<1>4. ~c.activated
      BY DEF InvOf, ExitOf
<1> HIDE DEF next
<1>5. TempOf(p)'
  <2>1. <<p, "fetch">> \notin temp' \ kept'
        BY <1>1, UnlinkIs
  <2>2. <<p, "adapter">> \notin temp' \ kept'
        BY <1>1, UnlinkIs DEF InvOf, TempOf
  <2> QED
    BY <2>1, <2>2 DEF TempOf
<1>6. DocumentOf(p)'
      BY <1>1, <1>3 DEF InvOf, DocumentOf, Unparsed, Holding
<1>7. StagingOf(p)'
      BY <1>1, <1>2 DEF InvOf, StagingOf, Unparsed, Unreported, Reported
<1>8. GateOf(p)' /\ ExitOf(p)'
      BY <1>1, <1>3, <1>4 DEF GateOf, ExitOf
<1> QED
  BY <1>5, <1>6, <1>7, <1>8 DEF InvOf

LEMMA RaiseKeeps ==
  ASSUME TypeOK, NEW p \in Procs, InvOf(p), Raise(p),
         pc[p] \notin {"ingest", "exit", "done", "killed"}
  PROVE  InvOf(p)'
<1>1. /\ pc'[p] = "done" /\ ctx'[p] = [ctx[p] EXCEPT !.code = 1] /\ dir' = dir /\ cmd' = cmd
      /\ Unlink({<<p, "fetch">>} \ kept)
      BY DEF Raise, Goto, TypeOK
<1>2. /\ ctx'[p].code = 1 /\ ctx'[p].doc = ctx[p].doc /\ ctx'[p].capture = ctx[p].capture
      /\ ctx'[p].activated = ctx[p].activated
      BY <1>1, PartTypes DEF Contexts
<1>3. ~ctx[p].activated
      BY DEF InvOf, ExitOf
<1>4. TempOf(p)'
  <2>1. <<p, "fetch">> \notin temp' \ kept'
        BY <1>1, UnlinkIs
  <2>2. <<p, "adapter">> \notin temp' \ kept'
        BY <1>1, UnlinkIs DEF InvOf, TempOf
  <2> QED
    BY <2>1, <2>2 DEF TempOf
<1>5. DocumentOf(p)'
      BY <1>1, <1>2 DEF InvOf, DocumentOf, Unparsed, Holding
<1>6. StagingOf(p)' /\ GateOf(p)'
      BY <1>1 DEF StagingOf, GateOf, Unparsed, Unreported, Reported
<1>7. ExitOf(p)'
      BY <1>1, <1>2, <1>3 DEF ExitOf
<1> QED
  BY <1>4, <1>5, <1>6, <1>7 DEF InvOf

LEMMA FetchKeeps ==
  ASSUME TypeOK, NEW p \in Procs, InvOf(p), Fetch(p)
  PROVE  InvOf(p)'
<1> USE DEF TempSame
<1>1. [ctx[p] EXCEPT !.errors = TRUE] \in Contexts
      BY PartTypes, ContextKeeps
<1>2. ASSUME ReturnError(p), pc[p] \in {"fetch", "download"} PROVE InvOf(p)'
  <2> DEFINE c == [ctx[p] EXCEPT !.errors = TRUE]
  <2>1. c.activated = ctx[p].activated /\ c.capture = ctx[p].capture /\ c.doc = ctx[p].doc
        BY PartTypes DEF Contexts
  <2>2. ReturnWith(p, c)
        BY <1>2 DEF ReturnError
  <2> HIDE DEF c
  <2>3. c \in Contexts
        BY <1>1 DEF c
  <2> QED
    BY <1>2, <2>1, <2>2, <2>3, ReturnKeeps
<1>3. CASE FetchRefused(p)
      BY <1>2, <1>3 DEF FetchRefused, At
<1>4. CASE FetchRaises(p)
      BY <1>4, RaiseKeeps DEF FetchRaises, At
<1>5. CASE DownloadFails(p)
      BY <1>2, <1>5, RaiseKeeps DEF DownloadFails, At
<1>6. CASE BeginDownload(p)
  <2>1. /\ pc[p] = "fetch" /\ pc'[p] = "download" /\ ctx' = ctx /\ dir' = dir /\ cmd' = cmd
        /\ temp' = temp \cup {<<p, "fetch">>} /\ kept' = kept
        BY <1>6 DEF BeginDownload, At, Goto, TypeOK
  <2>2. TempOf(p)'
        BY <2>1 DEF InvOf, TempOf, InPipeline
  <2>3. DocumentOf(p)'
        BY <2>1 DEF InvOf, DocumentOf, Unparsed, Holding
  <2>4. StagingOf(p)'
        BY <2>1 DEF InvOf, StagingOf, Unparsed, Unreported, Reported
  <2>5. GateOf(p)' /\ ExitOf(p)'
        BY <2>1 DEF InvOf, GateOf, ExitOf
  <2> QED
    BY <2>2, <2>3, <2>4, <2>5 DEF InvOf
<1>7. CASE FinishDownload(p)
  <2>1. PICK c \in Contents : ctx' = [ctx EXCEPT ![p].fetched = c]
        BY <1>7 DEF FinishDownload
  <2>2. /\ ctx'[p].doc = ctx[p].doc /\ ctx'[p].capture = ctx[p].capture
        /\ ctx'[p].activated = ctx[p].activated
        BY <2>1, PartTypes DEF TypeOK, Contexts
  <2>3. /\ pc[p] = "download" /\ pc'[p] = "stat" /\ dir' = dir /\ cmd' = cmd /\ TempSame
        BY <1>7 DEF FinishDownload, At, Goto, TypeOK
  <2>4. TempOf(p)'
        BY <2>3 DEF InvOf, TempOf, InPipeline
  <2>5. DocumentOf(p)'
        BY <2>2, <2>3 DEF InvOf, DocumentOf, Unparsed, Holding
  <2>6. StagingOf(p)'
        BY <2>3 DEF InvOf, StagingOf, Unparsed, Unreported, Reported
  <2>7. GateOf(p)' /\ ExitOf(p)'
        BY <2>2, <2>3 DEF InvOf, GateOf, ExitOf
  <2> QED
    BY <2>4, <2>5, <2>6, <2>7 DEF InvOf
<1> QED
  BY <1>3, <1>4, <1>5, <1>6, <1>7 DEF Fetch

LEMMA NothingElse == Nothing \notin Candidates
BY RunAssumption DEF RunAssumption, Candidates

LEMMA MoveKeeps ==
  ASSUME NEW p \in Procs, InvOf(p), pc[p] \in InPipeline,
         pc'[p] \in {"parse", "adapter", "answer", "ingest", "stages"},
         dir' = dir, cmd' = cmd, ctx'[p].activated = ctx[p].activated,
         TempOf(p)', DocumentOf(p)'
  PROVE  InvOf(p)'
<1>1. StagingOf(p)'
      BY DEF InvOf, StagingOf, InPipeline, Unparsed, Unreported, Reported
<1>2. GateOf(p)' /\ ExitOf(p)'
      BY DEF InvOf, GateOf, ExitOf, InPipeline
<1> QED
  BY <1>1, <1>2 DEF InvOf

LEMMA PipelineKeeps ==
  ASSUME TypeOK, NEW p \in Procs, InvOf(p), Pipeline(p)
  PROVE  InvOf(p)'
<1> USE DEF At, TempSame
<1>1. ASSUME ReturnError(p), pc[p] \in {"stat", "parse", "adapter"} PROVE InvOf(p)'
  <2> DEFINE c == [ctx[p] EXCEPT !.errors = TRUE]
  <2>0. c \in Contexts
        BY PartTypes, ContextKeeps, Zenon
  <2>1. c.activated = ctx[p].activated /\ c.capture = ctx[p].capture /\ c.doc = ctx[p].doc
        BY PartTypes, Zenon DEF Contexts
  <2>2. ReturnWith(p, c)
        BY <1>1 DEF ReturnError
  <2> HIDE DEF c
  <2> QED
    BY <1>1, <2>0, <2>1, <2>2, ReturnKeeps
<1>2. CASE Capture(p)
  <2>1. CASE Reads(p) = "oversize"
        BY <1>1, <1>2, <2>1 DEF Capture
  <2>2. CASE Reads(p) # "oversize"
    <3>1. /\ pc[p] = "stat" /\ pc'[p] = (IF cmd[p].adapter THEN "adapter" ELSE "parse")
          /\ dir' = dir /\ cmd' = cmd /\ TempSame
          BY <1>2, <2>2 DEF Capture, Goto, TypeOK
    <3>2. ctx'[p].doc = ctx[p].doc /\ ctx'[p].activated = ctx[p].activated
      <4>1. PICK c : ctx' = [ctx EXCEPT ![p].capture = c]
            BY <1>2, <2>2 DEF Capture
      <4> QED
        BY <4>1, PartTypes DEF TypeOK, Contexts
    <3>3. TempOf(p)' /\ DocumentOf(p)'
          BY <3>1, <3>2 DEF InvOf, TempOf, DocumentOf, InPipeline, Unparsed, Holding
    <3> QED
      BY <3>1, <3>2, <3>3, MoveKeeps DEF InPipeline
  <2> QED
    BY <2>1, <2>2
<1>3. CASE ParseFails(p)
      BY <1>1, <1>3 DEF ParseFails
<1>4. CASE ParseRaises(p) \/ StagesRaise(p)
      BY <1>4, RaiseKeeps DEF ParseRaises, StagesRaise
<1>5. ASSUME NEW flaw \in Flaws, Parse(p, flaw) PROVE InvOf(p)'
  <2>1. /\ pc[p] = "parse" /\ pc'[p] = "stages" /\ dir' = dir /\ cmd' = cmd /\ TempSame
        BY <1>5 DEF Parse, Goto, TypeOK
  <2>2. /\ ctx'[p].doc = [of |-> Reads(p), flaw |-> flaw]
        /\ ctx'[p].activated = ctx[p].activated
        BY <1>5, PartTypes DEF Parse, TypeOK, Contexts
  <2>3. ctx'[p].doc # Nothing
    <3>1. [of |-> Reads(p), flaw |-> flaw] \in Candidates
          BY <1>5 DEF Parse, Candidates
    <3> QED
      BY <2>2, <3>1, NothingElse
  <2>4. TempOf(p)' /\ DocumentOf(p)'
        BY <2>1, <2>3 DEF InvOf, TempOf, DocumentOf, InPipeline, Unparsed, Holding
  <2> QED
    BY <2>1, <2>2, <2>4, MoveKeeps DEF InPipeline
<1>6. ASSUME NEW flaw \in Flaws, AdapterParsed(p, flaw) PROVE InvOf(p)'
  <2>1. /\ pc[p] = "ingest" /\ pc'[p] = "stages" /\ dir' = dir /\ cmd' = cmd
        /\ Unlink({<<p, "adapter">>})
        BY <1>6 DEF AdapterParsed, Goto, TypeOK
  <2>2. /\ ctx'[p].doc = [ctx[p].doc EXCEPT !.flaw = flaw]
        /\ ctx'[p].activated = ctx[p].activated /\ ctx'[p].capture = ctx[p].capture
        BY <1>6, PartTypes DEF AdapterParsed, TypeOK, Contexts
  <2>3. ctx[p].doc \in Candidates
        BY <2>1, PartTypes DEF InvOf, DocumentOf, Holding, Contexts
  <2>4. ctx'[p].doc \in Candidates /\ ctx'[p].doc.of = ctx[p].doc.of
        BY <1>6, <2>2, <2>3 DEF Candidates
  <2>5. ctx'[p].doc # Nothing
        BY <2>4, NothingElse
  <2>6. TempOf(p)' /\ DocumentOf(p)'
    <3>1. <<p, "adapter">> \notin temp' \ kept'
          BY <2>1, UnlinkIs
    <3>2. TempOf(p)'
          BY <2>1, <3>1 DEF TempOf, InPipeline
    <3>3. DocumentOf(p)'
          BY <2>1, <2>5 DEF DocumentOf, Unparsed, Holding
    <3> QED
      BY <3>2, <3>3
  <2> QED
    BY <2>1, <2>2, <2>6, MoveKeeps DEF InPipeline
<1>7. CASE AdapterReads(p)
  <2>1. CASE Reads(p) \notin Contents \/ ctx[p].capture \notin {"", Reads(p)}
        BY <1>1, <1>7, <2>1 DEF AdapterReads
  <2>2. CASE ~(Reads(p) \notin Contents \/ ctx[p].capture \notin {"", Reads(p)})
    <3>1. /\ pc[p] = "adapter" /\ pc'[p] = "answer" /\ dir' = dir /\ cmd' = cmd /\ TempSame
          BY <1>7, <2>2 DEF AdapterReads, Goto, TypeOK
    <3>2. /\ ctx'[p].doc = [of |-> Reads(p), flaw |-> "none"]
          /\ ctx'[p].activated = ctx[p].activated /\ ctx'[p].capture = ctx[p].capture
      <4>1. PICK d : /\ ctx' = [ctx EXCEPT ![p].doc = d]
                     /\ d = [of |-> Reads(p), flaw |-> "none"]
            BY <1>7, <2>2 DEF AdapterReads
      <4> QED
        BY <4>1, PartTypes DEF TypeOK, Contexts
    <3>3. ctx'[p].doc # Nothing
      <4>1. [of |-> Reads(p), flaw |-> "none"] \in Candidates
            BY <2>2, RunAssumption DEF RunAssumption, Candidates
      <4> QED
        BY <3>2, <4>1, NothingElse
    <3>4. TempOf(p)'
          BY <3>1 DEF InvOf, TempOf, InPipeline
    <3>5. DocumentOf(p)'
          BY <3>1, <3>3 DEF DocumentOf, Unparsed, Holding
    <3> QED
      BY <3>1, <3>2, <3>4, <3>5, MoveKeeps DEF InPipeline
  <2> QED
    BY <2>1, <2>2
<1>8. CASE AdapterRefused(p)
  <2> DEFINE c == [ctx[p] EXCEPT !.errors = TRUE, !.doc = Nothing]
  <2>0. c \in Contexts
        BY PartTypes, ContextKeeps, Zenon
  <2>1. c.activated = ctx[p].activated /\ c.capture = ctx[p].capture /\ c.doc = Nothing
        BY PartTypes, Zenon DEF Contexts
  <2>2. ReturnWith(p, c) /\ pc[p] = "answer"
        BY <1>8 DEF AdapterRefused
  <2> HIDE DEF c
  <2> QED
    BY <2>0, <2>1, <2>2, ReturnKeeps
<1>9. CASE AdapterIngests(p)
  <2>1. /\ pc[p] = "answer" /\ pc'[p] = "ingest" /\ dir' = dir /\ cmd' = cmd /\ ctx' = ctx
        /\ temp' = temp \cup {<<p, "adapter">>} /\ kept' = kept
        BY <1>9 DEF AdapterIngests, Goto, TypeOK
  <2>2. TempOf(p)'
        BY <2>1 DEF InvOf, TempOf, InPipeline
  <2>3. DocumentOf(p)'
        BY <2>1 DEF InvOf, DocumentOf, Unparsed, Holding
  <2> QED
    BY <2>1, <2>2, <2>3, MoveKeeps DEF InPipeline
<1>10. CASE AdapterIngestFails(p)
  <2> DEFINE next == IF cmd[p].run = "validate" THEN "finalise" ELSE "mkdir"
  <2>1. /\ pc[p] = "ingest" /\ pc'[p] = next /\ dir' = dir /\ cmd' = cmd
        /\ Unlink({<<p, "adapter">>, <<p, "fetch">>})
        BY <1>10 DEF AdapterIngestFails, Goto, TypeOK
  <2>2. ctx'[p].doc = Nothing /\ ctx'[p].activated = ctx[p].activated
        BY <1>10, PartTypes DEF AdapterIngestFails, TypeOK, Contexts
  <2>3. next \in {"mkdir", "finalise"} /\ (cmd[p].gate => next = "mkdir")
        BY DEF TypeOK, Cmd
  <2> HIDE DEF next
  <2>4. TempOf(p)'
    <3>1. <<p, "fetch">> \notin temp' \ kept' /\ <<p, "adapter">> \notin temp' \ kept'
          BY <2>1, UnlinkIs
    <3> QED
      BY <3>1 DEF TempOf
  <2>5. DocumentOf(p)'
        BY <2>1, <2>2, <2>3 DEF InvOf, DocumentOf, Unparsed, Holding
  <2>6. StagingOf(p)'
        BY <2>1, <2>3 DEF InvOf, StagingOf, Unparsed, Unreported, Reported
  <2>7. GateOf(p)' /\ ExitOf(p)'
        BY <2>1, <2>2, <2>3 DEF InvOf, GateOf, ExitOf
  <2> QED
    BY <2>4, <2>5, <2>6, <2>7 DEF InvOf
<1>11. ASSUME NEW errors \in BOOLEAN, NEW low \in BOOLEAN, Stages(p, errors, low)
       PROVE  InvOf(p)'
  <2> DEFINE c == [ctx[p] EXCEPT !.manifest = TRUE, !.errors = errors, !.low = low]
  <2>0. c \in Contexts
        BY PartTypes, ContextKeeps, Zenon
  <2>1. c.activated = ctx[p].activated /\ c.capture = ctx[p].capture /\ c.doc = ctx[p].doc
        BY PartTypes, Zenon DEF Contexts
  <2>2. ReturnWith(p, c) /\ pc[p] = "stages"
        BY <1>11 DEF Stages
  <2> HIDE DEF c
  <2> QED
    BY <2>0, <2>1, <2>2, ReturnKeeps
<1> QED
  BY <1>2, <1>3, <1>4, <1>5, <1>6, <1>7, <1>8, <1>9, <1>10, <1>11 DEF Pipeline

LEMMA ExportKeeps ==
  ASSUME TypeOK, NEW p \in Procs, InvOf(p), Export(p)
  PROVE  InvOf(p)'
<1> USE DEF Write, Advance, At, TempSame
<1>1. CASE ExportRaises(p)
      BY <1>1, RaiseKeeps DEF ExportRaises
<1>2. ASSUME NEW from, NEW to, Write(p, from, to)
      PROVE  /\ pc[p] = from /\ pc'[p] = to /\ ctx' = ctx /\ cmd' = cmd /\ TempSame
      BY <1>2 DEF Goto, TypeOK
<1>3. CASE ExportNothing(p)
  <2>1. /\ pc[p] = "mkdir" /\ pc'[p] = "finalise" /\ ctx' = ctx /\ cmd' = cmd /\ TempSame
        /\ dir' = dir /\ ctx[p].doc = Nothing
        BY <1>2, <1>3 DEF ExportNothing
  <2>2. cmd[p].gate => ~Accepted(p)
        BY <2>1 DEF InvOf, StagingOf, Unreported, Accepted, HasReport
  <2>3. TempOf(p)' /\ DocumentOf(p)'
        BY <2>1 DEF InvOf, TempOf, DocumentOf, InPipeline, Unparsed, Holding
  <2>4. StagingOf(p)'
        BY <2>1, <2>2 DEF StagingOf, Unparsed, Unreported, Reported, Accepted, HasReport
  <2>5. GateOf(p)' /\ ExitOf(p)'
        BY <2>1 DEF InvOf, GateOf, ExitOf
  <2> QED
    BY <2>3, <2>4, <2>5 DEF InvOf
<1>4. CASE ExportDir(p)
  <2>1. /\ pc[p] = "mkdir" /\ pc'[p] = "markdown" /\ ctx' = ctx /\ cmd' = cmd /\ TempSame
        /\ ctx[p].doc # Nothing
        BY <1>2, <1>4 DEF ExportDir
  <2>2. dir'[p].report = dir[p].report
        BY <1>4, PartTypes DEF ExportDir, MakeDir, TypeOK, Dirs
  <2>3. TempOf(p)' /\ DocumentOf(p)'
        BY <2>1 DEF InvOf, TempOf, DocumentOf, InPipeline, Unparsed, Holding
  <2>4. StagingOf(p)'
        BY <2>1, <2>2 DEF InvOf, StagingOf, Unparsed, Unreported, Reported
  <2>5. GateOf(p)' /\ ExitOf(p)'
        BY <2>1 DEF InvOf, GateOf, ExitOf
  <2> QED
    BY <2>3, <2>4, <2>5 DEF InvOf
<1>5. CASE ExportMarkdown(p)
  <2>1. /\ pc[p] = "markdown" /\ pc'[p] = "json" /\ ctx' = ctx /\ cmd' = cmd /\ TempSame
        BY <1>2, <1>5 DEF ExportMarkdown
  <2>2. /\ dir'[p].report = dir[p].report
        /\ cmd[p].gate => dir'[p].md = ctx[p].doc
        BY <1>5, OutDirType, PartTypes DEF ExportMarkdown, PutMarkdown, TypeOK, Dirs
  <2>3. TempOf(p)' /\ DocumentOf(p)'
        BY <2>1 DEF InvOf, TempOf, DocumentOf, InPipeline, Unparsed, Holding
  <2>4. StagingOf(p)'
        BY <2>1, <2>2 DEF InvOf, StagingOf, Unparsed, Unreported, Reported
  <2>5. GateOf(p)' /\ ExitOf(p)'
        BY <2>1 DEF InvOf, GateOf, ExitOf
  <2> QED
    BY <2>3, <2>4, <2>5 DEF InvOf
<1>6. CASE ExportJson(p)
  <2>1. /\ pc[p] = "json" /\ pc'[p] = "assess" /\ ctx' = ctx /\ cmd' = cmd /\ TempSame
        BY <1>2, <1>6 DEF ExportJson
  <2>2. dir'[p].report = dir[p].report /\ dir'[p].md = dir[p].md
        BY <1>6, PartTypes DEF ExportJson, PutJson, TypeOK, Dirs
  <2>3. TempOf(p)' /\ DocumentOf(p)'
        BY <2>1 DEF InvOf, TempOf, DocumentOf, InPipeline, Unparsed, Holding
  <2>4. StagingOf(p)'
        BY <2>1, <2>2 DEF InvOf, StagingOf, Unparsed, Unreported, Reported
  <2>5. GateOf(p)' /\ ExitOf(p)'
        BY <2>1 DEF InvOf, GateOf, ExitOf
  <2> QED
    BY <2>3, <2>4, <2>5 DEF InvOf
<1>7. CASE ExportAssessment(p)
  <2>1. /\ pc[p] = "assess" /\ pc'[p] \in {"package", "finalise"}
        /\ (cmd[p].run # "package" => pc'[p] = "finalise")
        /\ ctx' = ctx /\ cmd' = cmd /\ TempSame
        BY <1>2, <1>7 DEF ExportAssessment
  <2>2. ctx[p].doc \in Candidates
        BY <2>1, PartTypes DEF InvOf, DocumentOf, Holding, Contexts
  <2>3. ASSUME cmd[p].gate, Accepted(p)' PROVE Faithful(p, dir'[p].report.source)
    <3>1. dir[p].report = Nothing /\ dir[p].md = ctx[p].doc
          BY <2>1, <2>3 DEF InvOf, StagingOf, Unreported
    <3>2. Assessable(p)
          BY <1>7, <2>3, <3>1 DEF ExportAssessment, Accepted, HasReport
    <3>3. dir'[p].report = Report(p, ctx[p].doc, Reads(p))
          BY <1>7, <2>3, <3>1, <3>2, OutDirType, PartTypes
          DEF ExportAssessment, PutReport, TypeOK, Dirs
    <3>4. /\ dir'[p].report.source = Reads(p)
          /\ Assess(DefaultPolicy, Observe(p, ctx[p].doc, Reads(p))) = "ACCEPT"
          BY <2>3, <3>3 DEF Accepted, HasReport, Report
    <3> QED
      BY <2>2, <3>4, AcceptMeansFaithful, NothingElse DEF Faithful
  <2>4. TempOf(p)' /\ DocumentOf(p)'
        BY <2>1, <2>2, NothingElse DEF InvOf, TempOf, DocumentOf, InPipeline, Unparsed, Holding
  <2>5. StagingOf(p)'
        BY <2>1, <2>3 DEF StagingOf, Unparsed, Unreported, Reported, Faithful
  <2>6. GateOf(p)' /\ ExitOf(p)'
        BY <2>1 DEF InvOf, GateOf, ExitOf
  <2> QED
    BY <2>4, <2>5, <2>6 DEF InvOf
<1>8. CASE WritePackage(p)
  <2>1. /\ pc[p] = "package" /\ pc'[p] = "finalise" /\ ctx' = ctx /\ cmd' = cmd /\ TempSame
        BY <1>2, <1>8 DEF WritePackage
  <2>2. dir'[p].report = dir[p].report
        BY <1>8, PartTypes DEF WritePackage, PutPackage, TypeOK, Dirs
  <2>3. TempOf(p)' /\ DocumentOf(p)'
        BY <2>1 DEF InvOf, TempOf, DocumentOf, InPipeline, Unparsed, Holding
  <2>4. StagingOf(p)'
        BY <2>1, <2>2 DEF InvOf, StagingOf, Unparsed, Unreported, Reported, Accepted,
                          HasReport, Faithful
  <2>5. GateOf(p)' /\ ExitOf(p)'
        BY <2>1 DEF InvOf, GateOf, ExitOf
  <2> QED
    BY <2>3, <2>4, <2>5 DEF InvOf
<1>9. CASE Finalise(p)
  <2>1. /\ pc[p] = "finalise" /\ pc'[p] = (IF cmd[p].gate THEN "gate" ELSE "exit")
        /\ ctx' = ctx /\ cmd' = cmd /\ TempSame /\ dir' = dir
        BY <1>2, <1>9 DEF Finalise
  <2>2. TempOf(p)' /\ DocumentOf(p)'
        BY <2>1 DEF InvOf, TempOf, DocumentOf, InPipeline, Unparsed, Holding
  <2>3. StagingOf(p)'
        BY <2>1 DEF InvOf, StagingOf, Unparsed, Unreported, Reported, Accepted, HasReport,
                    Faithful
  <2>4. GateOf(p)' /\ ExitOf(p)'
        BY <2>1 DEF InvOf, GateOf, ExitOf
  <2> QED
    BY <2>2, <2>3, <2>4 DEF InvOf
<1> QED
  BY <1>1, <1>3, <1>4, <1>5, <1>6, <1>7, <1>8, <1>9 DEF Export

LEMMA GateFailsKeeps ==
  ASSUME TypeOK, NEW p \in Procs, InvOf(p), GateFails(p),
         pc[p] \in {"verify", "exists", "rename"}
  PROVE  InvOf(p)'
<1> USE DEF TempSame
<1>1. /\ pc'[p] = "exit" /\ cmd' = cmd /\ TempSame /\ dir' = dir
      BY DEF GateFails, Goto, TypeOK
<1>2. /\ ctx'[p].gateError /\ ctx'[p].doc = ctx[p].doc /\ ctx'[p].capture = ctx[p].capture
      /\ ctx'[p].activated = ctx[p].activated
      BY PartTypes DEF GateFails, TypeOK, Contexts
<1>3. TempOf(p)' /\ DocumentOf(p)'
      BY <1>1, <1>2 DEF InvOf, TempOf, DocumentOf, InPipeline, Unparsed, Holding
<1>4. StagingOf(p)'
      BY <1>1 DEF StagingOf, Unparsed, Unreported, Reported
<1>5. GateOf(p)' /\ ExitOf(p)'
      BY <1>1, <1>2 DEF InvOf, GateOf, ExitOf
<1> QED
  BY <1>3, <1>4, <1>5 DEF InvOf

LEMMA GateKeeps ==
  ASSUME TypeOK, NEW p \in Procs, InvOf(p), Gate(p)
  PROVE  InvOf(p)'
<1> USE DEF At, TempSame
<1>1. CASE ReadReport(p)
  <2> DEFINE go == Accepted(p) /\ ~ctx[p].errors /\ ~ctx[p].low
  <2>1. /\ pc[p] = "gate" /\ pc'[p] = (IF go THEN "verify" ELSE "exit")
        /\ cmd' = cmd /\ TempSame /\ dir' = dir
        BY <1>1 DEF ReadReport, Goto, TypeOK
  <2>2. /\ ctx'[p].gateError = ~HasReport(p) /\ ctx'[p].doc = ctx[p].doc
        /\ ctx'[p].capture = ctx[p].capture /\ ctx'[p].activated = ctx[p].activated
        /\ ctx'[p].errors = ctx[p].errors /\ ctx'[p].low = ctx[p].low
    <3>1. PICK e : ctx' = [ctx EXCEPT ![p].gateError = e] /\ e = ~HasReport(p)
          BY <1>1 DEF ReadReport
    <3> QED
      BY <3>1, PartTypes DEF TypeOK, Contexts
  <2>3. cmd[p].gate /\ ~ctx[p].activated
        BY <2>1 DEF InvOf, GateOf, ExitOf
  <2>4. Accepted(p)' = Accepted(p) /\ HasReport(p)' = HasReport(p)
        BY <2>1 DEF Accepted, HasReport
  <2>5. TempOf(p)' /\ DocumentOf(p)'
        BY <2>1, <2>2 DEF InvOf, TempOf, DocumentOf, InPipeline, Unparsed, Holding
  <2>6. StagingOf(p)'
        BY <2>1, <2>2, <2>4 DEF InvOf, StagingOf, Unparsed, Unreported, Reported, Faithful
  <2>7. GateOf(p)'
        BY <2>1, <2>2, <2>3, <2>4 DEF GateOf, Accepted
  <2>8. ExitOf(p)'
        BY <2>1, <2>2, <2>3, <2>4 DEF ExitOf, NotAccepted
  <2> QED
    BY <2>5, <2>6, <2>7, <2>8 DEF InvOf
<1>2. CASE Verify(p) /\ Verified(p)
  <2>1. /\ pc[p] = "verify" /\ pc'[p] = "exists" /\ cmd' = cmd /\ TempSame /\ dir' = dir
        BY <1>2 DEF Verify, Goto, TypeOK
  <2>2. /\ ctx'[p].verified = Reads(p) /\ ctx'[p].doc = ctx[p].doc
        /\ ctx'[p].capture = ctx[p].capture /\ ctx'[p].activated = ctx[p].activated
        /\ ctx'[p].errors = ctx[p].errors /\ ctx'[p].low = ctx[p].low
        /\ ctx'[p].gateError = ctx[p].gateError
    <3>1. PICK c : ctx' = [ctx EXCEPT ![p].verified = c] /\ c = Reads(p)
          BY <1>2 DEF Verify
    <3> QED
      BY <3>1, PartTypes DEF TypeOK, Contexts
  <2>3. Accepted(p)' = Accepted(p)
        BY <2>1 DEF Accepted, HasReport
  <2>4. TempOf(p)' /\ DocumentOf(p)'
        BY <2>1, <2>2 DEF InvOf, TempOf, DocumentOf, InPipeline, Unparsed, Holding
  <2>5. StagingOf(p)'
        BY <2>1, <2>2, <2>3 DEF InvOf, StagingOf, Unparsed, Unreported, Reported, Faithful
  <2>6. Remote(p) => <<p, "fetch">> \in kept
    <3>1. Remote(p) => <<p, "fetch">> \in temp
          BY <1>2 DEF Verified, Reads
    <3> QED
      BY <2>1, <3>1 DEF InvOf, TempOf, InPipeline
  <2>7. GateOf(p)'
        BY <1>2, <2>1, <2>2, <2>3, <2>6 DEF InvOf, GateOf, Verified, Remote
  <2>8. ExitOf(p)'
        BY <2>1, <2>2 DEF InvOf, ExitOf
  <2> QED
    BY <2>4, <2>5, <2>7, <2>8 DEF InvOf
<1>3. CASE (Verify(p) /\ ~Verified(p)) \/ RefuseExisting(p) \/ RenameFails(p)
      BY <1>3, GateFailsKeeps DEF Verify, RefuseExisting, RenameFails
<1>4. CASE FinalIsFree(p)
  <2>1. /\ pc[p] = "exists" /\ pc'[p] = "rename" /\ cmd' = cmd /\ TempSame /\ dir' = dir
        /\ ctx' = ctx
        BY <1>4 DEF FinalIsFree, Goto, TypeOK
  <2>2. Accepted(p)' = Accepted(p)
        BY <2>1 DEF Accepted, HasReport
  <2>3. TempOf(p)' /\ DocumentOf(p)'
        BY <2>1 DEF InvOf, TempOf, DocumentOf, InPipeline, Unparsed, Holding
  <2>4. StagingOf(p)'
        BY <2>1, <2>2 DEF InvOf, StagingOf, Unparsed, Unreported, Reported, Faithful
  <2>5. GateOf(p)' /\ ExitOf(p)'
        BY <2>1, <2>2 DEF InvOf, GateOf, ExitOf, Remote
  <2> QED
    BY <2>3, <2>4, <2>5 DEF InvOf
<1>5. CASE Rename(p)
  <2>1. /\ pc[p] = "rename" /\ pc'[p] = "exit" /\ cmd' = cmd /\ TempSame
        BY <1>5 DEF Rename, Goto, TypeOK
  <2>2. /\ ctx'[p].activated /\ ctx'[p].verified = ctx[p].verified /\ ctx'[p].doc = ctx[p].doc
        /\ ctx'[p].capture = ctx[p].capture /\ ctx'[p].errors = ctx[p].errors
        /\ ctx'[p].low = ctx[p].low /\ ctx'[p].gateError = ctx[p].gateError
        BY <1>5, PartTypes DEF Rename, TypeOK, Contexts
  <2>3. dir'[p].report = Nothing
        BY <1>5 DEF Rename, Promote, NoDir, TypeOK
  <2>4. Promoted(p)'
    <3>1. Accepted(p) /\ cmd[p].gate
          BY <2>1 DEF InvOf, GateOf
    <3>2. Faithful(p, ctx[p].capture)
          BY <2>1, <3>1 DEF InvOf, StagingOf, GateOf, Reported
    <3>3. Faithful(p, ctx[p].capture)'
          BY <2>1, <2>2, <3>2 DEF Faithful
    <3> QED
      BY <2>1, <2>2, <2>3, <3>1, <3>3 DEF InvOf, GateOf, Promoted, Remote
  <2>5. TempOf(p)' /\ DocumentOf(p)'
        BY <2>1, <2>2 DEF InvOf, TempOf, DocumentOf, InPipeline, Unparsed, Holding
  <2>6. StagingOf(p)' /\ GateOf(p)'
        BY <2>1 DEF StagingOf, GateOf, Unparsed, Unreported, Reported
  <2>7. ExitOf(p)'
        BY <2>1, <2>2, <2>4 DEF ExitOf
  <2> QED
    BY <2>5, <2>6, <2>7 DEF InvOf
<1> QED
  BY <1>1, <1>2, <1>3, <1>4, <1>5 DEF Gate

\* The start, a refusal of the options, the exit code and a kill.
LEMMA RestKeeps ==
  ASSUME TypeOK, NEW p \in Procs, InvOf(p),
         Start(p) \/ BadSizes(p) \/ Exit(p) \/ Kill(p)
  PROVE  InvOf(p)'
<1> USE DEF At, TempSame
<1>1. CASE Start(p)
  <2>1. /\ pc[p] = "idle" /\ pc'[p] \in {"stat", "fetch"}
        /\ ctx' = ctx /\ cmd' = cmd /\ TempSame
        BY <1>1 DEF Start, Goto, TypeOK
  <2>2. cmd[p].gate => dir'[p].report = Nothing
        BY <1>1 DEF Start, MakeStaging, EmptyDir, NoDir, TypeOK
  <2>3. TempOf(p)' /\ DocumentOf(p)'
        BY <2>1 DEF InvOf, TempOf, DocumentOf, InPipeline, Unparsed, Holding
  <2>4. StagingOf(p)'
        BY <2>1, <2>2 DEF StagingOf, Unparsed, Unreported, Reported
  <2>5. GateOf(p)' /\ ExitOf(p)'
        BY <2>1 DEF InvOf, GateOf, ExitOf
  <2> QED
    BY <2>3, <2>4, <2>5 DEF InvOf
<1>2. CASE BadSizes(p)
      BY <1>2, RaiseKeeps DEF BadSizes
<1>3. CASE Exit(p)
  <2>1. /\ pc[p] = "exit" /\ pc'[p] = "done" /\ cmd' = cmd /\ TempSame /\ dir' = dir
        BY <1>3 DEF Exit, Goto, TypeOK
  <2>2. /\ ctx'[p].activated = ctx[p].activated /\ ctx'[p].verified = ctx[p].verified
        /\ ctx'[p].doc = ctx[p].doc /\ ctx'[p].capture = ctx[p].capture
        /\ ctx'[p].errors = ctx[p].errors /\ ctx'[p].low = ctx[p].low
        /\ ctx'[p].gateError = ctx[p].gateError
    <3>1. PICK n : ctx' = [ctx EXCEPT ![p].code = n]
          BY <1>3 DEF Exit
    <3> QED
      BY <3>1, PartTypes DEF TypeOK, Contexts
  <2>3. ctx'[p].code = ExitCode(p)
        BY <1>3, PartTypes DEF Exit, TypeOK, Contexts
  <2>4. cmd[p].gate => (ExitCode(p) = 0 <=> ctx[p].activated)
    <3>1. cmd[p].gate => cmd[p].run # "validate"
          BY DEF TypeOK, Cmd
    <3>2. ctx[p].activated =>
            ~ctx[p].errors /\ ~ctx[p].low /\ ~ctx[p].gateError /\ ~NotAccepted(p)
          BY DEF InvOf, ExitOf, Promoted, NotAccepted, HasReport
    <3>3. cmd[p].gate /\ ~ctx[p].activated =>
            ctx[p].errors \/ ctx[p].low \/ ctx[p].gateError \/ NotAccepted(p)
          BY <2>1 DEF InvOf, ExitOf
    <3> QED
      BY <3>1, <3>2, <3>3 DEF ExitCode, JsonCode, RichCode
  <2>5. TempOf(p)' /\ DocumentOf(p)'
        BY <2>1, <2>2 DEF InvOf, TempOf, DocumentOf, InPipeline, Unparsed, Holding
  <2>6. StagingOf(p)' /\ GateOf(p)'
        BY <2>1 DEF StagingOf, GateOf, Unparsed, Unreported, Reported
  <2>7. Promoted(p)' <=> Promoted(p)
        BY <2>1, <2>2 DEF Promoted, Faithful, Remote
  <2>8. ExitOf(p)'
        BY <2>1, <2>2, <2>3, <2>4, <2>7 DEF InvOf, ExitOf
  <2> QED
    BY <2>5, <2>6, <2>8 DEF InvOf
<1>4. CASE Kill(p)
  <2>1. pc'[p] = "killed" /\ ctx' = ctx /\ cmd' = cmd /\ TempSame /\ dir' = dir
        BY <1>4 DEF Kill, Goto, TypeOK
  <2>2. TempOf(p)' /\ DocumentOf(p)'
        BY <1>4, <2>1 DEF Kill, InvOf, TempOf, DocumentOf, InPipeline, Unparsed, Holding
  <2>3. StagingOf(p)' /\ GateOf(p)'
        BY <2>1 DEF StagingOf, GateOf, Unparsed, Unreported, Reported
  <2>4. Promoted(p)' <=> Promoted(p)
        BY <2>1 DEF Promoted, Faithful, Remote
  <2>5. ExitOf(p)'
        BY <2>1, <2>4 DEF InvOf, ExitOf
  <2> QED
    BY <2>2, <2>3, <2>5 DEF InvOf
<1> QED
  BY <1>1, <1>2, <1>3, <1>4

LEMMA StepKeeps ==
  ASSUME TypeOK, NEW p \in Procs, InvOf(p), Step(p)
  PROVE  InvOf(p)'
BY FetchKeeps, PipelineKeeps, ExportKeeps, GateKeeps, RestKeeps DEF Step

\* An edit of the source changes nothing a process holds.
LEMMA EditKeeps ==
  ASSUME TypeOK, NEW file \in Files, Edit(file)
  PROVE  TypeOK' /\ \A q \in Procs : Same(q)
BY DEF Edit, TypeOK, Same

-----------------------------------------------------------------------------
(* The invariant is inductive *)

LEMMA InitIInv == Init => IInv
<1> SUFFICES ASSUME Init PROVE IInv
    OBVIOUS
<1>1. TypeOK
  <2>1. NoDir \in Dirs
        BY DEF NoDir, Dirs
  <2>2. NewCtx \in Contexts
        BY DEF NewCtx, Contexts
  <2>3. dir \in [Procs \cup {Final} -> Dirs]
        BY <2>1 DEF Init, DirInit
  <2>4. ctx \in [Procs -> Contexts]
        BY <2>2 DEF Init
  <2>5. cmd \in [Procs -> Cmd]
        BY RunAssumption DEF Init, RunAssumption
  <2>6. pc \in [Procs -> Labels]
        BY DEF Init, Labels
  <2>7. /\ source \in Files /\ temp \subseteq Procs \X {"fetch", "adapter"}
        /\ kept \subseteq Procs \X {"fetch", "adapter"}
        BY FilesAre DEF Init
  <2> QED
    BY <2>3, <2>4, <2>5, <2>6, <2>7 DEF TypeOK
<1>2. ASSUME NEW p \in Procs PROVE InvOf(p)
  <2>1. pc[p] = "idle" /\ temp = {} /\ ctx[p] = NewCtx /\ dir[p] = NoDir
        BY DEF Init, DirInit
  <2>2. ctx[p].doc = Nothing /\ ~ctx[p].activated /\ dir[p].report = Nothing
    <3>1. NewCtx.doc = Nothing /\ NewCtx.activated = FALSE
          BY DEF NewCtx
    <3>2. NoDir.report = Nothing
          BY DEF NoDir
    <3> QED
      BY <2>1, <3>1, <3>2
  <2>3. TempOf(p) /\ DocumentOf(p)
        BY <2>1, <2>2 DEF TempOf, DocumentOf, Unparsed, Holding
  <2>4. StagingOf(p) /\ GateOf(p) /\ ExitOf(p)
        BY <2>1, <2>2 DEF StagingOf, GateOf, ExitOf, Unparsed, Unreported, Reported
  <2> QED
    BY <2>3, <2>4 DEF InvOf
<1> QED
  BY <1>1, <1>2 DEF IInv

\* Every step is one of a process, an edit of the source, or none.
LEMMA NextIs == Next => (\E p \in Procs : Step(p)) \/ (\E file \in Files : Edit(file))
BY DEF Next, Step

LEMMA NextIInv == IInv /\ [Next]_vars => IInv'
<1> SUFFICES ASSUME IInv, [Next]_vars PROVE IInv'
    OBVIOUS
<1>1. ASSUME NEW p \in Procs, Step(p) PROVE IInv'
  <2>1. TypeOK' /\ InvOf(p)'
        BY <1>1, StepType, StepKeeps DEF IInv
  <2>2. ASSUME NEW q \in Procs, q # p PROVE InvOf(q)'
        BY <1>1, <2>2, OthersSame, SameKeeps DEF IInv
  <2> QED
    BY <2>1, <2>2 DEF IInv
<1>2. ASSUME NEW file \in Files, Edit(file) PROVE IInv'
      BY <1>2, EditKeeps, SameKeeps DEF IInv
<1>3. CASE UNCHANGED vars
  <2>1. TypeOK' /\ \A q \in Procs : Same(q)
        BY <1>3 DEF vars, IInv, TypeOK, Same
  <2> QED
    BY <2>1, SameKeeps DEF IInv
<1> QED
  BY <1>1, <1>2, <1>3, NextIs

LEMMA Inductive == Spec => []IInv
BY InitIInv, NextIInv, PTL DEF Spec

-----------------------------------------------------------------------------
(* The theorems *)

\* Whatever the processes, the editor and the faults do, the variables keep their
\* types.
THEOREM TypeCorrect == Spec => []TypeOK
<1>1. IInv => TypeOK
      BY DEF IInv
<1> QED
  BY <1>1, Inductive, PTL

\* What the gate promotes is a flawless document with the wording of the captured
\* bytes, which the verification found in the source again (compiler_binding.py:101).
THEOREM PromotedSound == Spec => []PromotedIsVerified
<1>1. IInv => PromotedIsVerified
      BY DEF IInv, InvOf, ExitOf, Promoted, Faithful, PromotedIsVerified
<1> QED
  BY <1>1, Inductive, PTL

\* A gated command exits 0 exactly when it has promoted (cli.py:1023-1062).
THEOREM ExitSound == Spec => []ExitTellsActivation
<1>1. IInv => ExitTellsActivation
      BY DEF IInv, InvOf, ExitOf, ExitTellsActivation
<1> QED
  BY <1>1, Inductive, PTL

\* Temporary files do not outlive the pipeline of a process that was not killed,
\* unless their deletion has failed (compiler.py:344, 619, 1330).
THEOREM TempSound == Spec => []NoTempLeft
<1>1. IInv => NoTempLeft
  <2> SUFFICES ASSUME IInv, NEW t \in temp \ kept
               PROVE  pc[t[1]] \in InPipeline \cup {"killed"}
      BY DEF NoTempLeft
  <2>1. PICK p \in Procs, kind \in {"fetch", "adapter"} : t = <<p, kind>>
        BY DEF IInv, TypeOK
  <2>2. pc[p] \in InPipeline \cup {"killed"}
        BY <2>1 DEF IInv, InvOf, TempOf, InPipeline
  <2> QED
    BY <2>1, <2>2
<1> QED
  BY <1>1, Inductive, PTL

\* The gate promotes no remote source, unless the deletion of its download has
\* failed (compiler.py:1330 before cli.py:762).
THEOREM RemoteSound == Spec => []RemoteHeldBack
<1>1. IInv => RemoteHeldBack
      BY DEF IInv, InvOf, ExitOf, Promoted, RemoteHeldBack
<1> QED
  BY <1>1, Inductive, PTL
=============================================================================
