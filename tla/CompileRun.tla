----------------------------- MODULE CompileRun -----------------------------
(***************************************************************************)
(* The compile command from the source to the output directory: fetch,      *)
(* capture, parse (by a built-in parser or by an external adapter), the     *)
(* stages, the exporters, and the assessment gate that promotes a staged    *)
(* generation (compiler.py, cli.py compile and validate,                    *)
(* assessment/compiler_binding.py).  Several processes compile the same     *)
(* source into the same output while an editor changes the source: it is    *)
(* read when the capture hash is taken, when it is parsed, when it is       *)
(* assessed and when the gate verifies the report.                          *)
(*                                                                         *)
(* A candidate is what a parse made of some content: the content and the    *)
(* flaw of the conversion.  "edited" differs in words only, "lossy" misses  *)
(* a critical literal, "truncated" declares itself partial, "broken" keeps  *)
(* the text of a source with an open fence or with U+FFFD in it.            *)
(*                                                                         *)
(* Contents of one wording differ only in what the text comparison passes   *)
(* over: heading marks, emphasis, wrapping, the order of label lines.       *)
(***************************************************************************)
EXTENDS StagedOutput, Assessment

CONSTANTS Contents,    \* what the source file may hold
          Wording,     \* the wording of each content
          Undeletable, \* temporary files whose deletion may fail
          Flaws,       \* what a conversion may do to it
          Commands,    \* which commands the processes may be given
          MaxFaults    \* bound: edits, flaws, errors, exceptions and kills

\* A command: what runs, where the source is, the options that matter here.
\* Only compile and package have the gate and, with it, a task profile; only a
\* caller of the API has an adapter, and then no gate.
Options == [run : {"compile", "package", "validate"},
        from : {"local", "remote", "unknown"},
        media : {"markdown", "html", "binary"},
        gate : BOOLEAN, adapter : BOOLEAN, safe : BOOLEAN, json : BOOLEAN,
        profile : {"none", "met", "unmet"}]

Cmd == {c \in Options : /\ c.gate => c.run # "validate" /\ ~c.adapter
                        /\ c.profile # "none" => c.gate}

ASSUME RunAssumption ==
  /\ {"", "absent", "oversize"} \cap Contents = {}
  /\ Contents # {}
  /\ "none" \in Flaws
  /\ Flaws \subseteq {"none", "edited", "lossy", "truncated", "broken"}
  /\ Nothing \notin [of : Contents, flaw : Flaws]
  /\ Undeletable \subseteq Procs \X {"fetch", "adapter"}
  /\ Commands \subseteq [Procs -> Cmd]
  /\ MaxFaults \in Nat

VARIABLES source,      \* the local file: a content, "absent" or "oversize"
          temp,        \* temporary files: <<process, "fetch" or "adapter">>
          kept,        \* history: those whose deletion has failed
          pc,          \* where each process is
          cmd,         \* the command and options of each
          ctx,         \* its CompilationContext and what the gate knows
          faults       \* how much has gone wrong

vars == <<source, temp, kept, pc, cmd, ctx, faults, dir>>

Candidates == [of : Contents, flaw : Flaws]

Files == Contents \cup {"absent", "oversize"}

NewCtx == [fetched |-> "", capture |-> "", doc |-> Nothing, errors |-> FALSE,
           manifest |-> FALSE, low |-> FALSE, gateError |-> FALSE,
           verified |-> "", activated |-> FALSE, code |-> 9]

Init ==
  /\ DirInit
  /\ source \in Contents
  /\ temp = {} /\ kept = {}
  /\ pc = [p \in Procs |-> "idle"]
  /\ cmd \in Commands
  /\ ctx = [p \in Procs |-> NewCtx]
  /\ faults = 0

Goto(p, label) == pc' = [pc EXCEPT ![p] = label]

At(p, label) == pc[p] = label

\* Something the bound counts, and a step on the ordinary way.
Fault == faults < MaxFaults /\ faults' = faults + 1

Ordinary == faults' = faults

FaultIf(cond) == IF cond THEN Fault ELSE Ordinary

Remote(p) == cmd[p].from = "remote"

\* Mutant of Reads: the download is still there for the gate.
ReadsFetched(p) == IF Remote(p) THEN ctx[p].fetched ELSE source

\* What reading ctx.source gives p: the local file, or the download while it is
\* there.
Reads(p) ==
  IF Remote(p)
  THEN IF <<p, "fetch">> \in temp THEN ctx[p].fetched ELSE "absent"
  ELSE source

OutDir(p) == IF cmd[p].gate THEN p ELSE Final

\* Path.unlink of temporary files that may be there: it may fail for some.
Unlink(files) ==
  \E left \in SUBSET (files \cap temp \cap Undeletable) :
    /\ temp' = (temp \ files) \cup left
    /\ kept' = kept \cup left

\* The pipeline returns, with or without a document: its finally clause deletes
\* the download, and only logs that it could not.
ReturnWith(p, context) ==
  /\ ctx' = [ctx EXCEPT ![p] = context]
  /\ Unlink({<<p, "fetch">>})
  /\ Goto(p, IF cmd[p].run = "validate" THEN "finalise" ELSE "mkdir")
  /\ UNCHANGED <<source, cmd, dir>>

ReturnError(p) == ReturnWith(p, [ctx[p] EXCEPT !.errors = TRUE])

\* An exception no handler of the command catches: a traceback and exit code 1,
\* after the finally clauses.  Behind the pipeline there is nothing left to
\* delete, or what could not be deleted.
Raise(p) ==
  /\ ctx' = [ctx EXCEPT ![p].code = 1]
  /\ Unlink({<<p, "fetch">>} \ kept)
  /\ Goto(p, "done")
  /\ UNCHANGED <<source, cmd, dir>>

Advance(p, from, to) ==
  /\ At(p, from)
  /\ Goto(p, to)

-----------------------------------------------------------------------------
(* cli.compile and cli.validate: the start *)

\* A gated compile makes its staging directory before the Compiler is built.
Start(p) ==
  /\ At(p, "idle")
  /\ IF cmd[p].gate THEN MakeStaging(p) ELSE UNCHANGED dir
  /\ Goto(p, IF cmd[p].from = "local" THEN "stat" ELSE "fetch")
  /\ UNCHANGED <<source, temp, kept, cmd, ctx, faults>>

\* The Compiler refuses its chunk sizes: exit 1, the staging directory stays.
BadSizes(p) ==
  /\ At(p, "stat") \/ At(p, "fetch")
  /\ ctx[p] = NewCtx
  /\ Raise(p) /\ Fault

-----------------------------------------------------------------------------
(* _fetch_url_to_temp and _fetch_s3_to_temp *)

\* Safe mode, an unknown scheme, or a ValueError: no address, a private one, no
\* answer, a redirect, a Content-Length over the limit.
FetchRefused(p) ==
  /\ At(p, "fetch")
  /\ ReturnError(p) /\ FaultIf(Remote(p) /\ ~cmd[p].safe)

\* raise_for_status raises what _run_pipeline does not catch.
FetchRaises(p) ==
  /\ At(p, "fetch") /\ Remote(p) /\ ~cmd[p].safe
  /\ Raise(p) /\ Fault

BeginDownload(p) ==
  /\ At(p, "fetch") /\ Remote(p) /\ ~cmd[p].safe
  /\ temp' = temp \cup {<<p, "fetch">>}
  /\ Goto(p, "download")
  /\ UNCHANGED <<source, kept, cmd, ctx, faults, dir>>

FinishDownload(p) ==
  /\ At(p, "download")
  /\ \E c \in Contents : ctx' = [ctx EXCEPT ![p].fetched = c]
  /\ Goto(p, "stat")
  /\ UNCHANGED <<source, temp, kept, cmd, faults, dir>>

\* Mutant of DownloadFails: the partial file is left when the body fails.
DownloadFailsKeepingFile(p) ==
  /\ At(p, "download")
  /\ ctx' = [ctx EXCEPT ![p].errors = TRUE]
  /\ Goto(p, IF cmd[p].run = "validate" THEN "finalise" ELSE "mkdir")
  /\ Fault
  /\ UNCHANGED <<source, temp, kept, cmd, dir>>

\* Over the limit (a ValueError) or a broken stream (any other exception, and
\* so is the failing deletion of the partial file).
DownloadFails(p) ==
  /\ At(p, "download")
  /\ (ReturnError(p) /\ UNCHANGED kept) \/ Raise(p)
  /\ Fault

-----------------------------------------------------------------------------
(* Compiler._run_pipeline *)

\* The size gate and the capture hash; a file that cannot be read has none.
Capture(p) ==
  /\ At(p, "stat")
  /\ IF Reads(p) = "oversize"
     THEN ReturnError(p) /\ Ordinary
     ELSE /\ ctx' = [ctx EXCEPT ![p].capture =
                       IF Reads(p) = "absent" THEN "" ELSE Reads(p)]
          /\ Goto(p, IF cmd[p].adapter THEN "adapter" ELSE "parse")
          /\ UNCHANGED <<source, temp, kept, cmd, faults, dir>>

\* No parser for the type, or one that makes no document and says why.
ParseFails(p) ==
  /\ At(p, "parse")
  /\ ReturnError(p) /\ FaultIf(Reads(p) \in Contents)

\* A parser reads the source for itself.  The size gate is behind it.
Parse(p, flaw) ==
  /\ At(p, "parse")
  /\ Reads(p) \in Contents
  /\ ctx' = [ctx EXCEPT ![p].doc = [of |-> Reads(p), flaw |-> flaw]]
  /\ Goto(p, "stages")
  /\ FaultIf(flaw # "none")
  /\ UNCHANGED <<source, temp, kept, cmd, dir>>

\* A parser raises, UocOutputRepetitionError among others.
ParseRaises(p) ==
  /\ At(p, "parse")
  /\ Raise(p) /\ Fault

\* _run_parser_adapter reads the source again; ParserInput refuses bytes that
\* are not those of the capture hash, when there is one.
AdapterReads(p) ==
  /\ At(p, "adapter")
  /\ IF \/ Reads(p) \notin Contents
        \/ ctx[p].capture \notin {"", Reads(p)}
     THEN ReturnError(p) /\ Ordinary
     ELSE /\ ctx' = [ctx EXCEPT ![p].doc = [of |-> Reads(p), flaw |-> "none"]]
          /\ Goto(p, "answer")
          /\ UNCHANGED <<source, temp, kept, cmd, faults, dir>>

\* The adapter raises, answers something else, or for another source.
AdapterRefused(p) ==
  /\ At(p, "answer")
  /\ ReturnWith(p, [ctx[p] EXCEPT !.errors = TRUE, !.doc = Nothing])
  /\ Fault

\* Its Markdown goes through a temporary file to the Markdown parser.
AdapterIngests(p) ==
  /\ At(p, "answer")
  /\ temp' = temp \cup {<<p, "adapter">>}
  /\ Goto(p, "ingest")
  /\ UNCHANGED <<source, kept, cmd, ctx, faults, dir>>

AdapterParsed(p, flaw) ==
  /\ At(p, "ingest")
  /\ ctx' = [ctx EXCEPT ![p].doc.flaw = flaw]
  /\ Unlink({<<p, "adapter">>})
  /\ Goto(p, "stages")
  /\ FaultIf(flaw # "none")
  /\ UNCHANGED <<source, cmd, dir>>

AdapterIngestFails(p) ==
  /\ At(p, "ingest")
  /\ ctx' = [ctx EXCEPT ![p].errors = TRUE, ![p].doc = Nothing]
  /\ Unlink({<<p, "adapter">>, <<p, "fetch">>})
  /\ Goto(p, IF cmd[p].run = "validate" THEN "finalise" ELSE "mkdir")
  /\ Fault
  /\ UNCHANGED <<source, cmd, dir>>

\* Clean, promote, optimise, validate, chunk, count, manifest, score: a parser or
\* a validator may have recorded errors, the score may be under the threshold.
Stages(p, errors, low) ==
  /\ At(p, "stages")
  /\ ReturnWith(p, [ctx[p] EXCEPT !.manifest = TRUE, !.errors = errors,
                                  !.low = low])
  /\ FaultIf(errors \/ low)

StagesRaise(p) ==
  /\ At(p, "stages")
  /\ Raise(p) /\ Fault

-----------------------------------------------------------------------------
(* The exporters, in the order of their priorities *)

Write(p, from, to) ==
  /\ Advance(p, from, to)
  /\ UNCHANGED <<source, temp, kept, cmd, ctx, faults>>

\* Without a document every exporter returns at once.
ExportNothing(p) ==
  /\ Write(p, "mkdir", "finalise")
  /\ ctx[p].doc = Nothing
  /\ UNCHANGED dir

ExportDir(p) ==
  /\ Write(p, "mkdir", "markdown")
  /\ ctx[p].doc # Nothing
  /\ MakeDir(OutDir(p))

ExportMarkdown(p) ==
  /\ Write(p, "markdown", "json")
  /\ PutMarkdown(OutDir(p), ctx[p].doc)

ExportJson(p) ==
  /\ Write(p, "json", "assess")
  /\ PutJson(OutDir(p), ctx[p].doc)

\* The text comparison tells no layout from another, only wordings.
SameWording(one, other) ==
  {one, other} \subseteq Contents /\ Wording[one] = Wording[other]

\* What the checks see in document.md against the bytes the source holds now.
\* The text matches that of any content of the same wording.  Another wording
\* is taken to differ in its literals too, which only turns ABSTAIN into HOLD.
Observe(p, cand, content) ==
  LET same == SameWording(cand.of, content)
  IN [source |-> TRUE, sourceText |-> TRUE, candText |-> TRUE,
      comparable |-> cmd[p].media = "markdown",
      literals |-> same /\ cand.flaw # "lossy",
      match |-> same /\ cand.flaw \in {"none", "broken"},
      truncated |-> cand.flaw = "truncated",
      origin |-> IF ctx[p].capture \in {"", content} THEN "same" ELSE "other",
      openFences |-> cand.flaw = "broken", oddFences |-> cand.flaw = "broken",
      replaced |-> FALSE, blanked |-> FALSE, profile |-> cmd[p].profile]

\* original_source_hash in the report.
Origin(p, content) ==
  IF ctx[p].capture = "" THEN content ELSE ctx[p].capture

\* save_compiled_assessment: text sources that are still there.
Assessable(p) == cmd[p].media # "binary" /\ Reads(p) # "absent"

Report(p, cand, content) ==
  [source |-> content, origin |-> Origin(p, content), cand |-> cand,
   disposition |-> Assess(DefaultPolicy, Observe(p, cand, content))]

\* QualityAssessmentExporter reads the source and document.md again.
ExportAssessment(p) ==
  /\ Write(p, "assess", IF cmd[p].run = "package" THEN "package" ELSE "finalise")
  /\ IF Assessable(p)
     THEN PutReport(OutDir(p), Report(p, dir[OutDir(p)].md, Reads(p)))
     ELSE UNCHANGED dir

WritePackage(p) ==
  /\ Write(p, "package", "finalise")
  /\ PutPackage(OutDir(p))

\* A full disk, a directory that is gone: the error leaves the command.
ExportRaises(p) ==
  /\ pc[p] \in {"mkdir", "markdown", "json", "assess", "package"}
  /\ ctx[p].doc # Nothing
  /\ Raise(p) /\ Fault

\* _finalise appends to the savings ledger (see SavingsLedger).
Finalise(p) ==
  /\ Write(p, "finalise", IF cmd[p].gate THEN "gate" ELSE "exit")
  /\ UNCHANGED dir

-----------------------------------------------------------------------------
(* The assessment gate *)

HasReport(p) == dir[p].report # Nothing

Accepted(p) == HasReport(p) /\ dir[p].report.disposition = "ACCEPT"

\* The report is read from the staging directory; only an accepted one, of a
\* compile without errors and above the threshold, goes on.
ReadReport(p) ==
  /\ At(p, "gate")
  /\ ctx' = [ctx EXCEPT ![p].gateError = ~HasReport(p)]
  /\ Goto(p, IF Accepted(p) /\ ~ctx[p].errors /\ ~ctx[p].low
             THEN "verify" ELSE "exit")
  /\ UNCHANGED <<source, temp, kept, cmd, faults, dir>>

\* Mutant of Verified: the staged bytes are compared, the source is not.
CandidateUnchanged(p) == dir[p].report.cand = dir[p].md

\* verify_compiled_assessment.
Verified(p) ==
  /\ Reads(p) \in Files \ {"absent"}
  /\ Reads(p) = ctx[p].capture
  /\ dir[p].report.source = Reads(p)
  /\ dir[p].report.origin = Reads(p)
  /\ dir[p].report.cand = dir[p].md

GateFails(p) ==
  /\ ctx' = [ctx EXCEPT ![p].gateError = TRUE]
  /\ Goto(p, "exit")
  /\ UNCHANGED <<source, temp, kept, cmd, faults, dir>>

Verify(p) ==
  /\ At(p, "verify")
  /\ IF Verified(p)
     THEN /\ ctx' = [ctx EXCEPT ![p].verified = Reads(p)]
          /\ Goto(p, "exists")
          /\ UNCHANGED <<source, temp, kept, cmd, faults, dir>>
     ELSE GateFails(p)

RefuseExisting(p) ==
  /\ At(p, "exists") /\ FinalExists
  /\ GateFails(p)

FinalIsFree(p) ==
  /\ At(p, "exists") /\ ~FinalExists
  /\ Goto(p, "rename")
  /\ UNCHANGED <<source, temp, kept, cmd, ctx, faults, dir>>

Rename(p) ==
  /\ At(p, "rename") /\ CanRename
  /\ Promote(p)
  /\ ctx' = [ctx EXCEPT ![p].activated = TRUE]
  /\ Goto(p, "exit")
  /\ UNCHANGED <<source, temp, kept, cmd, faults>>

RenameFails(p) ==
  /\ At(p, "rename") /\ ~CanRename
  /\ GateFails(p)

-----------------------------------------------------------------------------
(* The exit code *)

\* The gate read a report that does not accept.
NotAccepted(p) ==
  cmd[p].gate /\ HasReport(p) /\ ~Accepted(p)

\* With --json the threshold comes before the disposition...
JsonCode(p) ==
  IF ctx[p].errors \/ ctx[p].low \/ ctx[p].gateError THEN 1
  ELSE IF NotAccepted(p) THEN 2 ELSE 0

\* Mutant of RichCode: an activation error is printed, the code stays 0.
RichCodeOfErrors(p) ==
  IF ctx[p].errors THEN 1
  ELSE IF NotAccepted(p) THEN 2
  ELSE IF ctx[p].low THEN 1 ELSE 0

\* ...and without it after.
RichCode(p) ==
  IF ctx[p].errors \/ ctx[p].gateError THEN 1
  ELSE IF NotAccepted(p) THEN 2
  ELSE IF ctx[p].low THEN 1 ELSE 0

\* validate knows neither thresholds nor gates.
ExitCode(p) ==
  IF cmd[p].run = "validate" THEN (IF ctx[p].errors THEN 1 ELSE 0)
  ELSE IF cmd[p].json THEN JsonCode(p) ELSE RichCode(p)

Exit(p) ==
  /\ At(p, "exit")
  /\ ctx' = [ctx EXCEPT ![p].code = ExitCode(p)]
  /\ Goto(p, "done")
  /\ UNCHANGED <<source, temp, kept, cmd, faults, dir>>

-----------------------------------------------------------------------------
(* The environment *)

\* The editor saves, grows or removes the source; contents may come back.
Edit(file) ==
  /\ file # source
  /\ source' = file
  /\ Fault
  /\ UNCHANGED <<temp, kept, pc, cmd, ctx, dir>>

Kill(p) ==
  /\ pc[p] \notin {"idle", "done", "killed"}
  /\ Goto(p, "killed")
  /\ Fault
  /\ UNCHANGED <<source, temp, kept, cmd, ctx, dir>>

Fetch(p) ==
  \/ FetchRefused(p) \/ FetchRaises(p)
  \/ BeginDownload(p) \/ FinishDownload(p) \/ DownloadFails(p)

Pipeline(p) ==
  \/ Capture(p) \/ ParseFails(p) \/ ParseRaises(p)
  \/ \E flaw \in Flaws : Parse(p, flaw) \/ AdapterParsed(p, flaw)
  \/ AdapterReads(p) \/ AdapterRefused(p)
  \/ AdapterIngests(p) \/ AdapterIngestFails(p)
  \/ \E errors, low \in BOOLEAN : Stages(p, errors, low)
  \/ StagesRaise(p)

Export(p) ==
  \/ ExportNothing(p) \/ ExportDir(p) \/ ExportMarkdown(p) \/ ExportJson(p)
  \/ ExportAssessment(p) \/ WritePackage(p) \/ ExportRaises(p) \/ Finalise(p)

Gate(p) ==
  \/ ReadReport(p) \/ Verify(p) \/ RefuseExisting(p) \/ FinalIsFree(p)
  \/ Rename(p) \/ RenameFails(p)

Next ==
  \/ \E p \in Procs :
       \/ Start(p) \/ BadSizes(p) \/ Fetch(p) \/ Pipeline(p)
       \/ Export(p) \/ Gate(p) \/ Exit(p) \/ Kill(p)
  \/ \E file \in Files : Edit(file)

Spec == Init /\ [][Next]_vars

-----------------------------------------------------------------------------
(* Properties *)

Labels == {"idle", "fetch", "download", "stat", "parse", "adapter", "answer",
           "ingest", "stages", "mkdir", "markdown", "json", "assess", "package",
           "finalise", "gate", "verify", "exists", "rename", "exit", "done",
           "killed"}

InPipeline == {"download", "stat", "parse", "adapter", "answer", "ingest",
               "stages"}

\* What the gate promotes (staging.py:21, compiler_binding.py:101): a compile
\* without errors, whose document has, without loss, the wording of the bytes that
\* were captured, assessed and found in the source again by the verification, also
\* when the editor changed the source between any two of these reads and put the
\* old bytes back.
PromotedIsVerified ==
  \A p \in Procs :
    ctx[p].activated =>
      /\ ctx[p].verified = ctx[p].capture
      /\ ctx[p].doc # Nothing /\ ctx[p].doc.flaw = "none"
      /\ SameWording(ctx[p].doc.of, ctx[p].capture)
      /\ ~ctx[p].errors /\ ~ctx[p].low
      /\ cmd[p].gate /\ cmd[p].profile # "unmet"

\* The gate reads the source after the pipeline has deleted the download: it
\* never promotes a remote source, unless the deletion has failed.
RemoteHeldBack ==
  \A p \in Procs :
    ctx[p].activated /\ Remote(p) => <<p, "fetch">> \in kept

\* A gated command exits 0 exactly when its generation became the final output,
\* whichever of the errors, the threshold, the report, the verification or the
\* rename stopped it, with and without --json (cli.py:739-827, 1023-1062).
ExitTellsActivation ==
  \A p \in Procs :
    pc[p] = "done" /\ cmd[p].gate => (ctx[p].code = 0 <=> ctx[p].activated)

\* Downloads and the adapter's Markdown do not outlive the pipeline, on any of
\* its returns and exceptions (compiler.py:344, 619, 1330), unless the process is
\* killed or the one attempt to delete them fails.
NoTempLeft ==
  \A t \in temp \ kept : pc[t[1]] \in InPipeline \cup {"killed"}

\* "Recheck staged bytes and captured provenance immediately before activation"
\* (compiler_binding.py:101): the document was made of the captured bytes, and not
\* of others with the same wording.
PromotedOfCapture ==
  \A p \in Procs : ctx[p].activated => ctx[p].doc.of = ctx[p].capture

\* The help of --require-assessment-accept (cli.py:503): the gate "exits 2 for
\* HOLD, REJECT, or ABSTAIN" (of a compile that has no errors).
GateExitsTwo ==
  \A p \in Procs :
    /\ pc[p] = "done" /\ cmd[p].gate /\ ctx[p].manifest
    /\ ~ctx[p].errors /\ NotAccepted(p)
    => ctx[p].code = 2

\* "IDs of blocks from document.json that this chunk contains"
\* (docs/output-schema.md): the chunk files of an output directory belong to its
\* document.json, whenever no compile is at work.
ChunksOfDocument ==
  (\A p \in Procs : pc[p] \in {"idle", "done"}) =>
    dir[Final].chunks \subseteq {dir[Final].json}
=============================================================================
