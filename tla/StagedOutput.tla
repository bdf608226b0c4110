---------------------------- MODULE StagedOutput ----------------------------
(***************************************************************************)
(* The output directories of compile (assessment/staging.py, the exporters  *)
(* and cli.compile's choice of the directory).  A gated compile works in a  *)
(* staging directory of its own beside the final one and renames it into    *)
(* place; an ordinary compile writes into the final directory.  A directory *)
(* holds what the exporters put there:                                      *)
(*                                                                         *)
(*   md       document.md: the candidate it renders, or Nothing             *)
(*   json     document.json, manifest.json, validation.json: likewise      *)
(*   chunks   the candidates whose chunk files are under chunks/           *)
(*   report   quality_assessment.json, or Nothing                          *)
(*   package  the artifacts of --package were written                      *)
(***************************************************************************)
EXTENDS Naturals

CONSTANTS Procs,       \* the compile processes; each runs one command
          Final,       \* the requested output directory
          Nothing      \* a file that is not there

ASSUME DirAssumption == Final \notin Procs

VARIABLE dir           \* the final directory and one staging directory each

NoDir == [exists |-> FALSE, md |-> Nothing, json |-> Nothing, chunks |-> {},
          report |-> Nothing, package |-> FALSE]

EmptyDir == [NoDir EXCEPT !.exists = TRUE]

HoldsFiles(d) ==
  \/ d.md # Nothing \/ d.json # Nothing \/ d.report # Nothing
  \/ d.chunks # {} \/ d.package

DirInit == dir = [d \in Procs \cup {Final} |-> NoDir]

\* StagedOutput.__init__: a fresh directory, never the final one.
MakeStaging(p) == dir' = [dir EXCEPT ![p] = EmptyDir]

\* An exporter's mkdir(parents=True, exist_ok=True).
MakeDir(d) == dir' = [dir EXCEPT ![d].exists = TRUE]

\* MarkdownExporter: document.md is overwritten.
PutMarkdown(d, cand) == dir' = [dir EXCEPT ![d].md = cand]

\* JSONExporter: the three JSON files are overwritten, the chunk files are added
\* to those already there.
PutJson(d, cand) ==
  dir' = [dir EXCEPT ![d].json = cand, ![d].chunks = @ \cup {cand}]

\* The last write of save_compiled_assessment.
PutReport(d, report) == dir' = [dir EXCEPT ![d].report = report]

\* compile_package: the plan, the artifacts, the token report and the payload.
PutPackage(d) == dir' = [dir EXCEPT ![d].package = TRUE]

\* promote_if_accepted refuses a final directory that is there...
FinalExists == dir[Final].exists

\* ...and renames onto whatever is there when os.replace runs: nothing, or an
\* empty directory.  A directory with files in it makes the rename fail.
CanRename == ~HoldsFiles(dir[Final])

Promote(p) == dir' = [dir EXCEPT ![Final] = dir[p], ![p] = NoDir]
=============================================================================
