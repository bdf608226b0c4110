# AksharaMD in TLA+

AksharaMD turns documents into Markdown, chunks and quality reports. Modelled here are
the places where processes, threads, files, engines and a GPU meet, and the sequential
stages whose rules interact in ways that single examples do not show:

* the **local index** (`aksharamd watch`): a folder watcher, a SQLite job table, a
  worker thread and a vector store;
* the **model lifecycle** (`aksharamd models install | remove | verify`): a lock
  file, a staged download, a snapshot directory and a verification receipt shared
  by independent shells;
* the **OCR request** of the Unlimited-OCR backend: a parent that starts disposable
  worker processes, and a loop in the worker that cuts a document into smaller page
  ranges when the GPU runs out of memory;
* the **OCR dispatch** of the PDF parser: one document through the choice of an engine,
  a thread pool, an aggregated answer that may be refused or replaced, a second engine
  that rebuilds pages, and a manifest that says who did what;
* the **compile run**: the command from the source to the output directory, with the
  assessment gate that promotes a staged generation, while others edit the source and
  compile into the same directory;
* the **savings ledger** and the **safe size cache**: files that processes read, change
  and replace without a lock;
* the **block stages** (table stitching, cleaning, merging, chunking), the **packaging**
  (plan, writes that fail, payload) and the **readiness** score (validators, penalties,
  suppressions and caps).

Each of these ten parts has a model, runs of TLC on small instances and theorems checked
by TLAPS for every value of the constants: every safety property that a run checks is also
proved, and liveness is left to TLC. The other parts are in the inventory and in the plan.

Reading order: `Documents`, `JobQueue`, `VectorStore`, `InboxWatcher`, `IndexWatch`;
`ModelLock`, `ModelLifecycle`; `OcrService`, `ChunkReduction`, `OcrWorker`,
`OcrIsolation`; `OcrDispatch`; `Assessment`, `StagedOutput`, `CompileRun`;
`SavingsLedger`; `SafeSizeCache`; `BlockStages`; `Packaging`; `Readiness`; then the eight
`*_proofs` modules, of which `SharedFiles_proofs` is about the ledger and the cache,
`Outputs_proofs` about readiness and packaging, and each other about one part. A module
`MCx` gives `x` its instance for TLC. `PROJECT.json` maps every definition to the lines it
stands for.

## 1. Inventory

Paths are relative to `src/aksharamd/`.

| Component | State it keeps | Operations | Talks to | Hard behaviour | What makes it correct |
|---|---|---|---|---|---|
| Job table `index/queue.py` | a row per path: hash, status, `added_at`, chunk count | `enqueue`, `dequeue`, `mark_done`, `mark_low_quality`, `mark_error`, `reset_all_jobs` | flush thread, worker thread, `index clear` | updates by path only; the hash is read before the lock | a row tells the truth about its file; no job is lost |
| Vector store `index/store.py` | a Chroma collection, a handle on it | open, `add_chunks` (delete, then add), `delete_file`, `clear` | worker, `index clear`, search | two calls per update; swallowed exceptions; a handle on a deleted collection | chunks of one version, all of them, admitted by the gate |
| Folder watcher `index/watcher.py` | path -> time of its last event | `maybe_enqueue`, `_flush_loop` | watchdog observer, `cli._enqueue` | debouncing, events lost to an exception, no event for deletions | the last edit of a file is not missed |
| Worker and `watch` `index/worker.py`, `cli.py` | the job in hand | `process_file`, start, stop | all of the above, the compiler | the source is read four times; the thread may die alone | only admitted content is searchable; every job ends |
| Model lock `plugins/ocr_backends/unlimited_ocr/_lock.py` | a lock file with pid, host, time | take, judge, break, release | install, remove | check and unlink are two calls; kills; age | exclusion; a dead holder does not block for ever |
| Model lifecycle `unlimited_ocr/models.py`, `verification_receipt.py` | snapshot, staging directory, receipt | `install_model`, `remove_model`, `verify_model` | the lock, `availability()` | kills between any two file operations; best-effort removal; verify without the lock | success and the receipt mean verified bytes; verified bytes are not destroyed |
| Chunk loop `unlimited_ocr/adapter.py` | queue of page ranges, finished texts | `_process_chunks_with_reduction` | GPU | cutting ranges while later ones wait | every page once, in order |
| OCR worker `unlimited_ocr/worker.py` | its exit code | load, infer, write | parent | crash, hang, poisoned CUDA context, two readings of one exception | the exit code says what happened |
| OCR parent and backend `unlimited_ocr/orchestrator.py`, `unlimited_ocr_backend.py` | attempt, size, result | `run_infer_pdf_isolated`, `process`, `_classify_infer_failure` | worker processes | retries, limits that end together, timeouts | all pages or a failure; OOM is survived where it can be |
| Safe chunk size cache `unlimited_ocr/cache.py`, `portable.py` | JSON file: GPU and model -> best and failed size | load, choose, record | OCR requests of several processes | load, change, save without a lock | no update lost, the start is never known to fail |
| Compile pipeline `compiler.py`, `cli.py` | the document context, temporary files, the output directory | fetch, capture, parse, stages, exporters, `_finalise`, exit code | parsers, OCR, adapters, the gate, the ledger | the source is read up to four times; early returns; kills | the exit code tells the truth; nothing temporary is left |
| OCR selection and PDF dispatch `plugins/ocr_backends/`, `plugins/parsers/pdf.py` | engine selected, blocks per page, the document's blocks, audit | `select_ocr_backend`, `_process_raw_page`, `_apply_alternate_ocr_backend`, `_apply_marker_to_image_pages`, the manifest | backends, Tesseract, Marker, validators | pages complete in any order; an answer refused half way; three engines | refused text is nowhere; one engine per document, and the manifest names it; pages in order, none lost |
| Assessment and staging `assessment/` | staged generation, report | `DocumentAssessor`, `verify_compiled_assessment`, `promote_if_accepted` | worker, CLI | check and rename are two steps; the source may change before, between and after | nothing that was held back is promoted; nothing is overwritten |
| Packaging `packaging/` | planned representations, files, asset references, payload | planner, writer, payload builder, `build-payload` | the compile | a failing write that is counted; captions, page fallbacks; a payload built again | every selected element is delivered or reported |
| Readiness `scoring/`, `validators/` | the report, the running score | validators, `compute_confidence` | pipeline | rules that suppress rules; caps among penalties | caps hold; the deductions explain the score |
| Chunkers, optimizers, cleaners, transformers | the blocks; the chunker's open chunk | rewrite, merge, split | pipeline | overlap, budgets, tables in row ranges | no text lost or doubled, budgets kept |
| Deduplication | signatures | MinHash, LSH | CLI | statistical | out of TLC's reach |
| Savings ledger `ledger.py` | a JSONL file and `ledger.tmp` | append, compact, reset | every compile | compaction beside an append, a reset or a compaction | no entry lost or counted twice |
| PDF table stitching `plugins/parsers/pdf_tables/` | the blocks | rounds of joins | chunker | tables over three pages, two tables on a page | every row once, its page known |
| Parsers of the formats | none | translation of formats | pipeline | data-heavy, sequential | not a state machine |
| MCP server | rate limiter | read-only tools | compiler, index | sliding window | the limit holds |
| Exporters, renderers, data models | none | formatting | pipeline | none over time | - |

How they interact: `aksharamd watch` runs three threads (observer, flush, worker)
over one `IndexQueue` and one `VectorStore`; `aksharamd index clear` works on the same
files from another process; `process_file` calls the compiler, whose PDF parser may
call an OCR backend; the Unlimited-OCR backend consults the receipt in
`availability()` and starts worker processes, and other callers of the adapter consult
the size cache first; the model commands run in shells of their own and share only the
file system. A compile is one sequence: fetch, parse, stages, validators, score, exports,
package, ledger, gate. Several commands meet in the source, the output directory and the
ledger.

`PROJECT.json` lists the hazards, each at its line, with the properties that watch it.

## 2. The local index

### Correspondence

| TLA+ | Code |
|---|---|
| `jobs`, `clock` | the table `jobs`; `added_at` as a counter |
| `store[p][i]` | the chunk with id `<hash of p>_<i>`, as the version it was cut from |
| `collection`, `handle` | identity of the live Chroma collection, and the one the watch opened |
| `disk`, `pending`, `ready`, `hashed` | the folder; `_pending`; `to_flush`; the hash computed before the lock |
| `wpc`, `wpath`, `wcap`, `wver` | where `process_file` is; its path; `ctx.capture_id`; the version the parser read |
| `clearing` | `index clear` between `reset_all_jobs` and `store.clear` |
| `calm`, `stranded` | history, for the properties only |

`JobQueue`, `VectorStore` and `InboxWatcher` hold one operator per method;
`IndexWatch` composes them into threads. A step of the worker ends where another
thread, another process or the user can come in between: the four reads of the
source are separate steps, and so are the delete and the add of `add_chunks`. Each
method of the queue is one step because it holds the lock for all of its SQL; the
hash in `enqueue` is a step of its own because it is taken before the lock.
A content stands for a version's bytes and their SHA-256. The compiler appears
through its reads, its readiness verdict (`Good`), its assessment (`Accepted`) and
the number of chunks.

### Runs

Two files and four contents (two chunks, one chunk, readable but not accepted by the
assessor, below the readiness threshold) give every outcome of `process_file` and a
shrinking and a growing re-index. Three edits are the least that let one file change
under its own job and change back, or change while the other file waits. One crash
and one `index clear` can fall between any two steps.

| Run | Result | What it shows |
|---|---|---|
| `IndexSafety` | holds | `ProcessingHasOwner`, `QuietJobFaithful`, `StoredIsAdmitted`, `SingleVersion` under failing reads, parsers, embedders and adds, one crash and one clear |
| `IndexLiveness` | holds | `Settles` and `HashCatchesUp` under fairness, with failing parsers, embedders and deletes |

Fairness: `WF(Flush)` and `WF(Worker)`. Both are OS threads that poll (every half
second, every second) for as long as the watch runs. Nothing is asked of the user, so
the folder may stay as it is, and the bound on edits makes it do so in the end.
`IndexLiveness` leaves out what would refute the properties and is no matter of
scheduling: crashes (there is no recovery), `add_chunks` raising (the worker is gone),
and `enqueue` raising (the event is dropped). `delete` failures are left out of
`IndexSafety` because `SingleVersion` is stated for the case that they do not occur;
they are in `IndexLiveness`.

### Proved (`IndexWatch_proofs`)

For all files, contents, chunk counts, faults and bounds: `TypeCorrect`,
`ProcessingOwned`, `Admission`, `OneVersion`, `QuietJobs`, that is, every invariant of
`IndexSafety`. Apart from the types none of them is inductive, and each has a
strengthening of its own: `Wellformed` (past the parser the worker holds a good version,
and a path when it works), `AdmitInv` (past the gate that version is one the assessor
took), `VersionInv` (between the delete and the add, if the handle is live, the path has
no chunks) and `QuietInv` (a busy row is never "done"; while the job is calm its row is
there with the hash of the file, the parsed version is that file's, and delete and add
leave exactly it). The assumptions are `NilAssumption`, `ChunkAssumption` and
`WatchAssumption`.

## 3. The model lifecycle

### Correspondence

| TLA+ | Code |
|---|---|
| `lock` | the lock file: who created it, as which command (its pid), whether its payload is written, whether `stale_seconds` have passed |
| `pc`, `run`, `cmd` | where each shell is in its command |
| `final`, `staging` | the snapshot and staging directories: absent, good, or bad (a wrong or missing file) |
| `receipt` | the receipt file |
| `overtaken`, `verified`, `placedBy`, `unlocked` | history, for the properties only |

`ModelLock` is `model_lock` system call by system call; `ModelLifecycle` puts the
bodies of the commands inside. A kill may come at every step, and runs no `finally`.
`SlowOps` lets a live operation outlast `stale_seconds`. A removal is three steps, with
an incomplete tree in between, each of which may leave files behind. `verify` takes no
lock, as in the code.

### Runs

| Run | Result | What it shows |
|---|---|---|
| `LifecycleSafety` | holds | two shells, two commands each, one kill, slow operations: exclusion unless a live holder's file was unlinked, honest installs, receipts that are sound at rest, verified snapshots that survive |

Two shells with two commands each are enough for a kill, a recovery by the other shell
and a later command of either; the break of a lock that was broken already needs a
third shell (see section 12). `ExclusionUnlessOvertaken` therefore names the
exact condition under which exclusion holds, and the other properties are stated for
that case: what they add is that kills alone do no harm.

### Proved (`ModelLifecycle_proofs`)

For any set of processes and any bounds: `TypeCorrect`, `Exclusion`, `InstallSound`,
`ReceiptSound`, `VerifiedKept`. The inductive invariant has four parts: `Owned` (a
process inside owns the file, as long as nobody was overtaken), `Relied` (what a step of
a body relies on: after the check nothing is in place, after the hash the snapshot is
good), `Alone` (an undisturbed verify is alone) and `Receipted` (a receipt stands for a
good snapshot unless the command that will invalidate it is under way). The
assumptions are `LockAssumption` and `CommandAssumption`.

## 4. The OCR request

### Correspondence

| TLA+ | Code |
|---|---|
| `todo`, `merged`, `total` | the loop's queue, `successful_outputs`, the page count |
| `wpc`, `code` | the worker process and its exit code |
| `cap`, `shifts` | the most pages the GPU's free memory admits, and its changes |
| `pc`, `attempt`, `size`, `text`, `failure` | the parent: `attempt_index`, `current_size`, `final_text`, `final_exception` |
| `timed` | whether the caller set `per_run_timeout_seconds` |
| `trouble`, `floored` | history, for the properties only |

`ChunkReduction` is the loop with its helpers; `OcrWorker` wraps it with loading, the
single-call path, the two classifiers of an exception and the exit codes;
`OcrIsolation` adds the parent and the backend's reading of the end. `OcrService` is the
abstract specification: one answer, the text of all pages or a failure. An empty text is
an answer too, but only after a fault other than a lack of memory, because the code
delivers one as a success where the parent cannot read the worker's text
(orchestrator.py:170). The answer does come, unless an attempt is stuck. `OcrIsolation`
implements it with `answer <- Answer`, which calls a text whose spans do not tile the
document "partial", a value the service never takes, with `faulty <- trouble`, and with
`stuck <- Stuck`: a worker hangs and the caller has set no time limit. The queue is always
in page order, so a set with its least element stands for it.

### Runs

| Run | Result | What it shows |
|---|---|---|
| `OcrRequest` | holds | `ChunksTile`, `FitsMeansDelivered`, `OomMeansOom` and the refinement `ServiceKept`, with every fault, a time limit or none, and one change of the free memory |

The reduction sequence, the largest chunk (40) and the restart limit (6) are the code's
own. Seven pages with initial sizes 1, 3, 5, 6, 13 and 40 give documents shorter than,
as long as and longer than the chunk, lengths that are no multiple of it, two cuts in
one pass (5 to 2 to 1) and a run of six halvings.

Fairness: the worker makes progress unless it hangs (`WF(Working)`), and the parent waits
for its child and goes on (`WF(Parent)`). Nothing is supposed of a worker that hangs: the
parent ends it if, and only if, the request was started with `per_run_timeout_seconds`, and
`TimeLimits` lets both kinds of request occur. The backend of a compile sets no limit
(unlimited_ocr_backend.py:365). What `ServiceKept` says of a compile is therefore that the
answer comes unless a worker hangs, and then never does.

### Proved (`OcrIsolation_proofs`)

`TypeCorrect`, `OomSound`, `Tiling`, `ServiceSafe` and `FitsIsDelivered`, for every page
count, reduction sequence, set of initial sizes, restart limit and fault. `Tiling` rests
on two lemmas on ranges: `Split` tiles the range it cuts, and replacing one range of a
tiling by a tiling of that range is a tiling. `ServiceSafe` shows that every step maps to
a step of the service or to a stutter, the one that delivers an empty text included. The assumptions are `ReductionAssumption`,
`WorkerAssumption` and `IsolationAssumption`.

`FitsIsDelivered` is `FitsMeansDelivered` under two hypotheses, both met by the run. The
worker knows every out-of-memory error that occurs (`OomKinds \subseteq {"oom"}`); with the
wording that only the loop knows, a document that fits can be given up. And the restarts
are enough for the halvings (`EnoughRestarts`): halving `MaxChunk` as often as the limit
allows ends at a single page. The lemma `CodeRestarts` shows that for the code's 40 and 6.
The invariant `FitInv` says, of a request in which nothing but memory goes wrong, that no
waiting range is longer than its size (`Sized`), that no single page failed (`NotFloored`),
that a worker ends well or with an OOM (`MemoryOnly`), and bounds the size of an attempt by
the halvings before it (`Halved`).

## 5. The OCR dispatch

### Correspondence

| TLA+ | Code |
|---|---|
| `kind` | what `_extract_raw_page` found on each page: `ocr_pixmap`, `embedded_image_bytes`, `content_images` and enough text or not |
| `requested`, `runnable`, `ocr`, `marker` | `ctx.ocr_backend`; `availability().runnable_now`; whether Tesseract and Marker are installed |
| `selected` | `_ocr_backend_selected` |
| `finished`, `results` | the futures that have completed; `results` |
| `blocks`, `next` | `all_blocks`, each block reduced to its page and the engine its text came from; the page a loop takes next |
| `answer`, `audit`, `warned`, `manifest` | what the backend answered; `ctx.ocr_output_safety_audit`; codes of `ctx.warn`; `ocr_backend_selected` of the manifest |
| `replaced` | `pages_replaced` of the Marker pass |

`OcrDispatch` follows `PDFParser.execute` phase by phase: the Auto Policy, the inline
Tesseract pass (`_process_raw_page`, in a loop or by the thread pool), the assembly in
page order, `_apply_alternate_ocr_backend` with both answers to unsafe text, the
re-indexing, Marker, and what the structure validator and the manifest then say. A
scanned page is one that has a raster (`scan`, `sparse`); `bare` is the page whose
rasterisation failed; `mixed` has text and images that are read too. An aggregated
answer is one block at the anchor page; what Tesseract returns after a refusal is one
`tuple`, because the code does not turn it into blocks.

### Runs

Four pages are the least with two scanned pages, a page between them and one after
them, so that an insertion can be wrong on either side; five kinds of page give 780
documents. The thresholds are scaled to that length (two scanned pages and 60 % for
Unlimited-OCR instead of three and 30 %, the thread pool above two pages instead of
four), so that documents fall on both sides of each; 20 % for "hybrid" is the code's.

| Run | Result | What it shows |
|---|---|---|
| `DispatchSafety` | holds | refused text is nowhere; the manifest names the one engine whose text is there; page order; no page's content lost; no silent change of engine |
| `DispatchFallback` | violated | after an unsafe answer under `auto`, the compile crashes on the tuples Tesseract's backend returns |

A compile ends, so `DispatchSafety` does not check for deadlock. There is nothing to
wait for either: the model states no fairness and no liveness.

`FallbackCompletes` being false, a document after a refused answer is "done" only when
Tesseract found nothing or raised. The order and content properties are stated of
finished documents, and say nothing of the blocks of a compile that crashes.

### Proved (`OcrDispatch_proofs`)

For documents of every length, all thresholds and every order of the threads:
`TypeCorrect`, `UnsafeNowhere`, `ManifestSound`, `NoDowngrade`, `PageOrder`,
`PagesKept`, that is, every property of `DispatchSafety`. The invariant has three parts.
`OriginInv` says which origins the blocks may have, given the engine and the answer;
`PhaseInv` what each phase of `execute` may rely on about engine, answer and audit;
`OrderInv` what it leaves to the next about order and content. `OrderInv` rests on
lemmas about replacing a part of a sequence by one block (`SplicedElements`,
`SplicedSorted`, `SplicedKeeps`), on where an insertion goes (`InsertAtMeans`) and on the
fact that in a sorted document the blocks up to a page are a prefix (`UptoMeans`).
Between a fallback and the re-indexing the blocks may be out of order; the invariant
says that a tuple is then among them, so that the document goes no further. The one
assumption is `DispatchAssumption`: the thresholds are numbers, and there is a page.

## 6. The compile run

### Correspondence

| TLA+ | Code |
|---|---|
| `source` | the local source file, which an editor may change, grow over the size limit or remove between any two steps |
| `temp`, `kept` | the download and the adapter's Markdown in the temporary directory; history: those whose deletion has failed |
| `Wording`, `SameWording` | the contents that the text comparison of the assessment (`text_preservation.py`) takes for each other: they differ in heading marks, emphasis, wrapping or the order of label lines |
| `pc`, `cmd` | where each process is in `compile`, `compile --package` or `validate`; its options |
| `ctx` | the `CompilationContext`: `capture` is `ctx.capture_id`, `doc` the candidate, `low` a score under `--min-score`; `gateError` and `verified` are the gate's, `code` the exit code |
| `dir` | the final directory and the staging directory of each gated process (`StagedOutput`) |
| `Assess` | `DocumentAssessor.assess` over what its checks observe (`Assessment`) |
| `faults` | how much has gone wrong; for the bound only |

A step ends where another process or the editor may come in between. The source is read
when the capture hash is taken, when the parser reads it (and, for an adapter, once
more), when the assessment exporter reads it and when the gate verifies the report: each
is a step of its own, and so is every file an exporter writes, the check for the final
directory and the rename. A candidate is what a parse made of some content; the five
flaws are the outcomes the assessment tells apart. A deletion of a temporary file may fail,
which the code only logs (`Unlink`). The cleaning, validating, chunking
and scoring in between read nothing that others change, so they are one step with any
outcome; `BlockStages` and `Readiness` look inside.

### Run

| Run | Result | What it shows |
|---|---|---|
| `CompileSafety` | holds | `PromotedIsVerified`, `RemoteHeldBack`, `ExitTellsActivation`, `NoTempLeft` |

Two processes: one runs any of the commands of the instance (gated or not, local, remote
and of an unknown scheme, with an adapter, a package, `--json`, safe mode, every task
profile), the other compiles into the same directory, with the gate or, beside the plainest
gated command, without. There are three contents, two of them of one wording: the source
can change to what the assessment tells apart and to what it does not, and change back.
Two faults (of edits, flaws, errors, exceptions and kills) make it possible that the second
undoes what made the first harmless. The first process may also fail to delete its
temporary files. There are 3,847,227 states. A command ends, so the run does not check for deadlock. No liveness is stated: nothing in
a compile waits for another.

### Proved (`CompileRun_proofs`)

For any processes, contents, flaws, commands and number of faults: `TypeCorrect`,
`PromotedSound`, `RemoteSound`, `ExitSound` and `TempSound`, that is, every property of
`CompileSafety`. `PromotedSound` is about wordings: an accepted report means that the
document says what the captured bytes say, not that it was made of them (section 12). The inductive invariant is one of each process,
`InvOf`, with five parts: `TempOf` (which temporary files it may own, by where it is, apart
from those that could not be deleted),
`DocumentOf` (what its document may be made of), `StagingOf` (its staging directory holds
its own document and a report on it), `GateOf` (past the report, the report accepts;
past the verification, source, capture and candidate agree) and `ExitOf`. That an
accepted report means a faithful document is the lemma `AcceptMeansFaithful`, on the
decision table. The steps of others disturb no part (`OthersSame`), because a staging
directory has one owner. The assumptions are `DirAssumption` (no process is called like the final directory) and
`RunAssumption`.

## 7. The savings ledger

| TLA+ | Code |
|---|---|
| `data`, `path`, `tmp` | inodes and what they hold; the inodes at `ledger.jsonl` and `ledger.tmp` |
| `at`, `handle`, `trimmed` | where each process is in `append_entry`; the file it has open; the lines it will keep |
| `Part`, `Torn` | the beginning of a line, without its newline, which a short write leaves; a line that is not one entry |
| `written`, `overlap` | history: what was begun since the last reset; the worst overlap so far |
| `cuts`, `joined` | history: appends that were cut short; whole lines that were joined to a part |

A line is the time of its append. A full disk may take a part of what is written: of an
append (`CutAppend`) it leaves a `Part`, to which the next append is joined (`Put`), and
which a compaction that reads it ends with a newline (`Closed`); of a compaction
(`CutFill`) it leaves some lines and the beginning of one in `ledger.tmp`. The code
swallows the error in both cases, and what was written stays. An open file keeps its inode when another process
renames or deletes the path, which is what makes appends get lost; two compactions share
the one name `ledger.tmp`.

| Run | Result | What it shows |
|---|---|---|
| `LedgerSafety` | holds | three processes, five lines, two stops (kills, writes that fail or are cut short, resets), compactions: `NothingLostAlone`, `NeverTwice`, `BoundedAtRest` |

Two compactions and an append beside them need three processes, five lines let two
compactions follow each other, and two stops let two short writes, or one and a kill, fall
together; 847,276 states. The code makes no promise for overlapping operations, and they do
lose lines: each property therefore names the overlap up to which it holds. What the
properties add is this. Kills, and writes that fail before they begin, do no harm. A short
append costs its own line and at most one other, the one that is joined to it; it doubles
nothing. Appends and resets that meet a compaction may lose lines but never double or tear
one, and do not let the file grow (`BoundedAtRest` supposes that nothing has stopped half
way).

Proved (`SharedFiles_proofs`), for any processes, thresholds and number of lines and
stops: `LedgerTypeCorrect`, `Ledger_NothingLostAlone`, `Ledger_NeverTwice`,
`Ledger_BoundedAtRest`, that is, every property of `LedgerSafety`. The inductive invariant
`LedgerIInv` says what an inode holds by the role it plays, each time up to the overlap
that destroys it: the inode of `ledger.tmp` is nobody else's (`TmpApart`); a compaction
that meets no other owns it, empty first and then exactly the lines to keep (`TmpOwned`,
`TrimmedToSize`); the whole lines of the ledger, and of what is kept of it, are in order,
and only a cut append leaves others (`OrderKept`); a ledger that is too long is seen by somebody (`TooLongIsSeen`); and
without any overlap the ledger is the end of what was begun, every open append goes to it,
and no more lines were joined than were cut (`AloneSoFar`). The lemmas are about the ends of sequences: the end of an end is
one, and so is the end of a sequence that was appended to. The assumption is
`LedgerAssumption`.

## 8. The safe size cache

| TLA+ | Code |
|---|---|
| `file` | what `load_cache` makes of the file: fingerprint -> last success, high-water mark, smallest failure |
| `pc`, `size`, `left`, `passed`, `loaded` | each process in `infer_pdf_portable`: its chunk size, its restarts, the outcome, the records it has loaded |
| `succeeded`, `failed`, `lost` | history |

Loading and saving are two steps, since nothing locks the file; memory is counted in
pages. The backend calls `infer_pdf_portable` without a `cache_path`, so that no compile
of today uses the cache; the function is public and documented for callers that do.

| Run | Result | What it shows |
|---|---|---|
| `CacheSafety` | holds | two processes of a machine where one page always fits and one of a machine where four do: `ClaimsEarned`, `SmallestFailureKept`, `StartsBelowFailure`, `Learns`; one kill, failing write, damaged file, override or other error |

A run may complete at any size, also at one that is too large for the GPU: a document may be
shorter than the chunk, and the worker's own loop cuts a range again where it can. Its size
is then recorded as good. `StartsBelowFailure` says that this does no harm by itself: while
no records were lost, the guard of the cache lets no run start at a size that has failed.

One process goes on for ever. The second has its fingerprint and the third another one, so
that both can undo its saves; they stop after one run each (`MaxRivalRuns`). `Learns` is
false for processes that go on undoing each other's saves: with only the third one bounded,
the two of one fingerprint refute it, one by recording short documents at sizes that do
not fit. No fairness of the scheduler excludes that. There are 112,344 states. Sizes up to 4 allow two halvings. Fairness is `WF(Progress(p))` of each
process: a run that was begun goes on, and documents keep coming. The second half is an
assumption about the use and not about the scheduler; without it nothing is learned.

Proved (`SharedFiles_proofs`), for any processes, keys, capacities, sizes and number
of faults: `TypeCorrect`, `ClaimsSound`, `SmallestFailure` and `RetryBelow`, that is, every
safety property of `CacheSafety`. The invariant says of the
file and of every loaded copy that its claims are earned (`AllEarned`), since a copy will
become the file, and that as long as nothing was lost every failure that was seen is in
the file or on its way there (`FailuresKept`, `OnItsWay`). `RetryBelow` follows from that and
from what `Choose` makes of a record. The assumption is
`CacheAssumption`.

## 9. The block stages

`BlockStages` follows a document's blocks through `stitch_page_break_tables`,
`DefaultCleaner`, `TokenOptimizer` and `SemanticChunker` with `split_table_into_ranges`.
A block's text is a size and a sequence of facts, each with its position in the source;
a table has its rows, their cost, its header, its page and whether it reaches the page's
edge. `blocks` is `doc.blocks`; `next`, `first`, `fresh`, `tokens`, `heading` and `row`
are the loop variables of the chunker, one turn of the loop a step.

| Run | Result | What it shows |
|---|---|---|
| `BlocksSafety` | holds | `EveryFactOnce`, `RangesNamePages`, `WithinBudget`, `InOneSection` |

The documents are all sequences of up to three blocks of a stock, of five of prose, of
four blocks of a stock of tables on pages 1 to 3, and of five blocks with tables that two
rounds of stitching join (`Restitched`): every chain of joins, a table between two others,
and runs of paragraphs and headings that merge in several ways; 365,755 states. Three
settings of the limits make the overlap empty, a block and more than a block. The
thresholds of the code (60, 150 and 300 characters) are scaled to the sizes.
Heading marks, code fences and the brackets of an image count as one token, as the code
counts the Markdown of each block. The blank lines that join the blocks of a chunk are in
its `token_count` (`TokenCount`, with `BlankLine` for one of them) and not in the running
sum the chunker compares with its limit. `WithinBudget` says by how much a chunk may
therefore pass `max_tokens`: by its blank lines, and by the last block in the cases it
names. The option is described as a maximum (README.md:276 of the repository), and is none.

`EveryFactOnce` is about what the chunks deliver, without the overlap: every fact of the
cleaned document once and in order, but for the rows of a table that a chain of
continuations may have joined to an earlier one, and the repeated header of such a table,
which is dropped. `RangesNamePages` is about `source_pages` (`sources`) and holds of tables
that were stitched at most once (`StitchedOnce`); a later round writes `page_row_ranges`
anew for two pages only. The chunk's own `page_start` and `page_end` (`pages`) are those of
the table's block, its first page, whatever rows it has (section 12).

Proved (`BlockStages_proofs`), for all documents, limits and numbers of blocks:
`TypeCorrect`, `BudgetIsKept`, `SectionIsKept`, `PagesAreNamed`, `FactsOnce`, that is,
every property of `BlocksSafety`. The invariant `IInv` is the chunker's bookkeeping:
before it starts there is nothing (`Early`); inside a table the row is one of it
(`AtRow`); what is pending from `first` to `next` is plain text of one section whose
tokens are counted right and are within the budget where they can be, and what it repeats
is the tail of the last chunk (`Pending`); and every finished chunk is as the properties
want it (`Good`). For `FactsOnce` a second invariant (`Progress`) says that what has been
delivered is what the blocks before the position hold. The other half are lemmas about the
stages as functions: a round of stitching frames every row with the page and the table it
came from and moves rows only along a chain of continuations, the cleaner and the merges
keep facts and their order, and the ranges of a table cut its rows into consecutive parts.
The stages are recursive functions over sequences. The library's induction theorems take
an operator as a parameter and cannot be used here, so the proofs go through the lemma
`Induction`, on a *set* of naturals that contains 0 and is closed under successor, from
the least element of its complement; the lemma `Recursion` shows in the same way that the
recursive functions exist. The assumptions are `SourcesAssumption` (every row and every
text of a document is a fact of its own) and `LimitsAssumption`.

## 10. Packaging

`PackageSpec` has a step for `plan_document`, one for each element `PackageWriter.write`
looks at, one for the plan file and the fidelity report, one for `build_llm_payload` and
one for the command `build-payload`; `stage` says which is next. `document` is one of
`Inputs` (blocks, among them images with a side below 50 pixels and images with a caption of
their own, pages on which tables were expected, whether the PDF was handed over),
`profile` one of `Profiles`. `files` says what is on disk and whether it is
whole, `refs` are the asset references, `visual` is `elements_with_visual`. Rendering
may be impossible without being a failure (no PyMuPDF, no source).

| Run | Result | What it shows |
|---|---|---|
| `PackageSafety` | holds | `EverySelectedAccounted`, `RowsReachable`, `InReadingOrder` |

The documents have up to three blocks on one or two pages, with expected tables that were
not extracted on up to two of three pages, so that there are fallbacks between, behind and
without elements of earlier pages; seven profiles cover the modes, the serialization
strategies and the switches. One write fails, at any place: failures of different files
are independent, since each element is tried once. The two tables are one that fits inline
and one that does not. Three captions and images in every order, the images plain, small or
with a caption of their own, are a set of documents of their own. There are 726,603 states.

`EverySelectedAccounted` excepts a caption whose neighbouring images all fail to show it
(`Hidden`): it is taken out of the payload for the sake of an image that is left out, in
`text_first` or for its size, or whose own caption comes first. The PDF parser makes caption
blocks (pdf.py:2184); no built-in parser gives an image block a width or a caption in its
metadata, so that in a compile without plugins the case is that of `text_first`.

Proved (`Outputs_proofs`), for all documents, profiles and numbers of failures:
`PackageTypeCorrect`, `EverythingAccounted`, `RowsAreReachable`, `ReadsInOrder`, that is,
every property of `PackageSafety`. The invariant `PInv`: the plan is the elements of the
blocks followed by those of the expected tables and nothing is written before it (`Fresh`);
references are to elements the writer has looked at (`RefsBehind`); a torn file has been
counted (`TornCounted`); a fallback that counts as drawn has its reference and its file
(`DrawnKept`); the report is what the writer left (`Reported`); and a payload once built has
the three properties. That the builder gives them is one lemma on the payload of any plan,
files and references, and rests on what its functions do: filtering keeps what passes, in
its order (`FilteredTakes`); an element of the plan belongs to one block
(`BlockElementsOwned`); the insertion of the page fallbacks permutes the plan (`Perm`) and
leaves it in the reading order (`Sorted`), because the place of an insertion
grows with the page. The assumptions are `InputsAssumption`, `ProfilesAssumption` and
`FaultsAssumption`. `ReadsInOrder` alone has a hypothesis, `InPageOrder`: blocks come in
the order of their pages, which is what the PDF parser leaves (section 5). Without it the
builder, which compares pages, has no order to keep.

## 11. Readiness

`Readiness` runs the six validators in the order of their priorities and then
`compute_confidence` rule by rule: `issues` is the report (code -> number), `next` the
rule, `score` and `deductions` what the code accumulates. The heuristics on text and
geometry appear as the counts they compare with their thresholds, which are the code's.

| Run | Result | What it shows |
|---|---|---|
| `ReadinessSafety` | holds | `ScoreExplained`, `CapsHold`, `NoWarningHelps` |

Ten kinds of documents and every pair of 32 troubles, with a third of the four most
general: each trouble sits just on one side of a threshold or has a partner on the other.
Pairs are what the rules are about: a rule is suppressed by one other, and a cap compares
with what the others left. `NoWarningHelps` has two exceptions, `OCR_REQUIRED` and
`NEAR_EMPTY_OUTPUT`, because these do suppress more than they deduct (section 12).

Proved (`Outputs_proofs`): `TypeCorrect` (with the range of the score), `CapsSound`,
`ScoreIsExplained` and `LessIsNotWorse`, for all documents with finitely many pages and
counts that are numbers (`DocumentsAssumption`): every property of `ReadinessSafety`.
`CapsSound` rests on `DeductLowers` (no rule raises the score, because no penalty is
negative) and on the invariant `CapsSoFar`: the caps that have been applied hold.
`ScoreIsExplained` follows the running score through the rules: what the shown deductions
leave of the base is the score before the last clamp. `LessIsNotWorse` compares two runs
of the policy, rule by rule: with one warning less (other than the two that suppress) a
rule fires only where it did, a flat penalty is suppressed where it was and no larger, and
a cap applied to a score that is no lower leaves one that is no lower (`Deduct_Fewer`).

## 12. Finding and observations

One run is expected to be violated; `PROJECT.json` quotes the lines it contradicts.

* `DispatchFallback`: the safety fallback inserts Tesseract's tuples as if they were
  blocks, and the compile dies in the re-indexing.

The modules state further properties that docs, comments or tests suggest and that the
code does not have. They are checked by no run; to see one, put it in place of the
properties of the run's configuration.

| Property | Run to change | What the counterexample shows |
|---|---|---|
| `IndexWatch.SkipMeansIndexed` | `IndexSafety`, as PROPERTY | `mark_done` updates by path (queue.py:111): a version queued while its file is being indexed is marked done by the older job, and `enqueue` answers "already indexed" for a version the store does not hold |
| `IndexWatch.OutcomeRecorded` | `IndexSafety`, as PROPERTY | `add_chunks` is outside the `try` (worker.py:134): when it raises, the row says `processing` for good |
| `ModelLifecycle.MutualExclusion` | `LifecycleSafety` with three processes and `SlowOps = FALSE` | two shells judge the same dead lock, the slower unlinks the lock the faster has taken (_lock.py:306) |
| `ModelLifecycle.AvailableMeansVerified` | `LifecycleSafety` | a remove killed half way leaves a partial snapshot with a receipt that `availability()` accepts (models.py:884) |
| `OcrIsolation.FloorIsCalledOom` | `OcrRequest` | a page that does not fit inside the loop raises words (adapter.py:1296) that no classifier knows: `other`, not `cuda_oom`, against the docs of `_classify_infer_failure` (unlimited_ocr_backend.py:490-496) |
| `OcrDispatch.OcrRequiredMeansNone` | `DispatchSafety` | without Tesseract, a scanned document that Unlimited-OCR has read is reported as one that no OCR could read (pdf.py:3095) |
| `CompileRun.GateExitsTwo` | `CompileSafety` | with `--json` the threshold is looked at before the disposition: exit 1 where the help (cli.py:503) says 2 |
| `CompileRun.ChunksOfDocument` | `CompileSafety` | an ordinary compile into a directory that holds an older output keeps its chunk files |
| `CompileRun.PromotedOfCapture` | `CompileSafety` | the parser reads one version, the other three reads another of the same wording: what is promoted was not made of the captured bytes, although the gate rechecks "captured provenance" (compiler_binding.py:101) |
| `SafeSizeCache.GuardInSync` | `CacheSafety` | the live guard leaves no room for the model, though its docstring (cache.py:227-229) says its formula is the same |
| `BlockStages.CountWithinMaximum` | `BlocksSafety` | many small blocks make a chunk longer than "Maximum tokens per chunk" (README.md:276 of the repository), for the blank lines between them are not counted (semantic.py:94, 236) |
| `BlockStages.ChunkNamesPages` | `BlocksSafety` | a chunk of rows from the second page of a stitched table has `page_start` and `page_end` of the first (semantic.py:159, 168) |
| `Packaging.CaptionsShown` | `PackageSafety` | a caption goes with an image that is left out, is too small or has a caption of its own, and is nowhere (policy.py:146-154, payload_builder.py:549-558) |
| `Packaging.ExpectedTablesPictured` | `PackageSafety` | `W_TABLE_EXPECTED_NOT_EXTRACTED` is raised without a page (table_expectation.py:104) and the planner asks for one (planner.py:175): no compile has a page fallback; the test (tests/test_packaging.py:123) builds the issue by hand |

Other things seen while reading, each visible in the model named, or left out of it:

* `ModelLock`: a process killed between creating its lock file and writing it leaves an
  empty file, which counts as active whatever its age (`_lock.py`, lines 45-49, say that
  `aksharamd models remove` breaks it).
* `CompileRun`: a remote source passes the gate only if the deletion of the download has
  failed, because it is deleted before it is assessed and verified; an `HTTPError` of `raise_for_status` leaves the
  command as a traceback. An edit that is undone between two reads is not seen by any
  hash, and is caught by the text comparison of the assessment alone, which lets pass what
  differs in layout only.
* `SavingsLedger`: an append beside a compaction or a reset is lost, a reset beside a
  compaction is undone, two compactions may tear a line or leave the ledger empty. An append that a full disk cuts
  short takes the next one with it, although the module says that the ledger "survives
  crashes" (ledger.py:9).
* `OcrIsolation`: a worker's text that the parent cannot read is delivered as an empty
  success; a worker that hangs under a compile hangs the compile.
* `SafeSizeCache`: concurrent records are lost, and a short document at a size that does not
  fit is recorded as a success of that size.
* `BlockStages`: a table that is stitched again in a later round has its
  `page_row_ranges` written for two pages only; a continued table's rows move before
  what stands between its parts, a heading included; three-page tables can stay in two
  parts (the test at tests/test_parsers/test_pdf_tables.py:437 says so); merged blocks
  keep the first confidence.
* `Packaging`: `build-payload` passes no asset references, so that images lose their
  files and `llm_payload.json` is overwritten with less; a torn artifact counts as one
  that can be followed; page fallbacks without an earlier block are appended in
  descending page order; page fallbacks come only of a report that a caller makes; a page
  with one extracted and one missed table gets no fallback.
* `Readiness`: `OCR_REQUIRED` suppresses deductions of 45 points and disables three
  caps while deducting as little as 10, and with OCR at hand `NEAR_EMPTY_OUTPUT` can give
  a higher score than `LOW_TEXT_DENSITY` alone.
* Not in a model: the key-value promoter never runs in a compile; the corpus
  deduplicator also indexes the documents it skips (README.md:596 of the repository,
  cli.py:1223).

## 13. What is only model-checked, and what is not modelled

Only model-checked: `Settles`, `HashCatchesUp`, `Learns` and the liveness part of
`ServiceKept`. All four are liveness under fairness, which is out of the prover's reach, as
is ENABLED; the safety part of `ServiceKept` is proved (`ServiceSafe`). The violation that
`DispatchFallback` looks for is a matter of TLC, too. Every invariant and every action
property that a passing run checks is stated by a theorem, two of them with a hypothesis
(`FitsIsDelivered`, `ReadsInOrder`) that says which instances it is about. The further
properties of section 12 are false and have no theorem. No module declares a recursive
operator, which the prover does not support; recursion is by functions, and induction over
data by the least element of a set of naturals (section 9).

Left out of the modelled components, and why:

* a second `watch` process on the same index, and locked-database errors of SQLite;
* the embedding-space check of the store: one embedder is assumed;
* preflight checks, blobs behind symlinks, the runtime cache and `fast_verify` of the
  model commands, and a failing unlink of the receipt in `remove_model`;
* a lock of another host (broken by age only, which `SlowOps` covers) and reuse of a pid;
* the estimate of free GPU memory that picks the first chunk size of a request: every
  size of `InitialSizes` is tried instead (`SafeSizeCache` has the estimate itself);
* in the dispatch: spans, tables, math OCR, the pdfplumber path for a document whose page
  count is corrupt, assets, hallucinated Marker pages, backend names the registry does not
  know; the repetition measure that makes an answer unsafe is a choice, and so is what
  each engine finds on a page;
* exceptions that say "out of memory" in words only the loop knows (`"oom_text"`): the
  constant `OomKinds` has them, the run does not include them, because
  `FitsMeansDelivered` then fails;
* in the compile: `compile_corpus` and `compile_bytes`, the OCR fallback of an adapter,
  configuration files, plugins other than the built-in ones;
* the key-value promoter, which is off in every compile, and the stitching of tables that
  are Markdown text only, which come after the stitching has run;
* `table_quality` and `table_findings`, which describe tables and deduct nothing.

Not modelled: deduplication (its promise is statistical), the parsers of the document
formats (translation without a protocol), the MCP server (read-only tools; its rate
limiter is in the plan), schemas, renderers and formatting.

Hazards that were met and that `PROJECT.json` does not list, because others weigh more:
two watch processes on one index (queue.py:93), the empty lock file after a kill
(_lock.py:283), a failing `invalidate_receipt` that is swallowed (models.py:914), an index
without a recorded embedding model (store.py:73), the fallback without the Tesseract
binary (image.py:230), old chunks of files that changed for the worse (worker.py:81), two
readings of one exception (adapter.py:1367), verify without the lock (models.py:754),
`release` that unlinks by path (_lock.py:411), a CUDA context that stays poisoned (adapter.py:1288), a parser adapter that
opens the source by its path after it was hashed (compiler.py:507), a rename onto an empty
directory that came after the check (staging.py:60).

## 14. Plan

In this order; modules marked * are to be proved about.

1. A second watch process in `IndexWatch`*, and `"oom_text"` in `OcrRequest`, each with
   the properties and proofs that then need another condition.
2. The composition of `IndexWatch` with `Assessment`, whose verdict it takes as a set of
   contents today: that the composed system implements `IndexWatch` step by step, so that
   its theorems carry over.
3. Action properties worth a theorem beside the invariants: what a kill may leave of a
   lock, which transitions a row of the job table may make.
4. The rate limiter of the MCP server: a sliding window under two threads.
