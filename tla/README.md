# TLA+ models of the CAD agent

The CAD agent turns a drawing (PDF, image or DXF) into a checked AutoCAD
drawing. Part of its source is sequential: geometry extraction, constraint
solving, validators of records. What is hard is the part that changes files,
records and drawings that other programs and other calls also use, and the part
that decides from one set of records what may be done with another. This
directory models that part in TLA+, model-checks it with TLC and proves the
central theorems with TLAPS.

Paths below are relative to the repository root (`src/` in `PROJECT.json`).

## 1. The system

### 1.1 Components

| Component | State it keeps | Operations | Modules |
|---|---|---|---|
| **FileIPC bridge** `mcp_integration_lib/dotnet_ipc.py`, plug-in `Commands/CadAgentCommands.cs`, `Ipc/` | one request and one result file per id; AutoCAD's command queue; Idle handlers; the candidate drawing | `request`; `CADAGENT_DISPATCH`; deferred close | `DotNetIpc`, `DrawingRegister` |
| **Bounded native line edit** `Commands/CommandContext.cs`, `Drawing/BoundedNativeLineEditPolicy.cs` | open database, DBMOD, candidate file and its custody | edit, commit, SaveAs, read-back, rollback | `NativeLineEdit` |
| **Visual evidence export** `Drawing/AutoCadVisualEvidenceReader.cs`, `dotnet_ipc.py`, `cad_agent/visual_evidence.py` | artifact directories and `active.lease`; evidence packages | export, sweep, verify, copy, tidy | `VisualEvidence` |
| **Native render** `Drawing/AutoCadNativeRenderReader.cs`, `NativeRenderArtifactBoundary.cs` | claim file, published plot, BACKGROUNDPLOT | plot, publish, validate | `NativeRender` |
| **Exact base Xref** `Drawing/ExactBaseXref*.cs`, `cad_agent/exact_base_xref.py` | source, accepted drawing, candidate | inspect, plan, extract | `ExactBaseXref` |
| **Lisp file IPC** `mcp_client.py`, `mcp_dispatch.lsp` | command and result files with their `.part`; pending result owner; reactor of a deferred close | `_dispatch`; `c:mcp-dispatch`; close reactor | `LispFileIpc` |
| **Approved repair** `approved_repair_adapter.py`, `repair_authorization.py`, leases of `dotnet_ipc.py`, `repair2.py` | issued and consumed authorizations; lease states, cached closures and failures | issue, consume, execute, close workspace | `ApprovedRepair` |
| **Verified publication** `publication_composition.py`, `visual_evidence.py`, lifecycle of `manifest.py` | target, backup, stage; `publication_lifecycle` | claim, prepare, replace, verify, record, recover, roll back | `Publication` |
| **Manifest lock and store** `manifest.py` | lock file with the owner's identity; manifest versions | acquire, reclaim, write, transition, release | `ManifestLock`, `ManifestStore` |
| **Live repair** `live.py` | staged DXF, evidence, backup pair, build handles, open documents | backup, repair, save, attest, restore | `LiveRepair` |
| **Codex worker session** `agent_lib/codex_worker.py` | session status, pending candidate, terminal result; ledger of issued results | open, turn, steer, interrupt, cancel, close; issue, consume | `CodexWorker` |
| **Codex worker process** `agent_lib/codex_worker_process.py` | job object, pipes, survivors | launch, exchange, clean up | `WorkerProcess` |
| **Vision handoff** `vision_handoff.py` | handoff, binding, attestation | issue, bind, start, turn, resume, fork, accept | `VisionHandoff` |
| **Candidate revision state**, **visual supervisor** `candidate_revision.py`, `visual_supervisor_adapter.py`, `drawing_artifact_reference.py` | sealed revisions, selection, verdicts | review, repair, correct, restore, publish | `EvidenceChain` |
| **Source custody** `source_integrity.py` | file handles, hashes, media facts | inspect, match | `SourceCustody` |
| **Source fusion** `source_fusion.py` | packets over custody and primitives | build, evaluate, use | `SourceFusion` |
| **Staged runs** `cli.py`, `pdf.py` | manifest, stage outputs | run, resume | `StagedRun` |
| **Fidelity pages** `fidelity.py` | observations, approvals, rebuilt drawings, regions, composed pages, the manifest of a root | observe, approve, rebuild, propose, reconstruct, compose, promote, review | `FidelitySidecar`, `FidelityPage`, `FidelityCheckpoint` |
| **Primitive IR extraction** `primitive_ir_lib/run_pdf.py`, `geometry_extraction.py` | open document and its layers; files of a page | lines by layers, circles and arcs, page files | `PagePaint`, `LayerLines`, `PageCurves`, `PageOutput` |
| **Semantic IR** `semantic_ir_lib/` (detection, compound parts, pruning) | the list of constraints | detect, choose parts, prune | `ConstraintPruning` |
| **Agent pipeline** `agent_lib/run.py`, `advisor.py`, `batch_agent.py` and modules | reports, `agent_application.json`, approvals, the drawing | advise, approve, apply, audit, draw | `AgentRun` |
| **Drawing set-up and dimension pilot** `drawing_setup.py`, `dimension_pilot.py` | plan, audit and verified set-up; approved plan; output DXF with its temporary; evidence | audit, plan, verify, approve, run | `SetupGate`, `DimensionPilot` |
| Component and view registry; drawing comparison; DXF builder; mechanical pilot; executor event gate; contracts | none shared, or records without control | | none |

`PROJECT.json` says of each which part is modelled, and why a part is not.

### 1.2 How they interact

* Python and AutoCAD never share memory. They share a directory (one protocol
  for the .NET plug-in, another for the Lisp dispatcher) and the window of
  AutoCAD, to which the client posts the name of a command. A command carries
  no request id: it serves what it finds, which may be a request other than the
  one it was posted for, or one that was served before.
* The line edit, the export, the native render and the Xref extraction run
  inside one .NET command each. The bridge contributes that the request's
  drawing hash is compared with the file immediately before; each operation
  that what it reports about files is true.
* An approved repair consumes an authorization in the process, mutates a
  disposable drawing through an executor, and closes that drawing through the
  bridge. The lease registry ties the three together.
* A review gathers the state of the revisions, the drawing reference, the
  manifest and an evidence package, asks a worker session opened for a handoff,
  gathers everything again and seals a verdict; a FAIL leads to a repair and a
  child revision, a PASS to publication.
* Publication replaces the target by the verified candidate and records each
  phase in the run manifest, under the manifest lock, as a compare-and-swap on
  the manifest's hash. Other commands of the CLI rewrite the same manifest
  through `write_manifest`, without a comparison.
* Pages: `run_pdf` writes primitives of a page; a custody names the source's
  bytes, a fusion packet ties observations to them; the staged run builds a DXF
  of them; the fidelity commands rebuild a page from approved observations.
* The Semantic IR holds constraints between primitives. An advisory run of the
  agent proposes overrides and dropped constraints in a report; a person
  approves it by the digests of report and inputs, and a second run applies it.

### 1.3 What is hard about it

* **Nobody knows whether a timed-out operation happened.** Both bridges let the
  caller go while AutoCAD still works; they differ in what they do with the
  files, and each choice has its own late effects.
* **Restarts and crashes**: of AutoCAD between saving and answering, of a
  publisher between replacing and recording, of a lock owner at any point, of a
  command between two stages.
* **Checks and uses of files are separate steps**, and CAD users have the same
  files open in other programs. Hashes name what is on disk while AutoCAD shows
  what it has in memory.
* **Failure in the middle**: erase succeeded and recreate did not, the save
  took effect and the read-back failed, the backup is deleted and the last
  record cannot be written, each of a dozen Windows calls of a clean-up.
* **Locks and leases that are files**, with Windows sharing rules.
* **Records of different age**: most functions get their records from a caller
  that gathered them one by one.
* **Threads that share a session or a registry**, with locks around part of it.

The list at source lines is `hazards` in `PROJECT.json`.

### 1.4 What makes each component correct

| Component | It is correct when |
|---|---|
| FileIPC bridge | an edit is applied at most once and only over the bytes its caller saw; an answer belongs to the request; calls return; a close does not lose its own answer |
| Native line edit | SAVED, ROLLED_BACK and UNCHANGED are true of file and database; other programs' bytes are lost only in the windows between a check and a save |
| Visual evidence | nobody removes artifacts that an exporter writes or a caller waits for; a package shows one capture of the drawing its call named, under the manifest it names |
| Native render | evidence names the published bytes; one session publishes for a request; every session gets its variable back |
| Exact base Xref | what an extraction reports was read; its candidate and other programs' files are accounted for |
| Lisp file IPC | an effect happens once; answers are true; a pending close reserves the channel and releases it; what stays in the directory is explained |
| Approved repair | one authorization, one repair, of the approved kind; success means complete; a closed workspace stays closed; a mutation is never forgotten |
| Publication | the original can be recovered until publication is recorded; a consumed grant stands for a published drawing; a grant never becomes unused again |
| Manifest lock | mutual exclusion with reclamation; transitions are atomic compare-and-swap; calls return |
| Live repair | what it reports saved or restored is on disk and in AutoCAD; the original is recoverable until the candidate is attested; only the staged drawing changes |
| Worker session | a result that may be promoted is one of a worker that is gone with all it started; nothing runs unowned; a result is used once; no request after the end |
| Vision handoff | what a worker is told and what is accepted of it rest on the handoff its session was opened for |
| Evidence chain | a verdict is of one moment; what is published was seen; a revision answers a failure |
| Custody and fusion | facts and packets are of the declared bytes; sources are distinct; a primitive is read once |
| Staged runs | a complete page is derived from its source; an answer means every stage was repaired |
| Fidelity | what is drawn was approved, as approved; what the manifest says is backed by files |
| Semantic IR | what is pruned follows from what is kept, and nothing kept follows from the rest |
| Agent pipeline | what is applied was approved, for the documents it is applied to; the audit says what was done; solved geometry is drawn only of what was solved |
| Set-up and pilot | a verified set-up conforms to its plan; what a run publishes is of the inputs and the set-up that were approved |
| Page extraction | what is taken from a page is seen on it; a complete manifest names files made of the PDF |

## 2. The models

Every module follows one form: the header says what is kept and what is
abstracted; CONSTANTS with named assumptions; one action per step of the code
between which somebody else can act; properties at the end. An action's comment
names the function it comes from, and `map` in `PROJECT.json` its lines.
History variables are marked `history` and never appear in a guard of the
system. Above some definitions stands a `Mutant:`, the same operation with a
plausible bug, under which the property named in `PROJECT.json` must fail.

### 2.1 AutoCAD and the bridges

**DotNetIpc.** `request` and `result` are the directory, `client` the call of
each client, `commands` the posted commands, `plugin` the running command,
`drawing` the candidate. `Begin`, `WriteRequest`, `Trigger`, `TakeResult`,
`TimeOut`, `UnlinkRequest`, `UnlinkResult` are `DotNetIPCClient.request` in
order; `Pick`, `ReadRequest`, `Refuse`/`Serve`/`EditSaves`/`EditLeaves`,
`WriteResult` are `CADAGENT_DISPATCH`; `IdleClose` is the deferred close and
`Restart` AutoCAD's death and return. A request id is its ordinal rank, since
the plug-in serves the first id in ordinal order. A SHA-256 is a counter that
each save advances. `DrawingRegister` is the abstract promise (a register
written by compare-and-swap), and `DotNetIpc` implements it.

**NativeLineEdit.** The inside of `EditSaves`/`EditLeaves`: `disk`, `memory`
(database and DBMOD), and `edit`, the locals of `ApplyBoundedNativeLineEdit`.
Each file access is a step, an exception may come at each, and `Foreign`
actions rewrite or replace the candidate in between.

**VisualEvidence.** `pc` is the call of each client, from its sweep of old
directories (`Consider` to `RemoveSwept`) through `Dispatch`, `TakeResult`,
`Verify`, the copy into a package and its rename (`Promote`) to the clean-up
(`TidyLease` to `TidyFolder`); `exporter` is AutoCAD's command from `Pick` to
`WriteResult`; `dir`, `files`, `shows`, `lease`, `aged` are the request
directories. An open lease can be neither opened nor unlinked; `Age` is a day.

**NativeRender.** Two AutoCAD sessions that find one request: claim, plot into
a temporary file, check, move, and the Python side's validation.

**ExactBaseXref.** Inspection, plan and extraction with every hash, document
read and save as a step; `NamesRequest` says whether the parameters of an
extraction carry the request id (the code's own answer is no, see 3.1).

**LispFileIpc.** The older channel, whose client deletes its files when it
gives up and whose dispatcher answers `drawing-close` from a reactor that runs
after the expression has ended.

**LiveRepair.** `repair_live` from `LoadEvidence` to its report. `disk`,
`evidence` and `backup` are files, `open`, `active` and `memory` AutoCAD's
documents, the rest the locals of the call. A drawing is a function from
primitives to what stands for them, so that "the evidence names what is in the
file" is an equation. A command whose answer was lost happens late or never
(`late`), as `LispFileIpc` describes the channel.

### 2.2 Repair, review and publication

**ApprovedRepair.** Threads of one process: `approves`/`consumed` are the
authorization registry, `state`/`closure`/`failure`/`lock` the lease registry.
A close holds the lease's lock from its first check to its last; a repair holds
it only while it validates.

**EvidenceChain.** One candidate from review to publication. `file` is the
drawing, `revs`, `parent`, `sel` the revision state, `job` the records a call
has gathered, `sealed` the verdicts. Between two reads of one call the drawing,
the manifest and the selection may change.

**Publication.** `execute_verified_publication` of several publishers, with
the manifest's lifecycle automaton (`transition_publication_lifecycle`) as one
step per transition. `Editors` are the commands that read the manifest, do
something else, and write it back.

**ManifestLock** justifies that one step: the lock file, its readers, the
handle, reclamation of dead owners. `ManifestStore` is the abstract store, and
`ManifestLock` implements it: `Publication` uses the manifest as that store.

**VisionHandoff.** The handoff bound to the schema's file, the thread bound to
the handoff, and both looked at again before every turn, while other programs
write the schema and the instruction file and handoffs expire.

**CodexWorker** EXTENDS **WorkerProcess.** The session's calls (`pc`,
`method`, `result`) and the process they share (`alive`, `job`, `control`,
`requests`, `replies`): the session takes no lock, so that calls of different
threads interleave at every step. `tuples`, `eligible`, `consumed` are the
ledger.

### 2.3 Pages and sources

**StagedRun.** Commands that verify the source, make the stages whose
checkpoint is missing or does not match its file, and reset what is downstream.
The content of a file is the set of what it was made from. `Recorded` and
`Forgotten` are the two changes of a manifest, `calm`, `met`, `raced` and `cut`
the history that its properties name.

**FidelitySidecar**, extended by **FidelityPage**: observations, approval and
rebuilding of one page; regions, candidates and composed pages, with edits by
hand and kills anywhere. **FidelityCheckpoint**: the commands that read the
whole manifest of a root when they start and write it all back when they end.

**SourceCustody.** Opens, reads and looks at a path while others rename,
replace and write the files. **SourceFusion.** Records of any age, required to
match the custody of the moment.

**PagePaint** is what a page paints: a sequence of operations and scopes over a
few cells. **LayerLines** takes lines from it by switching layers off and
comparing pictures; **PageCurves** takes circles and arcs by what may hide
them. Both are compared with what the page shows. **PageOutput** is how the
files of a page get into a directory that others write: each is written under a
temporary name, hashed, moved and verified in steps of their own (the IR is
hashed only after the candidates are published), others may write into it at
any time, and the clean-up of a failed call may itself fail.

**ConstraintPruning.** The list of constraints from detection to what is kept:
`left` is undecided, `kept` and `dropped` decided, `group` the union-find in
use. Each step takes one constraint. That a dropped constraint is redundant is
said of drawings: every assignment of directions (or lengths, or carriers) to
the lines that satisfies what was kept satisfies it too.

**AgentRun.** Runs without an approval (advisers) and with one (appliers).
Digest, loading, checking, applying, saving and auditing are steps, as the
inputs may be rewritten and another run may save in between. The vision model
may change texts, the types of parts and conflicts (`RereadTexts`,
`ReclassifyParts`, `ResolveConflicts`), in the report only. Whether a set of
constraints has a solution is a constant of the instance (`Solvers`).

**SetupGate**, extended by **DimensionPilot**. `template`, `drawing`, `memory`,
`plan`, `audit`, `evidence`, `layers` are files and what AutoCAD shows; `asked`
is the command that hashes the drawing, asks AutoCAD and hashes it again. A plan
may carry a policy, written by hand, that takes fields out of the comparison.
The pilot's `run` is each run's memory from the approved plan to its evidence;
`tmp` and `out` are the DXF beside its output and the output, which two runs and
other programs share.

## 3. The runs

| Run | Instance | Shows |
|---|---|---|
| `ipc_pair` | 2 clients, 2 calls (edit, close, export), 1 restart | edits are compare-and-swap writes, at most one per drawing bytes; answers are true; calls return |
| `lisp_pair` | lisp: 2 clients, 2 calls (edit, close), 1 fault; handoff: 2 handoffs, 2 events; pilot: 2 runs, 2 changes or events | the channel is sound, answers are true, the owner of a pending close is released; handoffs are bound; what a pilot passes rests on approval |
| `repair_threads` | 2 threads, 2 grants, 1 lease, both operations | single use, accounting for leases and mutations, every call returns |
| `lock_windows` | lock: 2 transitions, 1 writer, 3 calls; pruning: 2 scenes of 8 constraints; agent: 2 advisory runs, 1 applying run, 1 rewritten input, a text on one page and a conflict on another | mutual exclusion with reclamation, atomic writes, leftovers explained, calls return; pruning is exact; applied is approved |
| `review` | publication: 2 publishers, 2 artifacts, 1 foreign write, 1 stale rewrite; chain: 3 contents, 2 turns, 2 events | the original survives, records are true, a grant is never returned; a verdict is of one moment, what is published was seen |
| `worker_session` | session: 4 calls of 2 threads; staged: 2 commands, 2 pages, 1 edit, 1 kill | promotion only of the dead, no process forgotten, results once, no request after the end; complete pages are derived |
| `records` | exchange: 2 calls, 2 artifacts, 2 events; checkpoint: 1 page, 2 revisions | evidence is kept and true, the fidelity manifest is explained |
| `page` | fidelity: 2 items, 1 region, 2 revisions, 1 edit; output: 1 call, 2 events (3 events were checked too) | what is drawn was approved; page files are made of the PDF |
| `drawing` | one of eight parts, bounds in `drawing.cfg` and `MCDrawing` | what repair, edit, custody, fusion, layers, curves, render and Xref report is true |
| `publish_failed`, `lock_contention`, `xref_round_trip` | smallest instance | a disagreement each, see 3.1 |

**Composites.** `MCManifestLock`, `MCReview`, `MCCodexWorker`, `MCRecords`, `MCLispFileIpc`,
`MCPage` and `MCDrawing` each check several modules that share no state in one run: the part
is chosen in the initial state and takes all the steps, while the others stay
in one pinned initial state. That costs nothing but the sum of the parts' state
spaces. A property of a part is stated of every state; where the part rests it
is in an initial state of its own. In `MCPage`,
no page is made beside the table text and the hatches, which are never handed
off to one. In `MCManifestLock`, steps of an agent's run that touch no file are
taken at once, since nobody could see them happen later. In `MCLispFileIpc`
the records of the set-up rest while a pilot run is under way, which reads each
of them once, and the second run starts after the first.

**Properties of several modules.** `VerdictsAreAnswered` is
`EvidenceChain`'s `PublishedWasSeen` and `RevisionsAnswerFailures`.
`OutputsAreTrue` is defined in `NativeLineEdit`, `NativeRender` and
`ExactBaseXref`, and `SourcesAreTraced` in `SourceCustody` and `SourceFusion`,
each for its part of `drawing`; `ReportsAreTrue` is `LiveRepair`'s.
`ConstraintsAreExact` is `PruningIsExact`, with both directions of redundancy;
`AgentIsSound` joins `ApplicationIsApproved` and `DrawnAsSolved`; `PilotsAreSound`
joins `VerifiedConforms`, `AuditsAreTrue`, `PilotIsSound` and `OneSwapIsSeen`.
`StagesAreDerived` says that a complete page is derived from its source, that
evidence is about the DXF beside it, that no stage is built on a scale that is
only a candidate, and that an answer means every stage was repaired.

**Bounds.** Each is a constant in a guard: `MaxIssues`, `MaxCalls` (calls
begun), `MaxCrashes`, `MaxFaults`, `MaxForeign`, `MaxEdits`, `MaxKills`,
`MaxEvents` (all that others do). Two actors and two calls are enough for the
races: the second call is the one that finds the kept pair, the late command,
the cached closure or the moved hash of the first. The lock has three calls, so
that two contenders can meet the lock of a third, dead process. Two events let
something change and change back, or change in two places, within one call. The
pages of `MCPaint` are all sequences of three operations, nested in all ways,
one of them to be taken and two that may be mistaken for it, hide it or leave
it alone. `records` and `worker_session` use symmetry of interchangeable calls,
artifacts and commands: they check safety properties only.

`CHECK_DEADLOCK FALSE` is set everywhere: behaviours are finite by their bounds
and the system rests when all calls have returned. That nobody waits for ever
is what `CallsReturn` and `OwnerIsReleased` state.

**Fairness.** `DotNetIpc`: weak fairness of each call (its poll loop has a
deadline, so it always has a next step), of the running command and of Idle
handlers; none for restarts and for beginning a call. `LispFileIpc`: weak
fairness of `Dispatch` only, AutoCAD going on with an expression it has begun.
`ManifestLock`, `ApprovedRepair`: weak fairness of each process or thread; a
process may die instead. The other modules have safety properties only.

### 3.1 Disagreements the models show

Each is a run with `expect: violation` and one property that states a sentence
of the repository; `findings` gives both places.

| Run | Property | What happens |
|---|---|---|
| `publish_failed` | `FailedLeavesTarget` | the target stays replaced, the record says FAILED, the backup is deleted |
| `lock_contention` | `ContentionIsHarmless` | a contender's read handle keeps the owner from deleting its lock |
| `xref_round_trip` | `UndisturbedSucceeds` | an undisturbed extraction is refused by its own preflight, as its parameters carry no request id |

### 3.2 What the passing properties leave out by name

A property that would be false in a case says so in its formula, or a comment
names the case; it is a behaviour of the code, not of the abstraction.

* `DotNetIpc`: `AnswersAreTrue` is about generated ids; an id the caller names
  twice may be answered by the earlier request (`CallerNamesIds = TRUE`). A
  request kept after a timeout is executed again by the next command.
* `NativeLineEdit`: `OverwritesOnlyInWindows` lists the windows, among them the
  one between SaveAs and the hash that adopts whatever is on disk.
* `VisualEvidence`: `LeaseProtects` is about directories nobody was past the
  lease of when it was taken: a sweeper that closed and unlinked its claim, or
  the caller's tidying after it found no lease, may still remove what a late
  export writes. `ResultIsBacked` excludes directories that outlived their time
  and were claimed. A package stays in place when the call raises after the
  rename. Evidence with unsaved edits (DBMOD not 0) names the file's hash while
  it shows what is in memory.
* `NativeRender`: the evidence names the file's hash while the plot shows
  memory; BACKGROUNDPLOT stays 0 after a crash; a PDF may be published and the
  request then fail for its camera; the claim is deleted on Dispose.
* `ExactBaseXref` in `drawing` runs with `NamesRequest = TRUE`, which the
  shipped code does not do. SaveAs overwrites what appeared after the check of
  absence, and a failure after SaveAs may leave the file.
* `LispFileIpc`: an effect is single until a call gives up, or while its caller
  waits without a fault: a command typed for a call that gave up can read a
  later request before that request is deleted, find its result slot free after
  the result was collected, and apply the edit a second time.
  `OwnerIsReleased` excludes a caller that gave up and removed the part of its
  pending close.
* `ApprovedRepair`: a lease may be closed between the validation of a repair
  and its mutation; a close that failed is answered from the cached failure
  ever after.
* `Publication`: `OriginalSurvives` excludes a target that could not be read
  after its replacement; `ConsumedIsPublished` and `GrantIsNeverReturned`
  exclude a manifest into which a stale lifecycle was written back. A replayed
  claim passes the replay guard if the manifest changed for another reason
  between claim and guard, so two publishers of one pair may both prepare.
* `EvidenceChain`: finalization does not tie the drawing reference to the
  candidate, the POST_REPAIR review does not compare the parent, the recheck of
  publication reads the same objects again, and a selection that is changed and
  changed back between two reads is not seen; the properties say what holds in
  spite of it.
* `VisionHandoff`: a handoff counts as used only in the frozen context of the
  server; the instruction file is hashed after the provider loaded it; an
  attestation uses the real clock and a turn the caller's; a result carries no
  handoff hash; with the official adapter a resumed or forked session is never
  accepted (`codex_worker.py:980`).
* `CodexWorker`: a result handed out before a cancel stays consumable. The weak
  reference callback takes a lock that is not re-entrant
  (`codex_worker.py:1963`); the model does not run it inside the lock.
* `LiveRepair`: `OthersAreUntouched` and `EvidenceIsTrue` exclude a user who
  activates another document during the call. A save that times out ends the
  call without a restore (`Recoverable` still holds). `ReportIsTrue` and
  `HandlesAreProven` name how often others wrote (`foreign`): two writes can put
  another pair in place that agrees with itself, and a third can put back the
  bytes that the evidence was written for while AutoCAD has opened others.
* `StagedRun`: what is edited between production and hashing is recorded as
  produced; two commands may build one page at a time; the image run never
  resets what is downstream; a source replaced after its verification is not
  noticed; a changed PNG makes resume refuse for ever. An extraction that has
  written its files and then fails, or stops, before it records them leaves the
  checkpoints of the pages it replaced: after a few edits a page can pass for
  complete whose stages were not made from one another (`cut`).
* `Fidelity*`: between a check and the use of a file edits are not seen; two
  commands that overlap lose one manifest update; a crash between the
  promotion's file and the manifest, or after the directory of a revision was
  made, leaves what the next command refuses.
* `SourceCustody`: a mapped writer that changes the bytes and changes them back
  is not seen; the custody of several files is not of one moment.
  `SourceFusion`: an evaluation's match does not look at its status or time.
* `ConstraintPruning`: the union-find is per type, so that a collinear pair may
  be kept while its parallel was too weak to be; the order among equally
  confident constraints is left open.
* `AgentRun`: `AppliedWasApproved` excludes an input or the report rewritten
  between its digest and its loading. A drop is marked applied though its
  constraint does not exist, and a conflict resolved without a new value is
  marked applied without effect; the later audit replaces the earlier; an
  approved report saved as `agent_report_applied.json` is overwritten by its own
  application, which the comment at `run.py:403` means to exclude; without
  python-solvespace an application with drops raises before it saves.
  The advisor solves what is not pruned, the run what is. `AuditIsTrue` excludes
  a report that another application wrote over.
* `SetupGate`, `DimensionPilot`: an audit names the file's hash and says what
  AutoCAD shows, which may be unsaved; the verified set-up is of an audited
  drawing that the pilot's DXF need not have anything to do with. On POSIX
  `os.rename` replaces an output or evidence created after the check for it,
  though `write_dimension_evidence` says it replaces no file; the clean-up of a failed
  verification may delete another program's file; a killed run leaves its
  temporary file, which later runs refuse; the evidence may be refused after the
  DXF was published. Two writes of others, there and back around the review, let
  another drawing pass (`OneSwapIsSeen`), and with three runs one is enough.
* `LayerLines`, `PageCurves`: shadings and stencil masks are not listed as
  occluders; a circle over an earlier fill of its own colour is accepted;
  annotations do not occlude arcs.
* `PageOutput`: the open handle of a temporary file keeps others from deleting
  it, not from writing into it. What they write between the writer and the hash
  (`run_pdf.py:705-708`; for the IR until its candidates are published,
  `4783-4804`) is hashed as the run's own, passes every check and ends in a
  complete manifest (`adopted`); the rendered page alone is compared once more
  with the page in memory. Files are read back by name after publication. A
  failing call can overwrite the manifest of a complete one, or leave
  "in_progress" if that write fails too; its temporary files stay where Windows
  refuses to delete them. A page changed and changed back while its view is cut
  is not seen.

## 4. The proofs

TLAPS proves the following for every value of the constants that satisfies the
modules' assumptions: finite bounds are natural numbers, names are distinct,
and (`EvidenceAssumption`) an export has at least one artifact, without which a
package would show nothing.

| Module | Theorem | Property |
|---|---|---|
| `DotNetIpcProofs` | `AtMostOneEditPerDrawing`, `AnswersAreTheCallers`, `ImplementsRegister` | `OneEditPerDrawing`, `AnswersAreTrue` (generated ids), refinement of `DrawingRegister` |
| `ManifestLockProofs` | `OneInside`, `LeftoverHasAnOwner`, `WritesAreAtomic` | `MutualExclusion`, `LeftoverIsExplained`, refinement of `ManifestStore` |
| | `ApplicationsAreApproved` | `AgentIsSound` of `AgentRun` |
| `ApprovedRepairProofs` | `GrantsAreSingleUse`, `NoLeaseIsLost` | `OneRepairPerGrant`, `LeasesAreAccountedFor` |
| | `ApprovedIsWhatIsDrawn` | `ApprovedIsDrawn` of `FidelityPage` |
| | `PagesAreSourced` | `PageFilesAreTrue` of `PageOutput` |
| `LiveRepairProofs` | `OriginalIsRecoverable`, `OnlyTheStagedChanges`, `ReportsTellTheTruth` | `Recoverable`, `OthersAreUntouched`, `ReportsAreTrue` |
| | `EditsAreSavedOnce` | `EditSavedOnce` of `NativeLineEdit` |
| | `AllOutputsAreTrue`, from `EditsAreTrue`, `RendersAreTrue` and `ExtractionsAreTrue` | `OutputsAreTrue` of `NativeLineEdit`, `NativeRender` and `ExactBaseXref` |
| | `AllSourcesAreTraced`, from `CustodiesAreTrue` and `FusionsAreTraced` | `SourcesAreTraced` of `SourceCustody` and `SourceFusion` |
| `PublicationProofs` | `RecordedIsTrue`, `NoBytesAreLost`, `GrantStaysSpent` | `RecordIsTrue`, `BytesSurvive`, `GrantIsNeverReturned` |
| | `SealedAtOneMoment`, `PublishedWasJudged` | `SealedIsOneMoment`, `VerdictsAreAnswered` of `EvidenceChain` |
| `CodexWorkerProofs` | `PromotionIsOfTheDead`, `NoProcessIsForgotten`, `NothingIsRequestedAfterTheEnd`, `ResultsAreUsedOnce` | `PromotionIsProven`, `ProcessIsOwned`, `RequestsStopAtTheEnd`, `OncePerTuple` |
| | `StagesAreRepaired` | `StagesAreDerived` of `StagedRun` |
| `LispFileIpcProofs` | `TheChannelIsSound`, `AnswersTellTheTruth` | `ChannelIsSound`, `AnswersAreTrue` |
| | `WorkersAreBound` | `HandoffsAreBound` of `VisionHandoff` |
| | `PilotRestsOnApproval` | `PilotsAreSound` of `SetupGate` and `DimensionPilot` |
| `VisualEvidenceProofs` | `NobodyRemovesArtifacts`, `PackagesTellTheTruth` | `EvidenceIsKept`, `PackagesAreTrue` |
| | `RootIsExplained` | `ManifestIsExplained` of `FidelityCheckpoint` |

A second row of a module is about another component that its run checks: the
module extends the run's MC module, which holds an instance of each component
with constants and variables of its own. The theorem is about the instance's
own specification (`Pilot!Spec`, say), for every value of its constants, and
not about the values that the `.cfg` gives them.

Each module also proves `TypeCorrect` (`[]TypeOK`) of the component it is named for. Before each proof TLC checked the
strengthened invariant on an instance at least as large as the run's.

* **DotNetIpcProofs.** `WritesInv`: every recorded write is bound to the bytes
  it overwrote, those bytes are older than the current ones, and no two writes
  were over the same ones; that the counter is above every base ever written is
  what makes a new write different from all old ones. For answers, `GivenInv`
  says ids and serials in use were given out, to one call each, and `OwnInv`
  that the request, the running command, the reply and the result reached by a
  call's id are that call's own and true of the writes made for it. The theorem
  assumes generated ids (`~CallerNamesIds`), as 3.2 says.
* **ManifestLockProofs.** `HandleInv` (a process that has created the lock file
  and not yet closed it is its only holder), `CreatorInv` (without Windows no
  lock names an owner and only its creator deletes it) and `HashInv` (a
  transition about to write has compared the current version). On Windows the
  file cannot be deleted while its owner's handle is open, so exclusion
  survives two reclaimers of one dead owner. `LeftoverInv` adds who is in
  charge of a lock without an owner: a holder is alive and inside, a reader
  reads a file that is there, and an identity belongs to a process that is in
  charge, died or failed to delete.
* **ApprovedRepairProofs.** `Issued`, `Held` (the grant of a call that mutates
  is consumed, approves its operation, and is no other mutating call's) and
  `Alone` for single use. `AccountInv`: `LeaseInv` ties lease states, closures
  and the one thread that closes, `CallInv` what a call has done by the step it
  is at, `MutatedInv` that a mutated lease is closed, failed, expired, or in
  the hands of a thread.
* **LiveRepairProofs.** `BackupInv`: nothing is verified while the backup is
  still being built, and the clean-up is only reached after the candidate
  loaded. `StagedInv`: while the user activates nothing, the staged document is
  the active one wherever a mutating command can follow, and a command in
  flight was typed for it.
* **PublicationProofs.** `Typed` includes `VerifiesItsOwn`: what a publisher
  verifies, it replaced. `Recorded` holds while no stale lifecycle was written
  back: who is past its claim has the manifest's pair (`Holds`), a withdrawn
  publication is not the recorded one (`Withdrawn`), a recorded one stands in
  the target (`Stands`). `Restored` follows the backup back into place,
  `Recoverable` the backup of a publisher that has replaced the target, and
  `LooksFirst` the last look before `os.replace`. `GrantStaysSpent` is an
  action property of every step, from `TypeOK` alone.
* **CodexWorkerProofs.** `Exchanging` and `Opening` (one call opens, no other
  begins before) make the data well formed. `Owning` relates session and
  process: once a session is there its process is in the job; once there is
  evidence of a clean-up nobody has control; "proven" evidence means nothing
  runs. `Held` says the same of each call at each step. `LedgerInv`: what was
  issued is of a call that has ended, one for each operation and turn, and uses
  count what is consumed.
* **LispFileIpcProofs.** `ClientInv` (an id is one client's, and waited for
  until its call ends), `LispInv` (dispatcher, owner and reactor), `AnswerInv`
  (an "ok" is about what happened, a close that happened keeps its owner until
  its result is there), `WaitInv` (without a fault, what happened is on its way
  to its caller), `FilesInv` (files are there until deleted, or kept). The
  centre is `OnceInv`: while no call was left unanswered, there are at most as
  many commands as requests that were typed and not yet taken up, and none is
  taken up twice. It counts: each step of the dispatcher uses up one command
  and one request, so an extra command for a served request cannot exist.
* **VisualEvidenceProofs.** `CaptureInv` and `CopyInv` follow a capture from
  the lease to the copy: one capture, honest about unsaved edits, of the
  drawing the call was made for. `PackageInv` puts the rename between the
  reading of the package's manifest and now, so that an unchanged manifest at
  the second check means it was unchanged at the rename; manifests only grow.
  `SweepInv`: a sweeper past the lease has claimed its one directory, and no
  two hold one claim. `ExporterInv`: the exporter's lease is there while it
  writes, and if nobody was past the lease when it took it, nobody is.
  `AnswerInv`: before its request there is nothing of a call, so a second
  export of a request finds the directory of the first and leaves it.

The components that share a module with another:

* **Custody and fusion.** `SeenFits` follows the bytes of a source through the
  reads of one open handle: what was compared at both ends was so between
  them, unless it was written and written back (`wavered`). That the custody's
  own validator refuses none of its records (`GroupsHold`) is a fact about the
  groups alone: an object has one alias group, equal bytes of other objects one
  group of duplicates. `FusionInv`: a packet that is kept, altered or not, is of
  observations that are held, each standing for all primitives of its artifact
  that look the same; without conflicts two of one artifact are then one or have
  nothing in common. Hypothesis of both: `MaxEvents` is a natural number.
* **Page files** (`OutputBounds`: `MaxEvents` is a natural number, "other" names
  no run). `OutputInv` says, for each run and each file it counts on at its
  step, that the file is the run's own or that an event of somebody else is
  noted for the run; and of its temporary files, before and after they are
  hashed, that they hold what the run wrote or are noted as adopted. What was
  read back into the manifest's entry was then made of the PDF.
* **Fidelity pages** (`PageBounds`: bounds are natural numbers, with room for one
  observation and one drawing, and drafts give every region a box). `Given`: an
  approval says what its observation said when it was approved. `JobFits`: a
  rebuild that has checked, and was not raced since, still sees the approved
  observation and the approved base, and what it has read is the approval's;
  `DrawingFits` and `AnswersFit` carry that to the drawing and the answer. For
  the parts of a page `CandidateFits`, `WorkFits` and `PartsFit` do the same with
  region approvals, which are never taken back. `Counted` (no version without an
  edit) bounds the versions.
* **Agent** (`AgentBounds`: no run both advises and applies, an absent file is
  no input, an absent or a torn one no report). What a run has read of its inputs it remembers, so a
  report's maker ties the report to the inputs the approval names.
* **Line edit** (`EditBounds`: at least one attempt). Versions of the file only
  grow and none is written twice, so a second execution finds a hash that is
  not the requested one, and a save destroys only what was written in the
  window before it.
* **Render and Xref** (bounds are natural numbers, and there is a request). A claim is its owner's
  until it lets go, and what was moved stays where it was moved unless
  somebody else moved it. For Xref, while nothing was touched every counter is
  0, so that no step of an undisturbed extraction can fail.
* **Live repair's reports.** Evidence is bound only by `WriteEvidence`, to what
  AutoCAD was seen to have saved; no command is late after one that was
  answered; a restored file that was written since does not fit its evidence.
* **Evidence chain** (`MaxBytes` at least 1). Values that a review reads only
  grow, unless noted as `wavered`: equal at both readings means equal at the
  turn in between.
* **Pilot** (`PilotBounds`: bounds are natural numbers, there is a field to
  compare, the absent value and "other" differ and neither names a run). While nobody else touched the temporary file it
  belongs to the run that opened it, so one run writes at a time, and what it
  reviewed is what it renames. `SwapInv` for `OneSwapIsSeen`: with two runs and one
  write of others, a run that found another drawing before its review finds its
  own no more, since nobody is left to write it back; it takes two writes, there
  and back, to pass another drawing through a review.
* **Handoff** (`VisionBounds`: sessions are threads, `MaxEvents` a natural number). A session has one
  handoff; what the provider loaded is what was hashed, unless it was raced.
* **Staged runs** (`StagedBounds`: there is a page, and no command is named like a
  content). Five invariants. `CandidateInv`: a manifest of estimates holds nothing
  built on them, and only the steps of an estimate hold one. `BuiltInv`: the DXF
  and evidence of a page name commands that have already built it, so a new build
  differs from every record. `EvidenceInv`: no records pair a DXF with the
  evidence of another, unless two commands built the page together (`raced`).
  `DerivedInv`, as long as no two commands met: one command is alive, its copy is
  the manifest, and each recorded stage fits the stage recorded before it, but for
  the window between a rewritten stage and the write that forgets the later ones,
  and for a file edited by hand. `CalmInv`: a command that met nobody has, at each
  step, what it needs of its page and of all pages before it. The property is
  about every step, so the invariants give the first half and `CalmInv` before
  the step that ends gives `AnswersWhenComplete`.
* **Fidelity root** (`RootBounds`: bounds are natural numbers, there is a page). The files of a page only grow, so whatever
  manifest is written back names files that are still there; a report written
  over is noted.

**Only model-checked.** Liveness (`CallsReturn`, `OwnerIsReleased`): fairness
and ENABLED are out of the prover's reach. `ConstraintsAreExact` speaks of all
assignments of a scene, and for `PrimitivesAreSeen` `LayerLines` and `PageCurves`
compute over sequences of operations; what such a definition gives for every page
is induction over data, which the prover cannot do.

## 5. What is not modelled, and simplifications

* AutoCAD, Windows and the file system are external: AutoCAD fails, restarts or
  raises where the code handles it; `os.replace`, `File.Replace` and exclusive
  creation are atomic; a Windows file cannot be deleted while a handle without
  delete sharing is open.
* Validation of schemas, approvals, hashes of records and paths is one guard or
  one refusal, since a refused call changes nothing.
* Coordinates, tolerances, pictures and text are not modelled; a page is a few
  cells, a drawing its version.
* `LispFileIpc`: AutoCAD does not restart (that clears the queue, the reactor
  and the owner together), and a refused call leaves no trace.
* `ManifestLock`: an error of the open other than those it names
  (`manifest.py:742`) ends the call and changes nothing. `AgentRun`: an audit
  cut off by a kill is one that cannot be read.
* `FidelitySidecar`: an approved table cell whose text is blank is passed over
  by the rebuild (`fidelity.py:2493-2494`), which here is drawn as saying
  nothing. `SourceFusion`: primitives are of one kind, so conflicts group by ids.
* `LayerLines`: an image outside every layer makes all layers unfit
  (`run_pdf.py:3670-3676`).
* `StagedRun`: whether `auto_ocr_roi` makes the complete primitives of a page
  stale (`pdf.py:878-883`) is not computed: a document run may take any page's
  for stale (`ResetPage`) or keep them (`KeepPrimitive`).
* `ApprovedRepair`: registries are in memory, so a process crash loses them and
  nothing can be continued. `Publication`: one manifest and one target.
* `ConstraintPruning` and `AgentRun`: the geometric solver, prompts and answers
  are not modelled; solving is taken for a property of the set of constraints,
  though the solver is sensitive to their order and the code tries three.
* Not modelled at all: component and view registry, drawing comparison, DXF
  builder, mechanical pilot, executor event gate, contracts, for the reasons
  in `components`.

## 6. Plan

Done: the bridges, edits and repairs, publication and its lock, the worker, the
records of review, sources and pages, as listed in 2, with the proofs of 4.

Next:

1. The rest of `fidelity.py` (regions 1291 to 2175), of `source_integrity.py`
   and of `run_pdf.py`'s line witnesses.

## 7. Reproducing

    tlc -workers 2 -config ipc_pair.cfg DotNetIpc.tla
    tlapm DotNetIpcProofs.tla

`PROJECT.json` lists each run with its module and configuration, and for each
property a mutant of the code (defined in the module above the definition it
replaces) under which the run must fail.
