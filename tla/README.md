# ResumeAgent: a TLA+ model of its backend

ResumeAgent (`src/apps/backend`) is a FastAPI service that helps a user collect
work experience, import job descriptions and write resumes.  Two halves share one
SQLite file (WAL, `busy_timeout` 5 s):

- an agent runtime: conversations whose turns execute LangGraph graphs, tools
  whose effects need approval, interactions that suspend a run until a user
  answers, and background jobs that compact the memory of a conversation;
- the data it works for: experiences with their evidence and revisions, a search
  index of that evidence in Qdrant, resumes that are uploaded, parsed, tailored to
  a job, edited and enriched, and resumes that are generated from the evidence.

All of it runs on asyncio in a web process and in worker processes, and relies on
compare-and-set UPDATEs and unique keys rather than on locks.  This directory
models it, checks it with TLC and proves most of its safety with TLAPS.  Paths below are
relative to `src/apps/backend/app` unless they start with `docs`.

## 1. Inventory

| Component | State | Operations | Modelled in |
| --- | --- | --- | --- |
| Tool-call lifecycle: `workflow_runtime/tools`, `ai_chat/persistence/tool_*.py` | table `ai_chat_tool_calls`; the business tables that a tool changes | validate, request approval or input, record a decision, answer, execute, consume | `ToolCalls`, `ToolCallContract`, `ToolCallsProofs` |
| Runs and interactions: `workflow_runtime/interactions.py`, `runs.py`, `graph/` | `ai_chat_runs.status`, LangGraph checkpoints | resolve, recover, resume, continue | `Interactions`, `InteractionsProofs` |
| Conversation turns: `ai_chat/services` | conversations, runs, messages | opening, message, settle, fail, cancel, close, delete | `Interactions` (run status only) |
| Outbox: `background_jobs` | table `background_job_outbox`, ARQ jobs in Redis | enqueue, list, publish, back off, requeue, acknowledge | `MemoryJobs`, `MemoryJobsProofs` |
| Memory compaction: `ai_chat/memory` | table `ai_chat_run_memories`, a Redis lock | compact, wait in the foreground | `MemoryJobs`, `MemoryJobsProofs` (not the wait) |
| Experience graph: `experience/graph/builder.py` | graph state | llm, validator, risk assessment, approver, executor | its calls, in `ToolCalls` and `Interactions` |
| Experience facts: `experience/services`, `experience/repositories` | experiences, evidence, field states, revisions | create, patch, save, change, reorder and remove evidence, ready, archive, delete; prepare and apply a proposal | `Experiences`, `ExperiencesProofs` |
| Evidence index: `resume_generation/indexing.py`, `index_worker.py` | outbox rows, Qdrant points | enqueue with every write, replace the points of an experience, bootstrap | `EvidenceIndex`; proofs in `GenerationProofs` |
| Resume generation: `resume_generation/service.py`, `graph.py`, `model.py`, `planner.py`, `validation.py` | generation runs, their artifacts | preview (search, judge, plan, draft, validate), confirm | `Generation`, on `EvidenceIndex`; `GenerationProofs` |
| Stored resumes: `routers/resumes.py`, `database.py` | resumes, the hashes in a job, improvements, a lock of the process | upload, retry, edit, delete, preview, confirm, improve, interview preparation | `Resumes`, `ResumesProofs` |
| Tailoring: `services/parser.py`, `improver.py`, `refiner.py` | the document on its way | dates, skill targets, diffs, safety nets, keywords, phrases, alignment, the diff shown, confirmation | `Tailoring`, `TailoringProofs` |
| Enrichment: `routers/enrichment.py` | a proposal that a client holds | regenerate, enhance, apply | `Enrichment`, `EnrichmentProofs` |
| JD import: `jd_import` | graph state, job descriptions | load sources, assess, ask, merge, persist | its rounds of questions, in `Interactions` |
| Memory algorithms: `ai_chat/memory/operations.py`, token budgets | none | apply operations, choose the window | planned |
| Model client, configuration and keys, letters, jobs and applications, PDF, URL fetching, migrations, front end | none that is shared, or single rows | I/O and sequential handlers | no |

How they interact.  A turn inserts a run and streams its graph.  The graph calls
the tool lifecycle, each call in sessions of its own; when a call must wait for a
user, the graph leaves a checkpoint and the turn commits the run as `suspended`.
An answer comes in another request: `InteractionCoordinator.resolve` makes it
durable in the tool lifecycle, asks the checkpoint where the graph stands, takes
the run back to `running` with a compare-and-set and drives the graph on.  The
transaction that completes or fails a run also writes an outbox row; a dispatcher
in the worker process carries it to Redis and ARQ jobs compact the history, whose
snapshots later turns read.

A proposal of the assistant that was approved is executed inside the transaction of
its tool call (`ToolCalls`) and there changes the experience (`Experiences`), in
competition with the editor, whose requests only carry the revisions they have
seen.  Every write to an experience leaves an outbox row for the index in its own
transaction; a worker with one job at a time replaces the points of the
experience.  A generation freezes a snapshot of the experiences and then searches
that index, which may lag behind it (`Generation` EXTENDS `EvidenceIndex`).  What it
generates, and what is uploaded, are resumes that are tailored in two requests, a
preview and a confirmation (`Resumes`), through the passes of `Tailoring`, and that
`Enrichment` changes item by item.

What is hard about it.  Nothing is locked between a read and the UPDATE that
relies on it, and between the two a language model is often asked, for minutes; a
request may be cancelled or its process die at any await; an answer can be sent
again at any time; a checkpoint, a run and a tool call are committed separately; a
finished run may be taken up again; a job may be delivered twice or not at all;
what the model says may be anything its checks let through.  `PROJECT.json` lists
each hazard at its line with the properties that watch it.

What makes each component correct:

- tool calls: the effect of a call is committed exactly once with its result,
  never without the approval it needs, and whoever was acknowledged is right;
- runs: one executor per run, no run that waits for nothing, no completed run
  with an unfinished graph, events that follow commits, no run that hangs;
- outbox and memory: no finished run without a task or a snapshot, a cumulative
  chain of snapshots, each written once, by one job at a time;
- experiences: states, links and rows agree with the values, fields that depend on
  each other never contradict, nothing is written over an approval;
- index: once nothing is open it is what the experiences are, and it gets there;
- generation: a resume cites evidence of the snapshot, was checked if a model wrote
  it, exists with its run, and keeps the limits of the pages;
- stored resumes: one master, no ready resume without data, no deleted resume that
  comes back, nothing confirmed that was not previewed;
- tailoring: whatever the model answers, a diff stays in its bounds, skills come
  back, and lists of texts are grounded and hide no change once they are refined
  and shown;
- enrichment: an item replaces the text it was made from, wherever that is now, or
  nothing.

## 2. Modules

### ToolCalls

`calls` is the table, one row per stable identity (`run/index` or
`run/identity`), with the columns that decide anything: status, arguments,
whether the trusted payloads are there, decision, resolution id, result and
delivery.  `job` is what each concurrent caller is doing: the operation, its
parameters and what it has read so far.  `lock` is the write lock of SQLite,
visible only during an execution, the one transaction that awaits foreign code
while it holds the lock.  `effects` counts the committed business effects.

Every service has the same shape and the actions follow it: a *Read* action is
the SELECT and the checks on it; a *Write* action is the compare-and-set UPDATE
with its commit or rollback (`CompareAndSet`; the columns of the WHERE clause are
`Preparable`, `Decidable`, `Answerable`, `Claimable`, ...); a *Reload* action is
the session that is opened afterwards to answer.  Between them any other caller
may run, and `Abort` may drop the caller, as a cancelled request or a dead
process does.  `Materialize` is the INSERT ... ON CONFLICT DO NOTHING with the
comparison of the arguments; `SavePrepared` the business preparation, which ends
in trusted data or in a result; `ExecuteClaim`, `ExecuteCommit` and
`ExecuteRaises` the transaction of `ToolExecutionService.execute`; `Consume` the
delivery of a result to the model.  `Dispatch` is the check of the executor node
before it calls `execute`, which has no check of its own; `Guarded` are the calls
whose risk the policy routes to approval and `Asked` those of the tool that waits
for input.  Status `executing` is never visible because it is only written inside
a transaction that resolves the call too; that nothing commits it is part of
`RecordsConsistent`.

### ToolCallContract

What the lifecycle promises: a call gets at most one verdict and one outcome,
and its effect is applied in the step that gives it its outcome, or never.
`ToolCalls!Contract` instantiates it with verdict = the decision column, outcome
= the result column, applications = `effects`; `ImplementsContract` says that
every behaviour of the services is one of the contract.

### Interactions

The runs of one conversation (`run`), the last checkpoint of each (`graph`), the
tool call behind each interaction (`call`: none, awaiting, decided, what
`ToolCalls` refines), the request handlers (`handler`) and the request that
closes the conversation (`closer`).  `history` is auxiliary: every status ever
committed for a run.

A turn goes through `TurnRead`, `TurnCreate`, `TurnStart`, the graph, `Settle` and
`Tell`; a resolve through `ResolveBind`, `ResolvePersist`, `ResolveRecover`,
`ResolveClaim` (or `ResolveFinish`), `ResolveOpen`, the graph, `Settle` and
`Tell`.  `sawCompleted`, `mode` and `pos` are what a handler has read and may be
stale.  The graph is reduced to what runs depend on: a position and the
interactions it passes; each `Graph*` action is one superstep of a handler, that
is one checkpoint.  A graph asks for up to `Depth` interactions one after the
other, as the JD import does in its rounds; the experience graph asks for one.
Faults are switched on per run by `Faults`: a node that raises, a request that is
cancelled where the code catches it (`Cancel`, with the clean-up it does), one
that vanishes where it does not or whose process dies (`Vanish`), a close.

### MemoryJobs

The runs of one conversation as the foreground moves them, the outbox row of
each (`due` abstracts `available_at` and the publish lease), the ARQ job of each
(`none`, `queued`, `started`, or `abandoned` by a dead worker), the Redis lock, the
dispatcher in the middle of a batch, the jobs, and the snapshots.  A snapshot is
the set of facts it remembers: a run and the state it was in when it was
summarised.  ARQ and Redis are not in the repository; `Accepted`, `WorkerStart`,
`JobDropped`, `LockExpires` and `RedisLost` model them as far as
`WorkerSettings` (`max_tries` 1, `keep_result` 0, `retry_jobs` False) and the
calls in `worker.py` and `dispatcher.py` determine: a job id is refused while the
job is known, a job is forgotten when it ends, a job of a dead worker is dropped
when it is met again, and the lock outlives any job because its timeout is the
job timeout plus a minute.

### Experiences

One experience: its row (`experience`), the tables `evidence`, `revisions` and
`states`, what each editor has seen (`seen`) and what its session has read
(`request`), and the conversation of the assistant (`proposal`).  A request reads
outside any transaction (`Begin`), and SQLAlchemy keeps that copy; its first write
takes the write lock, so that the rest of the handler is one action: `Get`, `Patch`,
`Save` (the global save), `AddEvidence`, `ChangeEvidence`, `RemoveEvidence`, `Reorder`,
`MarkReady` (the guidance it checks is read before, `ReadGuidance`), `Archive`,
`Restore`, `Delete`, each with its claims of revisions
(`ClaimUnits`, `Claimed`, `CollectionClaimed`, `EvidenceClaimed`), the rules
(`ValidDates`), the states that follow (`AdvanceFields`) and the recalculation of
completeness and status from the stale copy (`Recalculate`; a column is written
only if the session changes its copy, `Set`).  `Generate`, `Prepare`, `Apply` and
`Reject` are the way of a proposal.  Three of the twelve fields stand for all: one
alone, and the two that form a save unit and depend on each other; the points that
the others give are `OtherPoints`.  Values are empty or filled.

### EvidenceIndex

`library` is what the index can tell of the experiences, `open` counts the outbox
rows of each that are not processed, `points` is the collection in Qdrant, `job` the
job of the worker (`max_jobs` 1) and `thread` one that outlived the timeout of its
job.  `JobStart` reads the experience, `JobDelete` and `JobAdd` are the two requests
that replace its points, `JobMark` is the transaction that marks the row; between
them the experiences are written.  `JobFails`, `JobTimeout` and `WorkerRestart` (with
`enqueue_index_bootstrap`) are the faults.  How rows are leased and published is
the subject of `MemoryJobs`; here an open row is delivered in any order and as
often as it takes.  Evidence ids are given as SQLite gives them, so that an id
comes back after its row was deleted.

### Generation

Extends `EvidenceIndex` with the run, the state of its graph, the resume and the
confirmations.  `Preview` freezes `Snapshot`; `Retrieve` takes any points of the
collection, for scores are left out; `JudgeAndPlan` takes any judgment that the
checks of the code let through and evaluates the planner in full: `AssemblePlan`
with the greedy selection under section limits (`SelectFrom`) and the promoted
skills (`Promote`), and the route back to another round (`SearchMore`).  `Draft` is
the draft of the rules or any of the model's that passes its checks, `Complete` the
validation of references and facts with the commit, `Fail` a node that raises.
`ConfirmRead`, `ConfirmLook`, `ConfirmWrite` and `ConfirmCollides` are a confirmation
step by step.  The modes `deterministic`, `auto` (every stage falls back to the
rules on its own) and `llm` differ in who may answer and what may raise.

### Resumes

The tables `resumes` and `improvements`, the hashes of the previews in a job, the
lock of the process and the requests.  Each call of the `Database` facade is a
transaction, so a handler is an action per call with the model between them:
`UploadBegin` to `UploadInsert` and then `ParseStored` or `ParseFailed`; `RetryRead`,
`Save`, `ApplyRead` and `ApplyWrite`, `Delete`; `PreviewRead` and `PreviewStore`
(or `PreviewUnstored`, when only a log tells); `ConfirmRead` or `ImproveRead`, then
`TailoredInsert` and `ImprovementInsert`; `PrepRead` and `PrepStore`.  A confirmation
reads the resume (`ConfirmRead`) and then the job with its hashes
(`ConfirmChecked`).  `Update` is the UPDATE of a row that may be gone.  `Crash` takes
the requests and the lock.  Documents are two fields, the personal details and
everything else.

### Tailoring

One document from the Markdown to the confirmed resume, one action per pass:
`Parse` with the dates (`RestoreFromMarkdown`), `Plan` with the verified targets, a
diff of single changes (`Replace`, `AppendText`, `AddSkill`, `Reorder`, with the paths
they may name) up to `DiffDone`, the safety nets (`Nets`), keyword injection
(`Inject`), phrase removal (`RemovePhrases`), alignment (`Align`), `RefineFails`, then
`StorePreview` and `Confirm` with the canonical form that is hashed (`Normalize`,
`HashOf`).  Text is a word of a small vocabulary with the bullet marks before it;
what a pass does to words is in the constants (`Cleaned`, `Metrics`, `Partial`, `Letters`), which
`MCTailoring` fills with the cases that the passes tell apart: a word that contains
a skill, a phrase inside a company name, a figure, a skill of the job that the user
does not have.  What a pass keeps of a list is given by positions (`Kept`), which is
what the proofs are about.

A change or an answer may put a plain text in the place of a list, and an answer of
the keyword injection objects into it, since only the personal details and three
lists of that answer are checked (`Rewrites`).  The passes see such a field
differently: the canonical form splits or flattens it (`CoercedList`), the alignment
goes through the characters of a plain text and passes over objects (`Entries`,
`Named`), the list of changes takes a plain text for an empty list and looks for the
name in an object (`Listed`).  `improved` is the document that the list of changes of
a preview is made from, before its canonical form.

### Enrichment

`document` is the stored resume, with entries in sections; `client` is the proposal
that a client holds, or the application under way.  `Save` are the edits of the user
in between.  `Regenerate` and `Enhance` make a proposal; `ApplyRegenerated` and
`ApplyEnhancements` read the document and change a copy, `Write` stores it.
`Resolve`, `ByMetadata` and `Replaced` are the search for the entry an item was made
from; `Indexed` is what Python does with the position of an enhancement, a
negative one included, and `Enhanced` applies a list of enhancements one after the
other.

### The proof modules

`ToolCallsProofs`, `InteractionsProofs`, `MemoryJobsProofs`, `ExperiencesProofs`,
`GenerationProofs`, `ResumesProofs`, `TailoringProofs` and `EnrichmentProofs` hold the
theorems about the module they are named after, with the invariants and lemmas they
rest on; section 5.  `GenerationProofs` has those about `EvidenceIndex` too, which
`Generation` EXTENDS and whose invariant is a part of its own.

## 3. Runs

The MC modules give constants their values; workers, handlers, clients and opaque
values are symmetric, except in the runs that check liveness (`tool_input`,
`runs_live`, `memory_live`, `evidence_index`) and where the symmetric set is a
single element.  All runs are exhaustive for their bounds.

| Run | Bounds | Shows |
| --- | --- | --- |
| `tool_approval` | 2 calls that need approval (one a system call), 2 callers, 2 resolution ids, 2 argument values; 257k states | consistent rows, the effect exactly once and only under approval, unique resolution ids, acknowledged decisions that stand, the claim that pins its row |
| `tool_input` | a call that waits for input and one that executes directly, 2 callers, 2 result values; 91k states | acknowledged answers that stand, durable execution replies, columns written once, the contract, every operation returns |
| `runs_faults` | 2 runs, 2 handlers, 2 interactions per run; nodes raise, processes die; 1.76M states | one executor per run, suspended runs wait for a stored call, completed runs have finished, no graph passes an unanswered interaction |
| `runs_live` | 1 run, 2 handlers, 2 interactions; raise, cancel, close; 469k states | success events follow commits; a running run is settled, suspended or failed |
| `memory_crash` | 2 runs, 2 jobs, a batch of 1, revived runs, up to 2 faults of publishing, Redis, job, process; 5.1M states | snapshots written once; while Redis keeps its data, one job at a time asks the model |
| `memory_live` | 2 runs, 2 jobs, a batch of 1, 1 fault of publishing, Redis, job or process; 855k states | no task lost, a cumulative chain, every finished run gets its snapshot |
| `experiences` | 2 editors and the assistant, 3 commits after the creation, 2 evidence ids, 1 change per save; 419k states | states, links and rows agree with the values; dates never contradict; a revision pins what was shown for approval |
| `evidence_index` | 2 experiences, 2 evidence ids, 2 writes, 2 faults; 61k states | what is processed is indexed; every write reaches the index in the end |
| `generation` | 2 experiences that compete for one place, 2 items to cover, 2 rounds, 2 writes to the experiences, 2 confirmations, 3 modes; 590k states | one resume with its run, within the pages; grounded bullets; no unchecked draft of a model |
| `resumes` | 2 requests, 2 rows, 2 values of personal details, every endpoint, crashes; 1.33M states | one master; no ready row without data; improvements join child and parent; deleted rows stay deleted; only previewed documents are confirmed |
| `tailoring` | a vocabulary of 9 words, 2 changes in a diff, texts with a bullet mark, plain texts and objects in the place of lists; 503k states | diffs stay in bounds, reorders lose nothing, skills come back, refined lists of texts are grounded, and unchanged where no change is listed |
| `enrichment` | 1 client, proposals of 2 items, 2 enhancements, 2 edits in between, entries that share a title; 1.40M states | only the source of an item is replaced; an item that has moved is still applied |

The invariants `RunsConsistent`, `WorkersConsistent`, `FactsConsistent`,
`RunConsistent`, `RowsConsistent` and `DiffsConsistent` are conjunctions of named parts,
one of which is the `TypeOK` of the module.

Why these bounds are enough to be interesting.  Every race in the runtime is
between two parties over one row, or over one resolution id and two rows, so two
callers, two calls and two ids meet all of them; callers come and go without
limit, so sequences of requests are not bounded by their number.  Two interactions
are the least for an answer to the earlier one to arrive late.  Two runs are the
least for the index on current runs and for a chain of snapshots, and a batch of
one makes the second row wait.  Two faults cover a crash during the recovery from
another.  In `Experiences` three commits let one editor and the assistant both write
between the read and the write of another; two evidence ids let a list be
reordered.  In `EvidenceIndex` two writes let one fall into a job and the other
after it, and two evidence ids let an id change hands.  In `Generation` two
experiences for one place make the plan choose, promote and leave a gap; that the
plan keeps the limit of a page over all sections (`MaxTotal`) does not come up with
two experiences and is left to the theorem.  In
`Resumes` two rows are an original and its child, or two uploads; only one of a
request's operations is under way at a time.  In `Enrichment` two items and two
edits move both or make them alike, and one client is enough since applications
only meet in `Write` (section "What the code does not keep").

The bounds by name: `Depth` (interactions of a graph), `RunLeft` (there is a run id
for every turn that is about to create one), `Batch` and `MaxFaults` (`MemoryJobs`);
`MaxCommits`, `MaxEvidence`, `MaxEdited` (`Experiences`); `MaxEvidence`, `MaxEdits`,
`MaxFaults` (`EvidenceIndex`, `Generation`); `MaxResumes` (`Resumes`); `MaxMarks`,
`MaxChanges` (`Tailoring`); `MaxItems`, `MaxEdits`, `MaxLines` (`Enrichment`).
`MaxTotal`, `MaxBullets`, `SectionLimits` and `MaxSearchRounds` are limits of the code
itself, made small.  The other counters are finite by themselves.

Deadlock is checked for `ToolCalls`.  The other models may stop: once the bounded
supply of runs, rows, writes or passes is used up and every request is answered,
nothing is left to do.

Fairness.  `ToolCalls` and `Interactions` assume that a request that has begun goes
on (`WF` of `Step` per worker or handler): the event loop schedules every ready
task.  Nobody is assumed to start a request, to abort one or to be cancelled, and
a graph is assumed to end, since it goes through a bounded number of
interactions.  `Vanish` is left out of `runs_live`: after it the code leaves the
run running, which the repository records as an open gap.  `MemoryJobs` assumes
that the dispatcher polls, that ARQ starts and runs jobs, and that leases,
back-offs and locks expire.  `EvidenceIndex` assumes that the worker takes rows and
finishes jobs (`WF` of `Work`), and nothing of the rest.  Weak fairness is enough:
nobody is promised a lock while others compete for it, but what needs it is
finitely many.  `Experiences`, `Generation`, `Resumes`, `Tailoring` and `Enrichment`
state safety only: a request may be abandoned at any point.

### What the code does not keep

Some statements of the repository's documents, comments or tests are not what the
code does.  Each is a property of its module that no run checks, because it does
not hold; to see the behaviour, put the property into the configuration named
here, with the change in parentheses.

| Property (configuration) | What happens |
| --- | --- |
| `Interactions!FailedEventsFollowCommits` (`MCInteractions_live`) | a handler that lost its run to another one sends `run.failed` although the run was never failed (`interactions.py:228`); `docs/codebase/ARCHITECTURE.md:8` has events follow commits |
| `Interactions!ClosedRunsStayCancelled` (`MCInteractions_faults` with `Faults = {"close"}`, as PROPERTY) | a resolve that read the conversation before it was closed takes the cancelled run back to running (`interactions.py:171`; adapter design:651) |
| `Interactions!OneExecutorPerRun`, `RunsConsistent` (`MCInteractions_faults` with `Faults = {"cancel"}`, or `{"close"}`) | a turn cancelled just after it settled its run cancels the run that a resolve has claimed since; the next resolve claims it again and two handlers drive one graph (`conversation_run_writer.py:78`); a close cancels a run that is driven just so, and a resolve that read the conversation before takes it |
| `Interactions!ReplaysDoNotFailRuns` (`MCInteractions_faults` with `Faults = {}`, as PROPERTY) | an answer that is repeated, and slow between the recovery and the claim, fails a run that waits for its next interaction (`interactions.py:171`; `ARCHITECTURE.md:94`) |
| `MemoryJobs!TerminalRunsKeepTheirTask` (`MCMemoryJobs_live` with "revive") | a failed run that is taken up again before its row is processed ends with neither snapshot nor task (`background_jobs/repository.py:43`) |
| `MemoryJobs!SnapshotChainComplete` (`MCMemoryJobs_live` with "revive") | a run compacted while an earlier one is taken up again never learns of the earlier one (`origin_run_repository.py:67`) |
| `Experiences!NextEvidenceIsNew` (`MCExperiences` without `SYMMETRY`) | the revision row of removed evidence stays behind; SQLite gives the id to the next item, whose revision row cannot be inserted (`evidence_service.py:51`) |
| `Experiences!SeenMatchesRevision` (the same) | a detail joins values of an old copy with revisions of the table, so a client may save over a value it never saw (`experience_service.py:303`) |
| `Experiences!ReadyMeansComplete` (the same) | completeness and status are derived from the copy: an experience stays ready below the threshold (`experience_service.py:287`) |
| `Experiences!ReadyWasNotArchived` (the same, as PROPERTY) | a request that read the experience before it was archived marks it ready (`experience_service.py:164`) |
| `EvidenceIndex!StaysIndexed` (`MCEvidenceIndex`) | the thread of a job that timed out writes its old snapshot after a later job has replaced the points, and no row is open (`index_worker.py:90`) |
| `Generation!ConfirmsConverge` (`MCGeneration`) | of two confirmations that overlap one fails with an integrity error before the try statement that would recover (`service.py:250`) |
| `Generation!SkillsAreReal` (`MCGeneration`) | a promoted skill comes from the labels of the index, not from the snapshot (`planner.py:141`) |
| `Generation!PlanIsOwned`, `RulesComplete` (`MCGeneration`) | a point of the index may name an experience that no longer owns the evidence; the plan takes it, and the draft of the rules raises `KeyError` (`model.py:154`) |
| `Resumes!ReadyMasterKept` (`MCResumes` with `Operations <- Uploads`, as PROPERTY) | an upload that read the master while it was being parsed demotes it after it became ready (`database.py:242`) |
| `Tailoring!EchoesMatch` (`MCTailoring` with `MaxMarks = 2`) | the canonical form strips one bullet mark per pass, so that a document sent back unchanged may hash differently and be refused (`routers/resumes.py:126`) |
| `Tailoring!SilentDiffMeansUnchanged` (the same) | a mark that goes with the canonical form of the preview is not shown as a change, since the list of changes is made before (`routers/resumes.py:1043`) |
| `Tailoring!PreviewListsEveryChange` (`MCTailoring`) | a plain text that takes the place of an empty description or list of skills is in the preview, and no listed change: what is no list counts as empty (`improver.py:1095`, `routers/resumes.py:1043`) |
| `Tailoring!RefinedNamesNoOtherSkill` (`MCTailoring`) | the keyword injection may answer with skills as a plain text or as objects; the alignment finds nothing to remove there, and the preview shows skills that neither master nor job has (`refiner.py:310`, `refiner.py:429`) |
| `Tailoring!MonthsNeverLost` (`MCTailoring`) | months are found by the years of a range, where the Markdown drops "Present" and the answer of the model keeps it: an open range never gets its months back (`parser.py:147`) |
| `Tailoring!OriginalSkillsKept` (`MCTailoring`) | the refinement after the safety net removes skills that the master does not have, when the resume is not the master (`routers/resumes.py:287`) |
| `Tailoring!PreviewKeepsInfo` (`MCTailoring`) | keyword injection may take over a whole document of the model, personal details included (`refiner.py:452`, `prompts/templates.py:88`); a confirmation of such a preview is refused |
| `Enrichment!WritesLoseNothing` (`MCEnrichment`) | an application writes the document it read back, over edits made meanwhile (`enrichment.py:391`) |

`Enrichment!RegeneratedReplacesItsSource` assumes `Distinct`: an item that was given
the very text another one had is taken for it.  Also met and not stated as
properties: an enhancement whose entry has moved lands on the entry that is there
now, a negative index takes the last entry, and `updated_items` counts
enhancements that were not applied; an `unsupported_risk` only lowers a score; a
preview that is abandoned leaves its run running; a confirmation answers with the
id of its resume also after that resume was deleted.
`MemoryJobs!OneCompactionAtATime` is promised as long as Redis has kept its data,
which the auxiliary variable `kept` records, and `EvidenceIndex!ProcessedIsIndexed`
as long as no job timed out (`timeouts`).

## 4. Mutants

Each property of a run has a mutant: a definition written next to the one it
replaces and marked `mutant`, which is the bug a change to that code could
plausibly introduce (a WHERE clause without its status, an unchecked reload, a
missing requeue, a lock not taken, a copy not compared, one order too few).  The
run that checks the property finds it violated under the mutant.

## 5. Proofs

The theorems hold for every value of the constants: any number of runs, workers,
handlers, clients, rows, resumes and values, and any bound.  Those marked F also need
that some faults, or some texts, do not occur; TLC finds a counterexample as soon as
they do (section
"What the code does not keep"), so these hypotheses are not for the provers'
convenience.

| Module | Theorem | Statement |
| --- | --- | --- |
| `ToolCallsProofs` | `InvHolds`, `AckInvHolds` | `Spec => []Inv`, `Spec => []AckInv` |
| | `TypesHold`, `RecordsStayConsistent` | `Spec => []TypeOK`, `Spec => []RecordsConsistent` |
| | `EffectOnce`, `ApprovedEffectsOnly` | `Spec => []EffectExactlyWithResult`, `Spec => []NoEffectWithoutApproval` |
| | `ClaimsPinTheirRow` | `Spec => []ClaimPinsRow` |
| | `ResolutionIdsStayUnique` | `Spec => []ResolutionIdsUnique` |
| | `DecisionRepliesStand`, `AnswerRepliesStand` | `Spec => []AcknowledgedDecisionStands`, `Spec => []AcknowledgedAnswerStands` |
| | `ExecutionRepliesStand` | `Spec => []ExecutionReplyDurable` |
| | `ColumnsAreWrittenOnce` | `Spec => WrittenOnce` |
| | `ServicesImplementContract` | `Spec => ImplementsContract`, the refinement of `ToolCallContract` |
| `InteractionsProofs` | `InvHolds` | `Spec => []Inv` |
| | `EventsAreCommitted`, `AnswersComeFirst` | `Spec => []EventsFollowCommits`, `Spec => []ResumedOnlyAfterDecision` |
| | `HoldInvHolds` (F: no cancel, no close) | `Spec => []HoldInv` |
| | `ExecutorsStayApart`, `RunsStayConsistent` (F: the same) | `Spec => []OneExecutorPerRun`, `Spec => []RunsConsistent` |
| `MemoryJobsProofs` | `InvHolds` | `Spec => []Inv` |
| | `WorkersStayConsistent`, `FinishedSnapshotsStand` | `Spec => []WorkersConsistent`, `Spec => SnapshotsWrittenOnce` |
| | `ChainInvHolds` (F: no revive) | `Spec => []ChainInv` |
| | `TasksAreKept`, `ChainsAreCumulative` (F: the same) | `Spec => []TerminalRunsKeepTheirTask`, `Spec => []SnapshotChainComplete` |
| `ExperiencesProofs` | `InvHolds` | `Spec => []Inv` |
| | `WritesMoveRevisions` | `Spec => [][Moved]_vars` |
| | `DatesStayConsistent`, `FactsStayConsistent` | `Spec => []DatesConsistent`, `Spec => []FactsConsistent` |
| | `ProposalsArePinned` | `Spec => []RevisionPinsProposal` |
| `GenerationProofs`, the index | `IndexInvHolds`, `IndexTypesHold` | `IndexSpec => []Inv`, `IndexSpec => []IndexTypeOK` |
| | `IndexedWhenProcessed` | `IndexSpec => []ProcessedIsIndexed` |
| the generation | `GenInvHolds` | `Spec => []GenInv` |
| | `ResumesAreGrounded`, `ResumesWereFactChecked` | `Spec => []ResumeIsGrounded`, `Spec => []ResumeWasFactChecked` |
| | `RunsAreConsistent` | `Spec => []RunConsistent` |
| | `IndexStaysCurrent` | `Spec => []ProcessedIsIndexed`, under the generation as well |
| `ResumesProofs` | `InvHolds` | `Spec => []Inv` |
| | `RowsAreConsistent`, `OneMasterAtMost` | `Spec => []RowsConsistent`, `Spec => []UploadsMeetOneMaster` |
| | `ConfirmedWasShown`, `DeletedResumesStayDeleted` | `Spec => []ConfirmedWasPreviewed`, `Spec => DeletedStaysDeleted` |
| `TailoringProofs` | `InvHolds` | `Spec => []Inv` |
| | `DiffsStayConsistent`, `SkillsComeBack` | `Spec => []DiffsConsistent`, `Spec => []OriginalSkillsRestored` |
| | `RefinedStaysGrounded` | `Spec => []RefinedIsGrounded` |
| | `SilentDiffsHideNothing` (F: one bullet mark at most) | `Spec => []SilentDiffMeansUnchanged` |
| `EnrichmentProofs` | `InvHolds` | `Spec => []Inv` |
| | `SourcesAreReplaced`, `FoundItemsAreTaken` | `Spec => []RegeneratedReplacesItsSource`, `Spec => []FoundItemsAreApplied` |

### Assumptions

Each is named in the module that declares the constants, and TLC evaluates it in
the runs.

- `ToolCalls`: `Routes` (which calls need approval, which ask, which the model did
  not request) and `Values` (NULL is no id, argument, result or worker, and the
  payload of a rejection is no result of a tool).
- `Interactions`, `MemoryJobs`: run ids are positive integers (`Sizes`), as the
  primary keys are; `FaultNames` lists the faults there are; `NoWorker` says that
  an unlocked lock names no worker.
- `Experiences`: `DraftsTyped`, what the schemas of the create and save requests
  admit; `Points`, the points of the dimensions that are left out, which with the
  others make 100 at most; `Bounds`.  An experience is created before it is
  changed, so `MaxCommits` is positive.
- `EvidenceIndex`: `LibrariesTyped`, the worker starts on tables of the right shape;
  `IndexBounds`.
- `Generation`: `Limits`, the `ge` bounds of `resume_generation/schemas.py:38-42` and of
  the settings: one bullet and one round at least, sections with a limit each;
  `FiniteInputs`: finitely many items to cover, and experiences with integer ids, of
  which there are finitely many.
- `Resumes`: `Known` (the endpoints) and `Sizes` (NULL is neither a document nor a
  request).
- `Tailoring`: `Vocabulary` (the words of the job, those with figures and the letters
  of words are words, and removing phrases makes words of words) and `Inputs`:
  uploads and masters have the schema of a resume, and the values and orders of a
  diff are texts and lists of texts, as `ResumeChange` makes them.  What the
  keyword injection answers is not assumed to have a schema (`Rewrites`).
- `Enrichment`: `Inputs`, the same for documents, edits and answers, and the skills are
  not one of the sections with entries; `Bounds`.

### The invariants, and why they are needed

No property above but the type invariants is inductive.

`ToolCalls`: `Inv` is `TypeOK /\ RowsOK /\ JobsOK`.  `RowsOK` describes the shape of a row
in each status and ties its effect count to it: rows that are not resolved have
none, a resolved one has one exactly when it was resolved by execution, and a
guarded call is never resolved by execution without an approval.  `JobsOK` says
what an operation in flight may rely on although its read is stale: above all, an
execution that holds the lock has a row that still has the status, decision and
resolution id it was claimed with, because every other writer needs the lock; and
one that has not claimed yet knows that a row it saw `validated` belongs to a call
that needs no approval.  `AckInv` adds what replies rest on: what a worker was told,
or is about to be told, is on the row of its call (`AcksOK`).  It is proved from
`RowsMove`, what a step may do to a row: nothing that is written is overwritten
(`Stays`), at most one verdict or outcome is added (`Settles`), and a resolution id
comes only when no other row has it (`Claims`).  The same relation gives
`WrittenOnce`, and `ContractSteps` maps each case of `Settles` to a step of the
contract or a stutter.
The proof goes by action; `OtherJob`, `OtherRows`, `Write`, `Look` and `Reply` say what a
step of one worker on one row leaves alone.

`Interactions`: `Inv` says that a position of a graph, in the checkpoint or in the
hands of a handler whose read may be old, rests on answers that are stored
(`PosOK`), and that a handler knows statuses that were committed.  It survives other
handlers because stored things only grow (`Grows`).  `HoldInv` says who may be at
work on a run: a handler from its claim to its settlement, where the checkpoint
is the one it drives, and nobody else.

`MemoryJobs`: `Inv` ties the lock to its holder while Redis keeps its data.  `ChainInv`
says that runs end in turn, that rows, jobs and batches are of ended runs and each
ended run has its row, and that a worker that walks the history has every earlier
run either ahead of it or finished behind it and contained in what it builds on
(`OnTheWay`); that is why whatever it writes next is cumulative.  Two workers may
walk at the same time after Redis lost its data; the invariant holds for both.

`Experiences`: a request works with a copy made before its transaction.  `Moved` says
that every write moves the revision of what it writes, and that no revision goes
back; hence a client whose last revision is still the current one has a current
copy (`Fresh`), and the rules it applies to the copy hold of the row.  `Pinned` says
the same of a proposal.

`EvidenceIndex`: a job works on what it read some steps ago.  If its row is the only
open one of its experience, its snapshot is current (`JobIsCurrent`); a document
of it whose id now belongs to another experience has left that one with an open
row (`TakenIdsAreOpen`); and nothing else adds points after its delete
(`JobHasDeleted`).  These hold until a timeout leaves a second writer behind.

`Generation`: `SelectionOK` holds of the greedy selection after every round of its
loop: what is selected are chosen rows of candidates, within the limits of sections
and pages.  `PlanOK`, `DraftOK`, `RunOK` and `ConfirmOK` carry that through the graph, the
commit and confirmations that have read an older state.  `GenInv` contains the
invariant of the index, whose points the search returns.

`Resumes`: whoever is between reading the master and inserting a row has the lock,
and the master it read has at most been deleted since (`UploadOK`); hashes in a job,
and those that a request has read from it, are of previews that were shown
(`Shown`); an improvement joins a parent to a child that is still its child or gone
(`Linked`).

`Tailoring`: `Inv` has a part for each stretch of the way.  While a diff is applied,
the document is the original but for the texts that a diff may name (`Same`); the
nets bring the skills back; a document that is marked as refined is past the
alignment and grounded as far as its skills are texts (`Grounded`), also in the
canonical form that is stored; and the bullets of the original, and those that are
shown, are canonical (`Canonical`), so that the raw form of a list of texts and its
canonical form are equal when nothing is listed.  The rest
is about lists.  What `Kept` makes of a list is found by the rank of a position
among those that are kept (`Ranks`, `KeptItems`), and how often a word occurs in a
list after `apply_diffs` has reordered it is counted through the positions that are
kept (`ReorderedKeeps`).

`Enrichment`: the items of a proposal are applied one after the other, each to the
document that the ones before it have left.  `Follows` says what holds after every
item: an entry is as it was read, or as one of the items that came from it has made
it, and each item so far came from some entry.  It is kept because the text that an
item was made from is not what an earlier item has written (`Distinct`), so that the
source of an item in the changed copy is its source in the document that was read
(`SourcesStay`).  If each item has one source, which no other item has, that source
is still the only one when its turn comes, and the search by metadata finds it
(`SourceIsFound`, `LocatedIsTaken`).  `Inv` carries this to the write, over any edits.

The library's theorems on induction take an operator as a parameter, which no prover
here can instantiate. What is needed of induction, on the rounds of the planner, the
items of a proposal, finite sums and first elements, is proved over a set of natural
numbers from the well-foundedness of their order (`LeastNatural`, `Induction`).

### What is only model-checked

- Liveness (`OperationsReturn`, `RunningRunsSettle`, `TerminalRunsAreCompacted`,
  `IndexCatchesUp`), which TLAPS cannot prove.
- What does not hold, and the mutants, which TLC finds.

## 6. What is abstracted, and what is not modelled

- Payloads, arguments, prompts and messages are model values or left out.  A
  conflict is told from a replay by equality, as `json_values_equal` does.
- A missing row (`ToolCallNotFoundError`), an identity of another thread and the
  schema checks on payloads are refused before anything is read or written and
  are not actions.
- The two SELECTs of a reload are one step where the rows they read have settled
  by then.
- The calls of `Interactions` have three states; that their answers are unique
  and durable is what `ToolCalls` shows.
- `Experiences` is one experience: ids of experiences that are reused, and evidence
  that stays without a link when an experience is deleted from an old copy, are
  left out.  The texts of fields are empty or not; imports of text only read.
- `EvidenceIndex` and `Generation` leave out vectors, scores and texts; a search may
  return any points of the collection, judgments that are repeated for a candidate
  are one, and so are bullets of a draft with the same citations.  The analysis of
  the job description and the phrasing of queries are any answer, and the deletion
  of a generated resume is left out.
- `Tailoring` leaves out that a text of a list may have several lines, which the
  canonical form splits: a skill of several lines passes the alignment if it has a
  skill of the master in it.  Objects have no bullet marks, and those of a plain
  text are left out of its letters.  It leaves out prompts, the improvement of whole
  documents without a diff and the fields of a resume that its passes treat like one
  of those it has.
- `Resumes` leaves out the Markdown, letters and titles, jobs, and export.
- The foreground wait for a snapshot, messages and their idempotency, the delivery
  of results to the model, and the deletion of conversations are planned.
- Not modelled, because they keep no shared state, write single rows, or are test
  doubles: the in-memory tool store, framing of streams, the model client
  (`llm.py`), configuration and keys, letters, jobs and applications, PDF, fetching
  of job descriptions, migrations, the front end.

## 7. Plan

Done: all modules of section 2, and the proofs of section 5.  Next, in this order:

1. `Turns`: messages, client message ids, delivery of tool results, a close or a
   deletion during a turn.  `JDImport`: the graph of the import with its replays.
2. `MemoryJobs`: the foreground wait, and an abstract specification of a reliable
   task queue that dispatcher, Redis and workers implement.
