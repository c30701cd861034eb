# Clear Record: a verification project

TLA+ models of the parts of Clear Record where an order of steps, a crash or a
failure at the wrong moment can go wrong, the TLC runs that check them, and
TLAPS proofs of the results that matter most.  Paths below are relative to
`src/packages/clear-record/src/clear_record/` of the repository, except
`scripts/`, which is `src/scripts/`; `PROJECT.json` maps every definition that
models code to its lines there.

Contents: [1. The system](#1-the-system) ·
[2. The modules and the code](#2-the-modules-and-the-code) ·
[3. The runs](#3-the-runs) · [4. Fairness](#4-fairness) ·
[5. The proofs](#5-the-proofs) ·
[6. Where code and documents disagree](#6-where-code-and-documents-disagree) ·
[7. Not modelled](#7-not-modelled) · [8. The plan](#8-the-plan) ·
[9. Running it](#9-running-it)

## 1. The system

Clear Record turns recordings of meetings into transcripts on the owner's own
machine.  A *project* holds *meetings*, a meeting has a *workspace* (a directory
with its tapes and everything computed from them) and *runs* of the pipeline over
it: ingest, align, transcribe, merge, attribute, export, publish.  A web console, a
command line and an MCP server for agents are clients of the same service layer;
each is a process of its own, and they share one SQLite registry and the
workspaces.  Nothing else coordinates them.

### Components

| component | code | state it keeps | operations |
|---|---|---|---|
| run lifecycle | `service/lifecycle.py`, `models.py` | -- | the declared states and moves |
| run queue | `service/runs.py`, `store.py` | rows of the table of runs: status, owner, heartbeat, cancel flag, options; the meetings' status | reconcile, reap, quarantine, claim, execute, beat, start, resume, cancel |
| drain thread | `service/runs.py` | `_scheduler`, `_stopping`, `_live` of one `RunManager` | `_ensure_scheduler`, `_drain`, `shutdown`, `wait` |
| a run's options | `service/run_options.py`, `core/options.py`, `pipeline/auto.py`, `service/auto.py` | the options of a row; the manager's copy; the recording set | submit from five surfaces, resolve, `--auto`, resume, restart |
| a run's stream | `service/runs.py`, `cli/runs.py` | the events of a run, the summary of its end | append, page by cursor, follow to the end |
| ingest | `pipeline/stages.py`, `pipeline/workspace.py` | `audio/`, the manifest and what was declared of its sources | settle ids, decode, declare |
| chunk cache and transcribe stage | `pipeline/transcription.py`, `pipeline/workspace.py`, `engine/text.py` | per source: one file of segments a chunk, and a meta that says what they were decoded under | plan, sweep, write meta, the pool, cancel, failure |
| child processes | `core/process.py` | the tracked children of a runner | launch, track, terminate, wait |
| transcript algorithms | `engine/`, `pipeline/transcription.py` | -- | chunk plan, trim and join, lag, merge, cues |
| speakers' names | `pipeline/stages.py`, `engine/` | the names in `segments.json` and in the record | attribute, diarize, reconcile |
| publication of documents | `pipeline/workspace.py`, `store.py` | the documents at the workspace's root, each run's own copies, retained copies, artifact rows | `publish_run` and its `on_preserved` seam |
| speech backends | `providers/` | downloaded models, the compiled helper | fetch, verify, install |
| webhook delivery | `service/webhooks.py` | queue, pending count, idle flag, worker thread, history | emit, flush, close, deliver with retries |
| managed tapes and archive | `service/managed.py`, `tapestore.py`, `archive.py` | tape files, the rows that name them, sealed archives | upload, delete, archive |
| agent drafts | `service/agent_drafts.py`, `agent_flow.py`, `agent_review.py` | an append-only chain of draft versions, one decision; documents and terms it produces | propose, replace, accept, reject; the hello-world check |
| console authentication | `service/auth.py`, `web/auth.py`, `web/app.py` | password, sessions, machine tokens | claim, rescue, sign in, touch, revoke |
| registry | `service/store.py`, `service/migrations/`, `service/glossary.py` | the schema and its stamps; projects, meetings, audit rows; glossary terms | open and migrate, register, edit terms, snapshot |
| node record and tray | `core/node.py`, `tray/`, `web/app.py` | the file that says where this machine's node answers, its local session's file | record, keep, forget, join or start |
| command line | `cli/cli.py`, `cli/runs.py`, `mcp/server.py` | -- | find or start a node, submit, follow |
| console on the tailnet | `web/tailscale.py`, `web/__init__.py` | a `tailscale serve` child and its rule | publish, stop |
| tracker and test scripts | `scripts/` | a Gitea tracker, its dump, a named pipe of tokens | import, repair, drill, audit, share |
| utilities, setup, rendering, frontend, packaging | the rest | -- | -- |

### How they interact

- **Processes over one registry.**  Every process that starts runs builds a
  `RunManager`.  Each manager has one *drain thread* that reaps runs of dead owners,
  claims the oldest queued run and executes it; a *heartbeat* thread that stamps
  the running row and reads its cancel flag; and *request threads*.  What keeps
  processes apart is a partial unique index (one run in flight per meeting), the
  conditions in the `WHERE` of each statement, and the evidence a reaper
  has of an owner's death: a probe of its process id on its own machine, the age of
  its heartbeat elsewhere.  A process opens the registry under SQLite's write lock and
  brings it to the schema of its build.
- **Client to node.**  A command reads the node's record, asks the node it names, starts one
  when nobody answers, submits the run with its options and follows the run's stream
  page by page.  The tray does the same with a node of its own.
- **Run to workspace.**  The executing thread runs the pipeline in the meeting's
  workspace.  The transcribe stage decodes chunks in a pool of threads, each with a
  child process, and keeps them in a cache that a later pass resumes from.
- **Workspace to registry.**  `publish_run` calls back into the registry
  (`on_preserved`) between making its copies and its renames, so that artifact rows
  of earlier runs follow the bytes they recorded.
- **Run to webhooks.**  The end of a run emits an event; the emitter posts it from
  a worker thread of its own, in the same process.
- **Agent to registry and workspace.**  An agent's draft is a file; accepting it writes a
  document or glossary terms, and the next run's decoder hears the terms.
- **Stop.**  A cancel is a column of the row.  It reaches the owner through the
  signal of its own process, or through the heartbeat from any other, and the
  children of the pool through the runner that launched them.

### What is hard here, and what correct means

| component | hard behaviour | correct means |
|---|---|---|
| run queue | transactions of several processes in any order; a decision on a row read earlier; owners that crash, stall, restart under another's process id; a write that fails after another landed; builds of different age | one pipeline at a time; one run in flight per meeting; first come first served; a reap only of what is orphaned; ended runs stay ended; nobody waits for ever |
| drain thread | a start, a shutdown and the thread's own end in any order; a join that times out | one drain thread; a waiter sees all effects; a queued run is drained |
| a run's options | five surfaces, two environments, a restart between submission and claim, a row another build wrote | what was submitted is what runs; explicit before environment before profile; a resume keeps the plan |
| a run's stream | the end of the run, a silent or restarted node, between two reads | every word is printed once; the recorded count is the stream's; a follower returns |
| ingest | files that come, go, change format between passes; a pass killed half-way | one audio per id; a declaration follows its audio |
| chunk cache | a pass killed anywhere and resumed under other options; scoped edits in a row | the meta is true of the bodies; a finished pass is current; work is kept |
| child processes | a child launched while everything is being terminated; one that ignores SIGTERM | no child outlives its cancel; the error is told when all have ended |
| transcript algorithms | a segment across a chunk's boundary; cues that overlap; lags without a majority | what a chunk owns is in the transcript; nobody's words pass another's |
| speakers' names | roles declared between two passes | a microphone is not somebody's name |
| publication | a full disk, a failing statement, death between any two file operations; a run taken for dead that publishes beside its successor | a row reads the bytes it recorded, always; nothing replaced without a copy; the root is one run's work |
| speech backends | several processes fetch one file; cut connections, kills | a model's name holds a whole model; one fetch per process; no stray files but of the killed |
| webhooks | lock-free flag and queue beside a locked count; close against emit; answers lost after they took effect | nothing accepted is lost or overtaken; what is recorded is true; flush answers, and not early |
| managed tapes | upload, delete and archive at once; a crash between row and file | a row names its own bytes; no delete destroys the only copy; an archive that is recorded is whole |
| drafts | a decision on a replaced version; a crash between accepting and recording it; two checks in one scratch folder | one decision, on the version that was seen; its product once; a check shows its own tape |
| authentication | two first claims; the lazy touch of a session against its end and its revocation | one password; no session comes back; the clocks follow the use |
| registry | files of every era, builds of two ages, a crash in a migration; two surfaces that register one folder; a term retired, edited, restored by two editors | an opened registry is whole; the audit is the account; a restore returns the status |
| node record and tray | a node that ends while its successor starts; a keeper whose file or session is taken away | the record names a live server; a session has its file; the tray finds a node again |
| command line | two commands start a node; the child of one exits before the other answers | the winner is found, no node is lost, ensuring ends in time |
| tailnet | a signal, an error, a stubborn child at any step of the start | no mapping outlives its console |
| scripts | answers lost, a run killed; a drill over an earlier one's files; tokens that die with workers | imported once, a clean repair restores, a pass means restored; the pool is never inflated and nobody parked for ever |

`PROJECT.json` lists the hazards at the lines where they bite, with the properties
aimed at them.

## 2. The modules and the code

| module | component | depends on |
|---|---|---|
| `RunLifecycle` | abstract: what `lifecycle.py` declares of one row and of the table | |
| `RunQueue` | the run queue across processes | `RunLifecycle` (implemented, `INSTANCE … WITH`) |
| `DrainThread` | the threads inside one manager | |
| `RunRequest`, `RunStream` | a run as it is asked for; as it is followed | |
| `SourceIdentity`, `ChunkCache`, `ChunkPool`, `TranscriptMerge`, `SpeakerNames`, `Publication` | the stages of the pipeline over one workspace | |
| `ModelFetch`, `HelloCheck` | what transcription needs on disk; the check through all of it | |
| `WebhookDelivery` | the emitter | |
| `ManagedTapes`, `DraftChain`, `ConsoleAuth`, `MachineTokens`, `RegistryOpening`, `Registration`, `GlossaryTerms` | what is kept | |
| `LocalNode`, `NodeStart`, `ServeMapping` | the processes of a node | |
| `TrackerImport`, `TrackerDrill`, `JobServer` | the scripts | |
| `MCRunQueue`, `MCChunkCache`, `MCDrainThread` | instances of one module for TLC: sets of model values, symmetry | the module of that name |
| `MCNode`, `MCPipeline`, `MCStores`, `MCCommands` | instances of several modules side by side | see section 3 |
| `RunQueueProofs`, `RunQueueImplements` | theorems of the run queue | `RunQueue`; `RunQueueProofs` |
| `NodeProofs`, `PipelineProofs`, `CommandsProofs` | theorems of a composite and of its parts | the `MC` module of that name |
| `RegistryProofs`, `FilesProofs` | invariants of the parts of `MCStores` | `RegistryOpening` `MachineTokens` `ConsoleAuth` `Registration` `GlossaryTerms` `RunRequest`; `DraftChain` `ManagedTapes` `TrackerImport` `TrackerDrill` |
| `StoresProofs` | theorems of `MCStores` | `MCStores`, `RegistryProofs`, `FilesProofs` |

Each component is a module on its own: they meet at narrow interfaces (an executing
run *publishes*, *transcribes*, *emits*), and the product of their states would put
every one of them out of TLC's reach without adding an interleaving that a
property could tell apart.  `RunQueue` and `DrainThread` are two grains of the same code: the first takes
the drain thread as always there and asks about processes, the second takes the
registry as one process's and asks how the thread comes and goes.  `ChunkCache` and
`ChunkPool` divide the transcribe stage the same way: what is on disk, and who is running.

### RunLifecycle

`status[r]` and `meeting[r]` of each row, and one action per declared move
(`Enqueue`, `Claim`, `StopRunning`, `OwnerEnds`, and the moves out of the queue).
The guards are the registry's three rules: one active run per meeting, one running row,
oldest first.  `RunQueue` implements it: its variables `status` and `meeting` are the abstract
ones, and every step of it is a step of this module or changes neither.

### RunQueue

*State.*  The columns of the run rows (`status meeting owner beat cancelRequested
format`), of the meetings (`meetingStatus hasTapes`), each process's life (`pid`,
`pidsUsed`, `ready`), its drain thread (`pc` and what it holds in local variables:
`cur`, the row; `seen`, the owner and beat it read; `outcome`, what it will write;
`signal`, the cancel signal it handed to the pipeline), each request thread (`cpc`, `carg`),
the clock, and `announced`, the runs for which a finish was notified.

*Grain.*  **One registry transaction is one action**, so another process, or a crash,
may come between any two of them, and in-process work joins the transaction before it.
Local copies of a row are kept in `seen` and `carg`, so that a decision can be
as stale as in the code.

| actions | code |
|---|---|
| `Boot`, `Crash` | a process constructs its manager (its `reconcile` is the drain's first scan with `ready` false); it dies anywhere |
| `ReadRunning` `JudgeOwner` `InterruptRun` `ReadReapedMeeting` `MarkReapedMeeting` | `_reap` / `reconcile`: read the running rows, judge the owner (`_is_dead`), `interrupt_run`'s compare-and-set, then the meeting |
| `QuarantineRun` `QuarantineMeeting` | a row this build refuses to read is failed and the read repeated |
| `ReadHead` `ClaimRun` | `_drain` picks the oldest queued row; `claim_run` |
| `LoadRun` `BeginRun` | `_execute_run`: load, refuse, mark the meeting running |
| `ReportCancelled` `PipelineRaises` `PipelineReturns` | the pipeline reports, raises or returns: the outcome |
| `EndRun` `EndMeeting` | `_run_pipeline`'s terminal write, then the meeting's, then the notice |
| `Beat` | the heartbeat: stamps the row and carries the cancel flag to the signal |
| `ExecutionError` `ClaimError` `DrainError` `QuarantineError` | a registry or disk error at that place: the handler of last resort, the drain's own handlers, the end of the thread |
| `AskStart` `AskResume` `InsertRun` | `start`, `resume`: check, then `create_run` under the unique index |
| `AskCancel` `StopQueuedRun` `ReadStoppedMeeting` `MarkStoppedMeeting` `RequestCancel` | `cancel`: read, then the queued path or the running path |
| `ForgetTapes`, `Tick` | a workspace loses its tapes while its run waits; time passes |

`Machine` and `HostName` are separate constants because the code probes on the strength of a
name: two processes may share a process table under different names (a renamed host) or
not share one.  `PidReuse` lets the system hand out a dead process's id.  `Build`
orders releases: a row written by a newer one is refused by an older.

### DrainThread

`_ensure_scheduler` and each pass of `_drain` hold the condition `_wake` throughout
and are one action each.  A thread that has left `_drain` is still `is_alive()` for a
moment: that window is a label of its own, `returned`.  `EndRow`, `Effects` and
`LeaveLive` are the order in which a run's end becomes visible, and `ReadState`,
`ReadLive` and `LeaveWait` are `wait`, which reads the row first and the live set second.
The join of `shutdown` may time out at any moment.

### RunRequest and RunStream

`RunRequest` follows one meeting's runs from the five surfaces that ask for one (each builds
its options in its own way: `Built`), through the layers that fill what was left unset
(`Resolve`: argument, environment, profile, default; `--auto`; `--backend auto`), to the
row that keeps the result and the manager's copy of it (`pending`).  `ClaimsRun` executes
the copy or the row; restarts lose the copy, other builds write rows this one cannot
read, environments and models change in between.

`RunStream` is the stream of one run, as the number of its events: a page is the span
`[from, to]` of the events it carried.  Pipeline and workers append, the manager counts at the
end, and a follower's loop is split at its reads (a page, the row, the count, the queue
place, the drain of the tail), because the node may end the run, restart or fall silent
between any two.  How a run ends (`outcome`) is settled before its events are counted, so one
that was asked to stop may still be done, or fail.

### The stages of the pipeline

`SourceIdentity`: a pass of `ingest` settles an id for each unit of audio in a folder
that changes between passes, decodes one file after another, and writes the manifest last;
what was declared of a source in the last manifest is carried to the new one by id.
An id is a stem and the marks put on it, because a file's own name may carry such marks.
`DeclarationsFollowTheAudio` has four premises, one for each way the code is known or meant to part
a declaration from its audio: an id handed to another unit, a file gone from where it was, a name that
reads like a numbered id, and two folded copies of different tapes that ask for one id.  The last two
are findings (section 6); a proof attempt without the fourth met its counterexample, and TLC confirmed it.

`ChunkCache`: a body is what it was decoded under (a plan, a glossary) and the set of terms
its text resembles; the meta is a plan, a glossary and a digest per chunk.  A pass
starts with any options, sweeps a cache it cannot trust file by file (`SweepBody`,
`SweepMeta`), publishes a new meta (`WriteMeta`), and decodes what it did not
keep (`TakeChunk`, `WriteSegments`, `ChunkFails`, `DecoderKilled`), until it is over (`Finish`,
`Raise`) or dies (`Crash`).  `cut` and `swept` are history variables: the chunks a pass relabelled and
never re-decoded, and whether a sweep was cut short.

`ChunkPool`: the workers of that stage down to the runner's steps (`Takes`, `Launches`,
`Tracks`, `NoticesTheCancel`, `Reaps`), the collecting thread's (`Collects`, `Interrupts`, `Sweeps`,
`SecondSweep`, `RaisesTheError`) and the children, one of which may ignore SIGTERM.
`SlowLaunch` lets a launch take longer than the pool's bounded wait; it is off in the run
(section 6).

`TranscriptMerge`: the chunk plan, the trimming and joining of overlapping chunks, the choice of
a lag, and the merge of cues as operators, over any segments a decoder may hear within
bounded recordings; the properties state what the result must be without following the
algorithm.

`SpeakerNames`: `attribute`, `diarize` and `reconcile`, with roles that change between them.

`Publication`: the documents at the root, the scratch files beside them, each run's own copies,
the retained copies, and the artifact rows with the bytes they recorded.  One action
per file operation or statement: find which retained copy already holds the bytes
(`FindHolders`), copy what none holds (`KeepCopy`), stage (`StageFile`), move the rows in
one transaction (`MoveRows`), rename one by one (`SwapFile`), register
(`RegisterArtifact`); a failure or a death between any two.  Two publications may
overlap: a stalled owner's run goes on after it was reaped, under the same scratch names.
`last`, `torn` and `overlap` are history variables that `RootIsLastPublication` reads.

`ModelFetch`: the check before the lock and the check under it, the temporary file, the
verification of a pinned model, the rename; threads of several processes.  `HelloCheck`: one
tape through a scratch folder, under a lock that holds within one process.

### WebhookDelivery

`emit` holds the emitter's lock and is split where the worker, which needs no lock
for the queue or the idle flag, can run in between: `Emit`, `PutJob` per endpoint,
`EmitReturns`, which counts and clears the flag.  The worker is `Get`, one action per post or refusal,
`Record`, `CountDown`.  The receiver may act on an event whose answer is lost.

### What is kept

`ManagedTapes`: an upload is its scratch file, the choice of a free name, the rename, the row
and the audit row; a delete reads its batch, checks one archive for all of it, then per tape
forgets the row and unlinks the file; an archive copies, seals and records.  Bodies are
numbered by upload, so a property can say whose bytes a row names.

`DraftChain`: a request takes a chain's lock, reads, writes (`Proposes`, `Replaces`),
or decides: the work an acceptance promotes is done before the decision is recorded, and
the process may die in between.

`ConsoleAuth`: the claim, the rescue command, sessions with two deadlines, and the touch a
request owes, which is written only once the last one is old enough.  `MachineTokens`: the same of
tokens, and the page a revocation is clicked on.

`RegistryOpening`: the journal mode, the lock, the placing of a file in the chain of revisions
(the stamps of two eras), the revisions, the commit; a second build meanwhile.
`Registration`: each call's transaction under the write lock, and the audit rows written after
it, each of which the registry may refuse.  `GlossaryTerms`: edits as a read and a later write
of the columns that changed, the marker a retire leaves in the notes, which a caller may write whole,
terms that are added as retired, the file a run writes and reads.  `rewritten` marks the terms whose
marker nobody can answer for: their notes were written, or a retire landed on a row that had changed.

### The processes of a node

`LocalNode`: bind, record, publish a session, keep it on a timer, leave; the tray joins the
recorded node or starts its own.  `portOf` says which port a server is told to take (two servers
may be told the same one, and then the second fails to bind).  `NodeStart`: `ensure_node` of several commands with its deadline
and its grace on a clock.  `ServeMapping`: a console's `_run`, with its signal handlers, its
`finally` and its `atexit`; it may raise before they are in, and be signalled again while the handler's
stop waits (`SignalledAgain`).

### The scripts

`TrackerImport`: runs of the import and the repair against a server that answers, refuses or loses
the answer.  `TrackerDrill`: dump, restore, two audits, the verdict.  `JobServer`: the pipe
by its inodes, keepers with the reads and writes of a top-up apart, `init`.

## 3. The runs

Every passing run is exhaustive within its bounds.  Deadlock is checked in `OneMachine`,
`TwoMachines` and `Live`: some process always has a drain loop to go round.  The other models stop
legitimately: in `MixedErrors` an error may have ended the drain thread of the one process left, which
gets no request there, and the rest stop when a bounded counter is used up or the system is quiet.

**Composite runs.**  `MCNode`, `MCPipeline`, `MCStores` and `MCCommands` extend several component
modules that share no variable.  A behaviour of all of them at once is then one behaviour of each, and
no property relates two; so a variable `part`, chosen in the initial state,
says which component this behaviour is of, and the others stay as they begin.  The run explores the
*sum* of their states instead of the product.  For the same reason the properties of
the parts are checked in groups: `StepsHold`, say, is the conjunction of the
action properties of the stores, each of which its own module states and explains.  A component's own
specification (`TapesSpec`, `NodeSpec`, …) can be checked alone.

| run | checks | distinct states |
|---|---|---|
| `OneMachine` | two processes that can probe each other although the host's name differs between them, two request threads of one, process ids handed out again, any crash: **one run in flight per meeting, one pipeline, nobody executes what is not theirs, no reap under an executor, ended runs stay ended** | 1.0 million |
| `TwoMachines` | owners that cannot be probed, so the heartbeat decides; tapes that go away: **every reap that lands has evidence that still holds, no stop nobody asked for, and the rows implement `RunLifecycle`** | 1.4 million |
| `MixedErrors` | an older build beside a newer one, two errors anywhere in a drain thread: **first come first served still, and what was announced as finished stays done** | 1.2 million |
| `Live` | two processes, crashes, restarts, lost claims, a cancel asked of another process than the owner: **one running row, and every queued run and every run asked to stop gets out of its state** | 290 000 |
| `Node` | the drain thread against two callers, the emitter with a flush and a close anywhere, the pool against a cancel with a stubborn child, two servers and the tray around one record: **`ThreadsHold`** (one drain thread, a waiter sees every effect, no child outlives the cancel), **`NothingLostOrReordered`, `OutcomeIsTrue`, `FlushTellsTheTruth`** of the emitter, **`NodeFilesHold`** (the record names a live server, a session has its file) and **`NodeAnswers`**, what is owed to whoever waits | 274 000 |
| `Pipeline` | each stage interrupted anywhere: **`ProvenanceHolds`, `FinishedPassIsCurrent`, `CarriedIsUnaffected`, `ResumeKeepsWork`** of the cache, **`SourcesAndTranscriptHold`** (one audio an id; what a chunk owns is in a fair transcript), **`DeclarationsFollowTheAudio`** of ingest, **`FilesHold`** (rows read their bytes, the root is one publication, whole models, no microphone for a name) and the steps **`PipelineSteps`** | 1.6 million |
| `Stores` | **`TapesHold`, `ReviewsHold`, `RegistryHolds`, `RequestsHold`, `ScriptsHold`**, and that no step of one surface undoes what another recorded, **`StepsHold`** | 2.0 million |
| `Commands` | **`CommandsHold`** (every word of a stream printed, the node found in time), **`ChildrenHold`** (no mapping without its console, the jobserver's pool whole), **`CommandsAnswer`** | 290 000 |
| `LateFailure`, `StrandedMeeting`, `Restarted`, `StaleChunk` | violations, see section 6 | |

### Bounds, and why they are enough

| bound | value | why |
|---|---|---|
| `MaxRuns` | 2 (1 in the violations) | every rule of the queue relates two rows; the third adds a row behind the head, which no action looks at. Resuming makes a second run of the first one's meeting |
| processes, request threads | 2, 1 or 2 | each race is between two actors; two request threads in `OneMachine` because two submissions race, one elsewhere |
| `MaxPid`, `PidReuse` | 2 | with reuse, ids circulate for ever, so `OneMachine` has any number of restarts; without, a process can restart as another incarnation, and `Crash` spares the last process when no id is left to start it again |
| `MaxClock`, `StaleAfter` | 2, 1 | a beat is fresh, on the limit, stale; 0 where the probe decides and time is not read |
| `MaxErrors` | 2 | an error, and a second in the handler of the first |
| `MaxShutdowns` | 2 | a shutdown, a start, and a shutdown again of the thread it started |
| `MaxPasses` | 3 | a full pass and two scoped edits of different terms: the third pass can take the first one's result for the second's |
| chunks, terms, plans | 2 each | one chunk inside and one outside a scope; a term that comes and one that goes; a plan to change to |
| `Documents`, bytes | 2 each | a rename done and one not; bytes that differ |
| events, endpoints, attempts | 2 each | one job in hand and others behind it; a retry |
| pool: `Chunks`, `Workers` | 3, 2 | both workers busy and one chunk pending; one of the children stubborn |
| `NodeEvents` / `MaxNodeEvents` and its like | 2 to 4 | the faults of one behaviour: any of those named, in any order and place; more of them repeat what two at one place can do |
| tapes: `TapeScenarios` | three | archives at once; archive, delete and crash; named uploads, failing audit and crash: each scenario leaves out only what the others have |
| drafts: `MaxVersions`, requests | 3, 2 | a version read, replaced and decided; two requests at once |
| sessions: `MaxNow`, timeouts | 4; 3 and 5 | both deadlines within reach, the idle one movable before the absolute one |
| registries | ten | no stamp, the ladder's, Alembic's, both, and a newer build's; heads 8 and 12 of an older and a newer build |
| requests: `Asks`, `Worlds` | five, two | a backend by name, `--auto`, `--auto` beside named values, a profile with one typed knob, `--auto` over one's own profile |
| ingest: names, tapes, `MaxIngests` | 4, 3, 2 | two formats of one take, a second take beside it, a name that proposes the number the settling would give |
| merge: recordings of 3 and 2 ticks, chunks of 2 with 1 overlap | | two chunks of a source that share a tick, a straddler of the boundary, two sources that overlap |
| commands: deadline 3, grace 2, startup 1 | | the loser's child exits before, at and after the winner's record |
| jobserver: 2 tokens, 1 test, 2 keepers, 2 inits | | a keeper replaced while the other still tops up. One test waits at a time, so how fair several are to each other is not exercised; a second one needs a third token for the premise of `WaitersAreServed`, which is beyond the run. The safety is proved for any number |
| glossary: 2 terms, 2 editors, 3 edits, 1 edit of the file, 2 runs | | an add and two edits that read before either writes; a run before and after a rename |
| webhooks: the record of deliveries | unbounded | the code keeps the last 200 for the status page; delivery never reads it back |
| drill: `Numbers`, `Sample` | 4, 1 | two tickets the sample leaves out: a comment moved from one to the other keeps every sum |
| one meeting in `OneMachine`, `TwoMachines` | | the second meeting matters for the order of the queue, which `MixedErrors` and `Live` have |

Symmetry (request threads of one process; meetings; chunks, terms
and plans) is declared only in runs without liveness properties, over sets whose
members no definition tells apart.

## 4. Fairness

Safety runs have none.  The liveness properties assume what the code's own scheduling provides.

- `Live` (`FairSpec`).  The drain thread does what it has to do: its loop wakes every
  second whether notified or not.  A pipeline goes on reporting; it is *not* assumed to
  return once its run was asked to stop, so that a stop must come through the signal.
  The heartbeat beats, since its thread sleeps a fixed interval.  A request once received
  is carried out.  A process that ended is started again: without that, a run
  queued on a machine nobody switches on waits, rightly.  Submissions and cancels
  themselves are never forced.  Errors are off: one in the drain's reads ends the
  thread (section 6), and then the run does wait.
- `Node` (`NodePartsSpec`).  Threads run and a call of `start` goes on; `QueuedRunsDrain` has the
  premise `PromptThreads`, without which the property is `StartedQueueDrains`, which
  `Restarted` refutes.  A thread inside `emit` goes on; the worker does, because its
  posts time out; a flush is woken once the flag is set; `FlushAnswers` excepts an emitter
  whose worker thread the system refused to start.  A server's startup and shutdown go
  on and the keeper's timer fires; the tray's Restart is pressed again and again, which is the
  premise of `TrayFindsANode`.  Workers of the pool and its collector go on, and a child that was killed
  ends; a decoder is not assumed to return by itself.
- `Commands` (`CommandsSpec`).  A follower goes on with its loop; a console's startup and
  its stop go on, and the tailnet daemon answers a registration; a keeper's loop runs and a
  running test ends.  A waiting test reads the pipe with *strong* fairness: the kernel
  wakes readers in turn, and others take tokens in between.  `EnsuringEndsInTime` needs no
  fairness: the clock does not pass a command's deadline without its poll.

## 5. The proofs

Each theorem holds for every value of the constants that meets the named assumptions of its
component: sizes and bounds are naturals, a request thread belongs to a process, a model value
is not also a datum, an earlier release left a registry's file as it does
(`OpeningAssumption`), a profile names its options once (`RequestAssumption`), a tracker has finitely many
tickets (`DrillAssumption`).  TLC evaluates
all of them in the runs.  The number of processes, threads, meetings, runs, documents, chunks,
terms, uploads, sessions, tickets and so on is arbitrary.

What a theorem needs beyond that is written in it as a premise:

| premise | of | why it is needed |
|---|---|---|
| `NoErrors` (`MaxErrors = 0`) | `HoldsWhatItExecutes` `EndedStay` `Implements` `OneAtATime` `ReapsOrphans` | an error after a run's end makes the handler of last resort fail an ended run (the finding `LateFailure`) |
| `OneBuild` | the same | an older build fails a newer one's running row while its owner works on |
| `OneMachine` | `OneAtATime` `ReapsOrphans` | where an owner cannot be probed, its silence decides, and a stalled owner works on beside its successor |
| `FreshPids`, `HostNamesAreUnique` | `ReapsTheSilent` | a probe tells of another process once an id is handed out again, or of another machine under the same name |
| `~ SlowLaunch` | `ThreadsAreHeld` | a launch that outlasts the pool's bounded wait is swept by nobody (section 6) |
| `2 * Startup < Deadline` | `CommandsAreAnsweredRight` | a node takes up to `Startup` to bind and again to answer; the code waits 20 seconds (`cli.py`) |
| `OneTapeAtATime`: `OneNameEach`, `OneDeleter`, `AuditHoldsBesideDelete` | `TapesAreKept`, `StoresTypesCorrect` | each of the three is a race the code has (section 6): `UploadsNeverOverwrite`, `RecordedTapesAreKept` and `RowsNameTheirTapes` fail without it |

Every run that checks such a property meets the premises of its theorem, or checks the property
where no theorem speaks: `OneMachine` hands process ids out again.

The parts of a composite share no variable, so its invariant is the conjunction of the parts'
(`NodeInv`, `PipelineInv`, `CommandsInv`, `StoresInv`), and a lemma `PartsStep` says that a step of the whole is
a step of one part and leaves the others where they are.  What follows is what each part's
invariant adds to its types, and why.

### RunQueueProofs: the queue with errors, mixed builds and reuse of ids

- `TypeCorrect`: `TypeOK`.  It is not inductive: every table is indexed by `cur[p]` without a
  test, so the invariant adds `BusyHasRow`, that a thread with something to do holds a row that
  was inserted.  `TypeInv` is split in the parts a step can disturb, one lemma each.
- `NodeRunsOne`: `OneRunningRow`, and `MeetingRunsOne`: `OneActivePerMeeting`.  `StepsOfRows`
  says once what a step can do to the rows (nothing, insert into an admitting index, claim while
  nothing runs, or leave a state); both follow from that alone.
- `QueueIsFair`: `FirstComeFirstServed`.  A claim is decided on a read that any number of
  inserts, cancels and claims may have followed.  `RowsInOrder` and `ClaimsTheHead`: nothing is
  ever inserted in front of a row that was read as the head.
- `FinishedIsDone`: `FinishedMeansDone`, and `StopsWereAsked`: `StoppedWasAsked`.  `EndsInv`: a run
  in hand was claimed and is in one thread's hands (`Executed`); a finish on its way to be announced is
  in the row, and an announced one is in the row and in no thread's hands
  (`FinishedStays`); an unclaimed row has no owner (`OwnedIsClaimed`); a signal that is set, and a
  stop on its way into the row, were asked for (`SignalsWereAsked`).

### RunQueueImplements: the lifecycle, and what may be reaped

`HoldInv` carries the refinement: no row is ever refused (`RowsReadable`,
`NothingQuarantined`), the queue's order, a row and a request name a meeting, and the two
halves of ownership: an executing process finds its row running or interrupted under its own
name (`ExecutesWhatItHolds`) and no second process executes it (`ClaimedByOne`).  The unconditional
`update_run` at a run's end is then the owner's move or the move of a reaped owner, both declared.

- `HoldsWhatItExecutes`: `ExecutesWhatItHolds`; `EndedStay`: `EndedRunsStayEnded`; `Implements`:
  `FollowsLifecycle`, the refinement of `RunLifecycle`.
- `OneAtATime`: `OnePipeline`, and `ReapsOrphans`: `ReapsOnlyOrphans`.  `ReapInv` follows a reap from its
  reads to its write: what was read of a row's owner is still so, because a claimed row is never
  queued again (`RemembersTheOwner`); a running pipeline's process lives (`ThreadsLive`), its
  row is running (`RunningWhileHeld`), so the row a thread means to reap is executed nowhere (`ReapersAreRight`).
- `ReapsTheSilent`: `ReapsOnlyTheSilent`, on any number of machines and with errors and builds.
  `EvidenceInv`: no id or beat, written or remembered, is of the future (`PidsInOrder`,
  `BeatsInOrder`), and what condemned an owner condemns it until the statement lands: the beat that was
  read is old for good, and a dead identity is nobody's again (`EvidenceHolds`).  The statement itself
  compares the beat.

### NodeProofs

- *Drain thread.*  `DrainInv`: a thread at work is the one `_scheduler` names (`WorkerIsScheduler`),
  inductive because `_ensure_scheduler` replaces, and `shutdown` forgets, only a thread that has
  ended; a run that is over is in the live set until its effects are done (`LiveIsHeld`, `EndedIsLogged`); a waiter
  that saw the row's end looks at the live set afterwards (`WaiterReadTheEnd`).  `OneThreadDrains`,
  `WaitIsTruthful`.
- *Pool.*  `PoolInv`: no child without a launch, and none alive whose task has ended
  (`ChildFollowsTask`); the runner tracks the children somebody waits for (`TrackedAreWaiting`); past the wait for
  the futures no launch is halfway, and past the second sweep no child runs unasked (`CancelGoesOn`); the
  error waits for the rest (`FailureWaits`).
- *Emitter.*  `CountInv` relates the pending count to the queue, the job in hand and the emit in
  progress; `QueueInv` places the sentinel; `IdleInv` says what the idle flag stands for; `EventInv`
  ties the accepted jobs to the events; `HandInv` and `SentInv` cover the worker's own step.
  `NothingLost`, `FlushIsTruthful` (flush reads the flag without the lock), `OutcomesAreTrue`.
- *Node record.*  `LocalInv`: the recorded server has not taken its record down, or was killed, or is
  starting again (`RecordedRunsOrDied`); a keeper holds a token exactly while it publishes
  (`HoldsWhilePublishing`); no session without a file.
- The theorems: `NodeTypesCorrect`, `ThreadsAreHeld` (`ThreadsHold`), `NodeFilesAreTrue` (`NodeFilesHold`).

### PipelineProofs

- *Chunk cache.*  `PoolInv`: a published meta is the pass's own, and every chunk is in the pool or
  kept for a reason.  `SettledInv`: a body no pass is about to replace is what the meta says it is,
  *and no term in which its glossary differs from the last one could be in its text*.  The second half
  is what makes several scoped edits in a row safe although each looks only at the terms changed
  since the meta before it.  `ProvenanceCorrect`, `FinishedCurrent`, `CarriedUnaffected`, and
  `ResumeKeeps`: work goes only where a pass may throw it away.
- *Publication.*  `RowsReadTheirBytes` does not survive a step on its own: a rename changes the
  bytes under a row that still names the root.  `TargetsPaired`: once the copies are made, every row
  about to lose its document has a pair, and once the rows moved there is none.  `PairsHold`: a pair's place
  holds the root's bytes *as long as a row depends on it*; another run may replace the root
  meanwhile, but only after it has moved the rows itself.  `MadeOnce`: a copy is written once.
  `TargetsHeld` and `ScratchIsOwn` do the same for the documents.  `RootInv` gives
  `RootIsLastPublication`: a run alone among the renames finds its own scratch files (`StagedIsOwn`), and the
  last one to end whole without company left the root (`LastIsWhole`, `MeetingsKnown`).
- *Models.*  `FetchInv`: a thread that downloads has its process's lock (`UnderTheLock`), found the
  file missing (`DownloadsWhatIsMissing`), and a part it is about to rename is whole or unpinned
  (`PartsAreWhole`).
- *Names.*  `NamesInv`: the meta records the references of the last attribute pass, also when that pass
  wrote nothing (`MetaIsHeard`); until a role is edited, only a candidate of that pass has names
  (`DeclaredAreUnnamed`).
- *Check.*  `CheckInv`: two checks at work at once both know it (`OverlapsAreCrossed`), and the tape of one
  that met nobody goes through the folder unmixed (`ItsOwnTape`).
- *Folds.*  The transcript and the ids are folds over sequences, which the library defines by recursion over
  sets of places.  No induction theorem is needed: the set of places at which a claim fails has
  a least element (`Upwards`), which gives that such a function exists (`FoldExists`), what the fold makes of a
  sequence step by step (`EmitFolds`, `SaysFolds`, `BridgesFolds`, `AdmitsFolds`, `StageFolds`,
  `Flattens`), and then any claim about the value after `k` steps.
- *Transcript and record.*  `MergeInv` is short: what is heard lies in its window, the transcript is the merge of
  it, the record is fair to its cues (`FairOf`).  The work is in the operators.  The furthest end so far
  orders what was emitted and covers each instant a chunk owns (`EmitStep`, `EmitAll`); cleaning drops a segment only
  for the one before it with its text (`CleanStep`, `MergedLine`).  A stable sort is the ranking of the places
  by the number of those before them (`Ranks`, `StableRanks`), so it loses and repeats nothing and leaves
  equals in their order (`SortedIs`, `MeritedIs`).  Who is not admitted overlaps somebody admitted earlier, and so at
  least as good (`AdmitAll`, `ResolvedIsFair`).
- *Sources.*  `SourceInv`: a manifest is as some pass wrote it (`ManifestWell`: the ids distinct, the files no copies of
  each other, each id its proposal or a number on it *that all lower ones were taken before*), a pass at work
  stages what the folder says (`PassFollows`), and what is decoded holds its unit's audio (`Heard`).  That a
  free number is found is a pigeonhole (`StageIdIs`).  For the declarations: a source of the last manifest
  whose id this pass did not stage is of a folded copy (`FoldedOnly`), of the one unit that asks for that id where
  copies do not collide (`OneFolded`), and `_settled_id_for` finds exactly that one (`SettledIs`,
  `SettledFinds`); hence each unit inherits what is its own and nothing else (`InheritsItsOwn`, `KeepsItsOwn`).
- The theorems: `PipelineTypesCorrect`, `FilesAreTrue` (`FilesHold`), `SourcesAndTranscriptCorrect`
  (`SourcesAndTranscriptHold`), `DeclarationsAreKept` (`DeclarationsFollowTheAudio`),
  `PipelineStepsAreLegal` (`PipelineSteps`).

### CommandsProofs

- *Stream.*  `StreamInv`: what a follower printed is the stream up to its cursor, without gap or repeat
  (`InOneRow`), a terminal row has its end fixed before it is read, and one who read it drains up to
  that end (`DrainsTheEnd`); the count of a run that is to be done, or failed without a stop, is the whole
  stream from when it is taken, since its pool is joined (`RunOK`).
- *Start.*  `StartInv`: who has the port and who is recorded (`PortInv`), what a command knows of the child
  it started (`ChildInv`), and how far the clock is in each of its waits (`TimeInv`), from which the
  winner is up before a deadline is.
- *Mapping.*  `MappingInv`: a rule is served by its console's child, and a living child has a console that
  will stop it or that ended without (`unguarded`: killed, signalled while unguarded or a second time, or raised).
- *Jobserver.*  `JobInv`: nobody is at a pipe that was replaced, one keeper lives at a time, and `Accounts`: the
  tokens in a pipe and in the hands of tests fit the pool (`LoadsFit`), a top-up that saw the pipe empty
  counts them all among the workers (`SizedFit`), and what it then found missing fits as well
  (`CountedFit`) -- up to the surplus, the exceptions of section 6.  These are cardinalities of sets of any
  number of tests and keepers, so they rest on `FiniteSetTheorems`.
- The theorems: `CommandsTypesCorrect`, `CommandsAreAnsweredRight` (`CommandsHold`), `ChildrenAreKept`
  (`ChildrenHold`).

### RegistryProofs, FilesProofs, StoresProofs

- *Opening.*  `OpeningInv`: the file is one some era left or a step of the open transaction of the
  writer made of it (`OpenerOK`, `DraftOK`), and once somebody is open it is whole.
- *Tokens, sessions.*  A token's stamp is never older than its use by more than the lazy touch allows
  (`StampNear`); a session that was not opened has no clock
  (`AuthInv`), and the others' follow their use.
- *Registration.*  `RegistrationInv`: what an audit row says its call did is how the call ended (`SaysSo`), and every
  create of a call that ended is accounted for as long as its process lived (`IsAccounted`).
- *Glossary.*  `GlossaryInv`: a retired term's marker is the status it was retired from, no two terms share a
  spelling, and an editor at work has read a term that is there (`EditorRow`).  A write over a changed
  row keeps the marker because only a retire makes a row retired, and no other edit changes the marker
  without the status (`EditedRow`, `MergedRow`).
- *Requests.*  `RequestInv`: the manager's copy of a run's options is the row's (`RunsOK`); each row has what was
  asked under the precedence of its surface, ran as it is written, and a resumed one has the plan of the
  run it resumes (`RowOK`).
- *Drafts.*  `DraftInv`: the holder of a chain's lock has the chain as it is and decides the version that
  was seen (`ReqOK`, `LockOK`), an accepted version was produced (`ChainOK`), and the rows of a chain's
  document are of its versions, in their order (`RowsOK`).
- *Tapes.*  `TapesInv`: a body is in one place (`FilesOK`, `BodiesApart`), an upload's target is free until it
  renames and holds its body from then on (`UploadOK`), a row's file is there and its own (`TapeRowsOK`), a
  delete past its check has a verified archive of its whole batch (`DeleteOK`), and two archives are two
  directories (`ArchiveOK`, `DirsApart`).
- *Tracker.*  `ImportInv`: `Sound` has two halves: what a run has read and has left to do fits its position (`Shape`),
  and unless an answer failed or somebody edited beside it, the tickets are as the archive says up to that
  position (`OnTrack`), whatever an earlier run left.  `DrillInv`: a directory with what is not the drill's has no mark of
  the drill; `PassInv`: a drill says of the copy what its comparison finds.  That comparison adds up comments over
  the tickets, a fold; what two such sums have in common with the tickets (`SumsCompare`) is had without
  induction, from a smallest set of tickets on which it would be false.
- The theorems of `StoresProofs`: `StoresTypesCorrect`, `TapesAreKept` (`TapesHold`), `ReviewsAreKept`
  (`ReviewsHold`), `RegistryIsKept` (`RegistryHolds`), `RunsAreAsAsked` (`RequestsHold`),
  `ScriptsAreFaithful` (`ScriptsHold`),
  `NothingIsUndone` (`StepsHold`).

### Only model-checked

Liveness and everything that needs `ENABLED`: `NoRunWaitsForEver`, `NodeAnswers`,
`CommandsAnswer`.  Every invariant and every action property of the passing runs is a theorem.

## 6. Where code and documents disagree

The first four are runs that TLC ends with the behaviour described.

- **`LateFailure`** (`OnlyInFlightRunsFail`).  The handler of last resort in
  `_execute_run` writes `failed` with an unconditional update.  When the error comes
  from the meeting's write, after the run's own, a `done` or `stopped` run becomes
  `failed`; `lifecycle.py` declares FAIL legal from in-flight states only.  The notice is sent
  last, so no *announced* finish is undone: that is `FinishedMeansDone`, which holds.
- **`StrandedMeeting`** (`RunningMeetingHasRun`).  A run's end and its meeting's are two
  transactions, and reconcile looks at running runs only: after a crash between them
  the meeting reads `running` with no run, for good.
- **`Restarted`** (`StartedQueueDrains`).  `_ensure_scheduler` trusts `is_alive()`: a
  start that comes while a stopped drain thread is on its way out starts none.
- **`StaleChunk`** (`EditReachesEveryChunk`).  The meta is published before anything is
  decoded, and with the new glossary's digest for every pending chunk.  A pass that is
  interrupted before it re-decoded a chunk leaves the old body under the new
  digest, and the next pass keeps it.

The others are stated as properties of their modules that TLC refutes, or are what a
property that holds makes an exception for; `PROJECT.json` quotes the sentence each
disagrees with.

| property | what the code does |
|---|---|
| `RecordedTapesAreKept` with two deletes at once | a tape's id is handed out again between the check of a delete and its unlink (`managed.py`) |
| `RowsNameTheirTapes` with a failing audit beside a delete | an upload whose audit row fails takes its file back if no row names it; a delete that forgot the row is still about to unlink that path, which a new upload takes (`managed.py`) |
| `UploadsNeverOverwrite` | two uploads of one name choose the same free path (`managed.py`, `tapestore.py`) |
| `NewestRowIsTheFile` | an acceptance that dies after its document leaves the row of the one before (`agent_review.py`) |
| `ForgetLeavesAnotherNodes` | a node reads the record and unlinks it in two steps (`node.py`) |
| `RevokesWhatThePageShowed` | an id and a label may be another token's by now (`web/app.py`) |
| `DeclarationsAlwaysFollow` | a file's own name may read like a number the settling gave; a folded copy that never had an id is given what is declared under another copy's (`stages.py`) |
| `NoMicrophoneComesBack` | only the label a source has now is dropped (`stages.py`) |
| `RepairRestoresLabels` | a repair leaves labels alone (`migrate_tracker.py`) |
| `FailVerdictFails`, `RefusesOnlyForeign` | a source that fails its comparison passes; a drill refuses its own leftovers (`restore_tracker_dump.py`) |
| `CandidatesReturnAsCandidates`, `NoStaleSpelling` | the marker of a retire is a line of the notes, which a caller may write, and a retire over a changed row records the status it read; a renamed term's old spelling stays in the file (`store.py`, `runs.py`). `RestoreReturnsTheStatus` excepts the first two |
| `EmptyPipesAreToppedUp` | waiting workers count as holders of tokens (`jobserver.py`) |
| exceptions of `NeverInflated`, `NobodyIsParkedForEver` | a top-up's two reads, `init`'s check and unlink (`jobserver.py`) |
| exception of `NoMappingWithoutItsConsole` | the serve child outlives a console that is killed outright, signalled before its handlers are in or again during their stop, or that raises before they are in (`tailscale.py`, `web/__init__.py`) |
| exception of `FinalNamesAreWhole` | a model without a pinned digest may be cut (`backends.py`) |
| `NoChildOutlivesTheCancel` with `SlowLaunch` | a launch that outlasts the pool's bounded wait is swept by nobody (`transcription.py`) |
| exceptions of `RequestsHold` | the MCP tool's chunking; `--profile custom` beside `--auto`; quantized models; a refused submission that already replaced the recording set |

Seen while modelling `RunQueue`, in the model, and without a property: `resume` accepts a run
that is done, although `lifecycle.py` declares it not resumable (`AskResume`); an error in
the drain's reads ends the drain thread until the next submission (`DrainError`); an
older build quarantines the running row of a live newer process, which frees the node for a
second pipeline (`QuarantineRun`), so `OnePipeline` is claimed for one build; a
worker thread that cannot be started leaves an emitter that accepts events and never sends
them (`thread = "unstarted"`).

## 7. Not modelled

- Of the run queue: the ETA, `transcript.ready`, logs.  Which of a loop's reads met an unreadable row: the
  handling is the same.
- Of the chunk cache: the sizing of the pool, the memory sampler, text matching
  itself (a body's set of resembling terms is arbitrary), and two passes over one
  workspace at a time.
- Of webhooks: resolving the configuration, payloads, signatures, the delays of the back-off, the bounded
  history of the status page, and the second sentinel of a repeated close.
- Of the stores: guards that only refuse a request (names, sizes, shapes, paths), single-row
  statements behind one transaction, hashing and cookies, what a draft or a term says.
- Of the command line and the console: parsing, rendering, read-only pages; calibration and
  synthesis, which drive a backend and print.
- Of the scripts: parsing tickets, starting the drill's instance, the release and asset tools.
- Signal processing (cross-correlation, voice activity, embeddings) is numerical: a correlation answers any
  lag, a diarizer any clustering.  The speech backends' decoders are external programs.
- Utilities, setup, benchmark, frontend and packaging keep no state that two actors race for.

## 8. The plan

Done: every component of section 1 that keeps state has its module, and every invariant and action
property of the runs is proved.  What is left, in order:

1. An abstract specification of a draft (decided once, on the version that was seen) and one of
   the emitter (a queue per endpoint), implemented by `DraftChain` and `WebhookDelivery`.
2. Two passes over one workspace at a time, with a worker of a cancelled pass writing during the
   next: `ChunkCache` and `ChunkPool` over one set of variables.

## 9. Running it

`tlc -workers 2 -config RunQueue_Live.cfg MCRunQueue` checks a run: the part of a
configuration's name before the underscore is the component, `MC` and that name the module,
the part after it the run; the composite runs are `Node.cfg`, `Pipeline.cfg`, `Stores.cfg` and
`Commands.cfg` of the `MC` module of that name.  `tlapm RunQueueProofs.tla` checks a proof module.
