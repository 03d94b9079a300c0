# TLA+ models of the AI Advent services

This directory holds the formal models of the parts of the repository whose
correctness depends on the order of events: background work over a database,
calls that outlive the request that made them, operations that span several
stores. The models are written from the code, one action per transaction or per
stretch of event-loop code between two awaits; TLC checks small instances, and
TLAPS proves the main invariants for every value of the constants.

## 1. The system and what is in it

The repository is a course diary: every day adds an experiment, and the later
days are services. The table is the inventory; "hard" names what makes the part
hard to test.

| Part | State it keeps | Operations | What is hard | Correct when |
|---|---|---|---|---|
| Dependency watch service, `day-18-dependency-watch` | SQLite tables `watches`, `executions`; in memory: readiness, store health, one worker | create, summary, scheduler pass (due, claim, lookup, finish), recover at start | crash between claim and finish, clock set back, two processes, worker death | a slot is executed once, skipped slots are counted once, budget and quotas hold, a due watch is served |
| Private assistant service, `day-30-private-assistant-service` over the runtime of `day-27` | in memory: owned calls, per-call flags shared with a pool thread, readiness cache, shared probe, token buckets | chat, status, readiness, shutdown | deadline or disconnect while Ollama generates, unknown outcome of a lost answer, probe older than a failure | Ollama never generates for more than two calls of the service, nobody is told "ready" in recovery, rate limits hold |
| Conversation core, `backend/app/agent*.py`, `sqlite_conversation_store.py`, `validated_turn.py` | SQLite sessions and messages; in memory: session objects with history and busy flag | create, get, turn, delete, reconcile | await between read of history and commit, commit whose outcome is unknown, crash | memory and database agree, pairs are never torn, a turn is committed once |
| Agent playground, `backend/app/playground_*.py` | five SQLite files: memory, profiles, states, policies, setups | create task, complete setup, select profile, new conversation, event, send | one operation writes five databases; crash between any two | a setup can always be completed and ends in one consistent task |
| Task state machine, `task_state.py`, `sqlite_task_state_store.py`, `agent_lifecycle.py` | one row per task with a revision | event with expected revision, read | unknown outcome of a commit, stale revision | revisions count transitions, no event is applied twice |
| History compression (day 9), `history_summarizer.py`, `conversation_summary_store.py` | summary rows with `covered_through` | summarise then answer, compare | two model calls around a compare-and-set | a summary never covers a pair that is not stored |
| Token lab (day 8), `token_lab_api.py`, `token_overflow.py` | in memory: a table of prepared requests, 16 at most, 600 s each | send, prepare, execute, invalidate | capacity and expiry are compared before and after awaits of a counter and of a thread | a preparation is executed at most once, in its session, on the history it was counted for |
| Context strategies (day 10), `context_strategies_*.py`, `fact_extractor.py` | a run per strategy: turns, facts, branches, checkpoint, evaluations | turn, checkpoint, evaluation, reset | a turn commits against a revision read before up to two model calls | a run can always be loaded, branches do not see each other |
| Memory labs (days 11 to 14), `memory_*.py`, `personalization_*.py`, `task_state_lab_service.py`, `invariants_lab_service.py` | a memory file with binding and layers, profiles, states, policies | initialize, mutate, transition, events, sends, probes, comparison | state over several files that no transaction spans; sources read before a generation and used after it | sources hold while a model works, a comparison is fair, no state is reset |
| Experiments (days 1 to 5), `reasoning_service.py`, `temperature_service.py`, `model_benchmark_service.py` | counts and results of one request | a fan of provider calls, gathered | one of several fails, and is counted | what a response cost is in exactly one result, with the calls where calls are counted; the adapters part only where that is meant |
| Optimisation task (days 3 and 5), `reasoning_domain.py`, `model_benchmark_domain.py` | - | solver over all subsets, two verifiers | code written twice | solver exact; the verifiers accept the optimum only, and part only over ids in lower case |
| MCP watch client (days 17 and 18), `mcp_lab_service.py`, `dependency_watch_service.py` | an attempt written before it is sent | one request, read of the answer | answer lost after the watch was made | nobody is told that nothing happened when something may have |
| MCP composition (day 19) | the client's attempt directory; the server's journal and reports | a request whose model calls three tools, gathering, verification | journal, response and file tell of the same calls from three sides | a PASS means the chain ran, a FAIL that it did not |
| MCP orchestration (day 20) | a record of streamed events | a streamed request over two servers, review | stream or record torn anywhere | a PASS means the flow ran |
| RAG experiments (days 22 to 25) | a folder of evidence; in day 24 a review beside it | set up, ask, evaluate, compare | stop between any two writes around a call | the folder claims no more than what happened, and can be read |
| RAG dialogs (day 25), `stateful_rag/`, Android `Day25ViewModel` | SQLite: conversation and task memory; on the phone: draft, pending send, saved state | send, read, reset | late and lost requests, lost answers, death of the phone's process, restart | a turn answers the history its sender saw, what was sent is not lost from the screen |
| Local assistant: knowledge index (day 27) | one published index with selection and fingerprint | show, accept, embed, publish, search | the folder and the model change between the steps, and the folder while its files are read | only what was accepted is indexed, and nothing that was out of date before it was looked at |
| Cited answers (days 24, 27, 29) | - | four parsers of answers | written one after another for the same contract | they agree on what an exact citation is |
| Local assistant optimisation (day 29), `driver.py` | journals of attempts, the ledger and one per variant | plan, announce, worker, close | a killed worker or dead driver leaves Ollama working | nothing is started in a journal that holds an inference of unknown end; budgets hold |
| Project files assistant (day 34), `project_files_assistant/` | files of a run: state, candidate, decision, lock, receipt | stage, reject, apply, reconcile | files written one after another | what happened can be told afterwards, and nothing is overwritten that was not looked at |
| PR review, developer and support assistants (days 31 to 33), discovery script (day 16), day-27 command line, HTTP boundary of day 30, `main.py` | none that outlives a request | pipelines of reads and model calls, wiring | little beyond I/O | not modelled |
| Android app beyond day 25, `android-app` | UI state of one user | calls of the backend | UI life cycle | not modelled |

The parts do not share databases: each lab of the backend opens its own files,
and `main.py` refuses to start when two namespaces resolve to the same path. The
two services and the drivers are separate programs. They can therefore be
modelled one by one; composition happens inside a part (worker with processes and store, chat calls
with readiness, coordinator with session manager and store, phone with backend,
model with tools, journal and verifier).

The hazards of these parts, with the line where each bites and the properties
that cover it, are listed in `PROJECT.json`.

## 2. Plan

Order: the parts whose mistakes are worst and least visible come first; a
component is finished (model, runs, proofs) before the next is begun.

| Step | Module | Abstract specification | State |
|---|---|---|---|
| 1 | `DependencyWatch` | `WatchLedger`, refined in `DependencyWatchLedger` | done; invariants and refinement proved in `DependencyWatchProofs` |
| 2 | `PrivateChat`, and `PrivateReadiness` which composes readiness with it | - | done; safety proved in `PrivateServiceProofs` |
| 3 | `RateBucket` | its own window bound | done; proved in `RateBucketProofs` |
| 4 | `Conversation` | - | done; proved in `ConversationProofs` |
| 5 | `TaskMachine`, `Playground` | `PlaygroundTasks` | done; invariants and refinement proved in `PlaygroundProofs` |
| 6 | `HistoryCompression`, which extends `Conversation` | - | done; proved in `HistoryCompressionProofs` |
| 7 | `TokenLab` | a permission to try once | done; proved in `LaboratoriesProofs` |
| 8 | `ProjectFiles`: the files of a run with a stop between any two writes | a decision taken once | done; proved in `AssistantsProofs` |
| 9 | `MemoryStore`, `MemoryLabs`: the four services of days 11 to 14 | - | done; proved in `LaboratoriesProofs` |
| 10 | `ContextStrategies` | what a load of the run accepts | done; proved in `LaboratoriesProofs` |
| 11 | `RagMemory`, `RagDialogs`: phone and backend | - | done; proved in `AssistantsProofs` |
| 12 | `ModelExperiments`, `BenchmarkTasks` | the best subset, by definition | done; proved in `LaboratoriesProofs` |
| 13 | `RagExperiments`, `OllamaAttempts`, `KnowledgeIndex`, `CitedAnswers` | - | done; proved in `AssistantsProofs` |
| 14 | `Composition`, `Orchestration`, `WatchClient` | what really happened, which the reviews have to find | done; proved in `LaboratoriesProofs` |

Models left: installation and deployment of the servers, the PR review with the
developer and support assistants, the life span of `main.py`, the final facts of
day 20. Proofs left: none of a safety property that a run checks; section 6 says
what stays with TLC.

## 3. The modules and the code

Conventions. An action is one database transaction, or one stretch of event-loop
code between two awaits, with everything it changes. Loss of a process is an
action that keeps the database and resets the rest. A commit has three outcomes
where the code can meet three: done, rolled back, and reported failed although
durable. Ids the code draws at random are model values, never drawn twice. A
variable whose comment begins with "history" records the past for a property; no
guard reads it. Operators whose comment begins with "Seeded fault" are variants
of an operation with a plausible mistake. No specification uses them; they are
there to show that each property can fail.

### Dependency watch service (`DependencyWatch`, source `day-18-dependency-watch`)

| Model | Code |
|---|---|
| `watch`, `rows` | tables `watches` and `executions` (`storage.py`) |
| `lock` | `OwnerLock` on the file beside the database |
| `pc`, `ready`, `healthy` | `lifespan` of `server.py`, `state["ready"]`, `store.healthy` |
| `worker`, `passNow`, `batch`, `run` | the worker task in `run_due_jobs` (`scheduler.py`): its `now`, the rows `due` returned, the claimed run |
| `Launch`, `Recover` | taking the lock, `store.recover` before the service answers |
| `Create` | `create` with its quotas |
| `BeginPass`, `Claim`, `Finish`, `EndPass` | `due`, `claim`, lookup and `finish`, end of the loop body |
| `Stop`, `Exit`, `Crash` | SIGTERM, end of the lifespan, death of the process at any point |
| `ToolStorageError`, `WorkerFails`, `WorkerMeetsBrokenStore` | a failing transaction, `worker_done` |
| `Tick` | the wall clock, which also goes back |

`Tick` comes between any two steps. Most of a pass is synchronous, but it runs
file transactions, and nothing keeps the clock still meanwhile. Only the run that
shows a disagreement with a document (`watch_stale_claim`) does without that: under
its specification `AwaitSpec` the clock moves where the worker awaits something and
nowhere else. `AllowShort` is one constant for all processes; in the code each
process reads it from its own environment at start.

`WatchLedger` is what a client may rely on without knowing of processes or
clocks: a series of checks on the watch's grid, each later than the one before,
each spending one run, then an end; one check at a time. `DependencyWatchLedger`
maps the tables to it. `max_runs` counts failures and interruptions, as in the
code. What a lookup finds, the bearer token and the shape of tool answers are
abstracted; a lookup ends with a result or a `LookupFailure`.

### Private assistant service (`PrivateChat`, `PrivateReadiness`, `RateBucket`, source `day-30-private-assistant-service`)

`PrivateChat` has three kinds of actor. The event loop: `Admit`, `Refuse`,
`GiveUp` (deadline, disconnect or cancellation), `Answer`, `FutureDone` and
`Finished` (the callbacks of the future), `Stop`, `Close`. The pool thread of a
call, `explain_operation` of day 27: `Prepare`, `PrepareFails`, `Begin` (which
tests `cancelled` and sets `submitted` under one lock and gives the lock back),
`Post` (the request to Ollama, a statement later: the call may have been cancelled
between the two), `CallDone`, `CallRejected`, `CallUnknown`, `Parse`. And Ollama,
which ends a generation when it likes. So it can happen that Ollama is given work
for a client that has its answer. What the code does keep is that a call cancelled
by then passes no `begin()` (`NoBeginAfterCancel`), that an inference which starts
for somebody who has gone is owned and starts under recovery
(`LateInferenceIsInDoubt`), and that nobody is admitted while Ollama works, or is
about to, for a call nobody waits for (`NoReplacement`); `OwnershipIsRespected` is
the three together.
`jobs`, `cancelled`, `submitted`, `terminal` are the fields of the same names;
`Recovery` is computed from them as in the service.

`PrivateReadiness` extends it by `GET /readyz`: the cache of five seconds, the
one probe that all askers share under `shield`, its timeout, and `invalidate`,
which the chat calls make. A chat action that fails is conjoined with
`Invalidate`, so the two modules make one state machine.

`RateBucket` is the class `Bucket`. A token has 60 parts, so a second adds
`PerMinute` of them and the arithmetic is exact; the code computes in floats,
whose rounding is not modelled. The clock is read in whole seconds.

### Conversation core (`Conversation`, source `backend/app/agent*.py`, `sqlite_conversation_store.py`)

A turn (user and assistant message) is named by its request. `stored` is the
database, `runtime` the dictionary of `AgentSessionManager` with each object's
`history` and `busy`, `call` the handlers. `StartTurn` is a handler up to the
generation, `TurnFails`, `CommitSucceeds`, `CommitMissesSession`, `CommitFails`
and `CommitInDoubt` are its ends. `Create`, `Open`, `Delete`, `DeleteAgain`,
`DeleteFails` are the session routes, `TurnWithoutSession` and `TurnWhileBusy`
the refusals. `connected` is false after a rollback that failed, when the store
closes its connection.

### History compression (`HistoryCompression`, source `backend/app/history_summarizer.py`, `compression_compare.py`, `conversation_summary_store.py`)

Extends `Conversation`: each action of the core appears conjoined with what it
does to the summary row (`summary`) and to the operation in flight (`work`). A
send reads the row (`Begin`), asks the summarizer when the boundary has moved,
replaces the row under a compare-and-set (`SummarySaved`, `SummaryNotSaved`,
`SummaryInDoubt`), then answers and commits. A comparison claims the session the
same way and saves nothing. Boundaries are counted in turns where the code counts
messages, two to a turn. A summary is the sequence of turns it was made from.

### Tasks and playground (`TaskMachine`, `Playground`, `PlaygroundTasks`, source `backend/app/task_state.py`, `playground_*.py`)

`TaskMachine` is the pure part: definitions, allowed events, resolution. Its
constants are the workflow; `CheckoutV1` and `CheckoutV2` are the shipped ones.
`Playground` keeps the five SQLite files in the record `db`. `_complete` is the
sequence `Steps` of nine transactions; `CreateTask` and `CompleteSetup` run as
many of them as the storage lets, and `StepFits` are the conflicts the code looks
for before each. `StartSend` is the part of a send before the model is awaited,
`SendWithoutCommit`, `SendCommits`, `SendIsSettled` and `SendIsUnsure` its ends;
`unsure` are the two flags `reconciliation_required`, `ReadCurrent` the read that
clears them. `PlaygroundTasks` is the promise: tasks appear whole, move by events,
keep their policy, save a turn once and never after the end. `KeepsThePromise`
maps the five files to it.

### Token lab (`TokenLab`, source `backend/app/token_lab_api.py`, `token_overflow.py`)

`table` is `OverflowPreparations._items`, `op` the operation that claims a
session, `turns` its history. A prepare makes room by expiry and compares the
capacity (`BeginPrepare`), awaits the counter once per candidate size
(`NextCandidate`) and compares again when it inserts (`Grant`), because others
have inserted since. An execute looks the permit up (`BeginExecute`), awaits the
hash of its text in a thread, and then takes the permit out and starts the
generation without an await between (`Attempt`, `ExecuteTooLate`). `Expires` is
the clock passing the ten minutes of one permit; a deletion, a send that commits
and a restart drop permits. `granted` and `attempts` are history.
`TableIsBounded`: no table above its capacity. `PermitIsSpentOnce`: a permit is
good for one attempt, of its own session and on the history that was counted.

### Context strategies (`ContextStrategies`, source `backend/app/context_strategies_*.py`, `fact_extractor.py`)

Eight steps of a scripted dialog under a window, with extracted facts, or over
two branches from the checkpoint after step six. `BeginTurn` claims and reads
the run with its revision, `Extract` is the first of two model calls under the
facts strategy, `CommitTurn` is the transaction that compares the revision.
`BeginEvaluation` and `EndEvaluation` run one per variant, side by side with
each other. `RunIsLoadable` is what `Day10Store.load` demands of the tables, so
it says that no writer leaves a run that can no longer be opened;
`BranchesAreIsolated` that no turn of one branch was made from a turn of the other,
and that an evaluation is of the finished run.

### Memory labs (`MemoryStore`, `MemoryLabs`, source `backend/app/memory_*.py`, `personalization_*.py`, `task_state_lab_service.py`, `invariants_lab_service.py`)

`MemoryStore` has the transactions of the memory file: layers, tasks,
conversations, the binding, pairs whose commit is done, rolled back or in
doubt, and the runtime objects loaded from them. `MemoryLabs` has the services;
`lab` says which of the four a behaviour is of. `holder` is the busy flag that
each service keeps for all its sessions. An operation of several files is one
action per file: `Transition` makes the task, `InitializeState` the state that
may be missing; `SendLayers`, `SendPersonalized`, `SendTask` and `Propose` start
a generation with its sources, `LabSendCommits`, `CommitErrorReported` and
`CommitErrorReconciled` end it, `Reconcile` mends what a doubtful commit left in
day 14. `SourcesHoldWhileGenerating`: while a generation is awaited nothing it
was given changes, so its pair answers the memory it joins. `ComparisonIsFair`:
both probes of a comparison see the same memory and the profiles as frozen.
`StateNeverReset`: a task's state is made once and then only advances, though
making it is repeated by every repair. `LabReceiptsTellTheTruth`: a client told
"saved" or "not saved" was told so rightly, and in day 14 no runtime object
misses a durable pair once recovery is over.

### Experiments and their task (`ModelExperiments`, `BenchmarkTasks`, source `backend/app/openai_*.py`, `reasoning_*.py`, `temperature_*.py`, `model_benchmark_*.py`)

A request opens a slot per strategy, temperature or model (`Serves`). Each slot
calls (`Call`, `CallFails`), reads the response (`Generated`, `StrategyAnswered`,
`TemperatureAnswered`, `ModelAnswered`) and is gathered (`Gather`); an exception
that a slot does not catch ends the request (`SlotRaises`). `ResultsAreAccounted`:
a result counts the usage of every response of its slot, unusable ones included,
and, where it has such a field (days 3 and 5), every call, failed ones included. It
is a success only for a last response that was complete and readable, with one
exception that is the code's: the adapter of days 1 and 2 reports a complete
response without any text as completed, with no content and no error.
`AdaptersAgree`: the adapters, which classify responses separately, part only there
and at a text in another shape, which is an answer to the agents alone; nobody takes
what was cut off or failed.

`BenchmarkTasks` runs the solver's loop over all masks and judges any answer by
both verifiers: `JudgementIsExact` says that the loop holds exactly the best of
the subsets it has passed, and that both verifiers accept only the optimum, listed
once with its true totals, however far off an answer reports its own (`Offsets`).
They judge alike but for ids in lower case, which day 3 reads (`item.upper()`,
asserted in `test_reasoning_domain.py:53-56`) and day 5 does not. The models meet
that difference only if they break the answer schema of day 3, which admits
upper-case ids alone.

### MCP laboratories (`WatchClient`, `Composition`, `Orchestration`, source `backend/app/mcp_*.py`, `dependency_watch_*.py`, `day-18` storage, `day-19-mcp-composition`, `day-20-mcp-orchestration`)

`WatchClient`: the attempt is written down before the request leaves
(`OpenRecord`, `Send`), the model calls a tool, the reply may be lost, and
`CallOutcome` and `Normalized` judge it. The summary the server folds over its
executions is judged by the client's own rules. `ClientIsHonest`: nobody is told
"not sent" or "not observed" of a request that was, "completed" is told if every
call was of the tool asked for and its result of the call's own target and
otherwise not, every summary the server can make is accepted, and the changes it
names are the true ones. A create or a lookup is held against the arguments the
model itself gave the call (`dependency_watch_service.py:67-72`,
`mcp_lab_service.py:74-78`); that these are what the person's prompt meant is
checked nowhere, and not claimed. A summary is also held against the watch of the
request.

`Composition`: one request with its write-ahead record, three tools that each
write the journal before and after, a store of reports that a deadline or a
restart interrupts, and the verifier with its five verdicts. `ChainIsTrue`: from
whatever time the journal is gathered and whichever of its lines are lost, a PASS
was earned by a lookup, a summary of that lookup and a saved report of that
summary, one after the other, and the response lists no other call. A call that was
delivered again and is listed once may hide behind the lost lines, so "the response
lists no other" is all that a PASS says of other calls; with the whole journal it
also says that none of the three ended twice. If nothing was delivered again, such
a chain is passed when journal and file are whole, and failed only when its
file was lost afterwards. The server
writes its journal under a process id that the verifier demands to be one, so a
restart between two calls makes a right chain fail, by design.

`Orchestration`: events of up to `AtOnce` calls at two servers are recorded as
they stream in, the stream breaks or the backend stops anywhere, and the review
reads what was kept. `FlowIsTrue`: a flow the review passes is one that happened,
a whole record of such a flow is passed, and a run on its course whose stream
broke or whose record is cut is never found failed.

Left out: calls that the provider makes after the backend has given up, a provider that
lists calls it did not make, the check of tool imports, final facts, rendering.

### RAG experiments and dialogs (`RagExperiments`, `RagMemory`, `RagDialogs`, source `day-22` to `day-25` pipelines, `backend/app/stateful_rag/`, Android `Day25ViewModel`)

`RagExperiments` begins with the set-up of the folder, a record per question in
order (`WriteRecord`) and in day 24 the review after them (`EndSetup`), and then
walks the questions of one of the pipelines. Each phase is
saved as unknown before the call (`SaveAndSend`) and with its result after it
(`CallPhase` and the steps that process it). In day 24 a result takes two writes:
the record (`ValidateReply`) and then `review.json`, whose support label follows
from it (`WriteReview`). `StopsHalfway` ends the process between any two.
`Compare` is the second command of day 23, with its guard: it reads the folder
again and demands the frozen hash, a finished run and that no comparison was begun.
`EvidenceIsHonest`: no call is made before the folder is set up, a call is made at
most once and marked attempted by then, a result is the one that came, and a turn
reported committed is in the store. `SavedRunIsReadable`: once the folder is set
up, the frozen retrieval of day 23 keeps its hash and the records of day 24 follow
from gate and reply, wherever a run stopped. The review of day 24 may be one
question behind its record; the report then refuses the folder if that question
ended in the model's own abstention, and only then (section 7). A stop during
set-up leaves files missing, and the readers refuse that too: `SavedRunIsReadable`
does not speak of it, and no document promises otherwise. A vector
of day 23 that cannot be used leaves its embedding "unknown". The labels that a
person edits in a review afterwards are not modelled.

`RagMemory` is the reducer of task memory: an item quotes a message of the user
literally and names its turn. `RagDialogs` has the backend's turn
(`Arrives`, `Proposes`, `TurnEndsEmpty`, `CommitRagTurn`), a network that delays
and loses requests and answers, and the phone: `Types`, `SaveDialog`, `Dispatch`,
`AnswerComes`, `GivesUp`, `PhoneDies`, `ReadDialog`, `Confirmed`.
`TurnsFollowWhatWasSeen`: a turn is added only to the history its sender saw,
although a request names no more than a number of turns. `AcceptedIsReadable`:
what the checks of a turn let in, the loader accepts. `DraftsAreNotLost`: the
composer is emptied only when the message sent last is a turn of the dialog, unless
the dialog was reset or the process died. It says nothing of what was typed since:
the composer is open while the outcome of a send is unknown (`Types`), and the read
that confirms the message clears whatever stands in it
(`Day25ViewModel.kt:54`); no document promises otherwise. That a message is never stored twice does not hold (a
request the phone gave up may arrive late) and is promised nowhere.

### Local assistant (`KnowledgeIndex`, `CitedAnswers`, `OllamaAttempts`, source `day-27-local-architecture-assistant`, `day-29-local-assistant-optimization`, `grounded_rag/core.py`)

`KnowledgeIndex`: the selected documents are listed and read one by one
(`ShowSelection`, `ReadDocument`), the selection is accepted, embedded, and inside
the publishing transaction the folder is listed and read one by one again
(`Rescan`, `ReadOnceMore`) before the commit (`PublishIndex`). No transaction covers
the folder: edits and a new version of the model come between any two of these
steps. A search reads the index, checks the folder against it in the same way
(`BeginSearch`, `ReadToCheck`, `FolderIsChecked`), embeds the question, then asks the
index again (`RankChunks`). A scan that meets a file which was listed and is gone
fails. The documents lie in one directory here, so that a scan lists them at once;
in the code each subdirectory is listed in turn.
`IndexIsAccepted`: the published index holds the documents of the composition last
accepted; the hits of a search come from one index and a query of its model, and
each of their texts was in the folder after the search began.
`PublishedIsCurrent`: each text that is published was that of its document at some
moment since the transaction began to look. More is not so: an edit after the file
was read and before the commit is published stale, and it is left to the check of
every search to refuse such an index. `held` is the history this is told by.
`CitedAnswers` gives every small answer to the parser of its shape; `CitationsAgree`
says that what is accepted cites text of the context and lines of the file, and is
acceptable to the other parsers once brought to their shape. `OllamaAttempts` is the driver with worker, deadline and journals. The gate is one of
its file: the command line writes the ledger, and whoever executes a corrected prompt
or the compact contract names a journal, which must then hold no other attempts;
baseline jobs in a journal of corrections are allowed (`VariantFits`). `GateHolds` therefore says, of each journal, that Ollama works
on at most one of its attempts, that whatever Ollama works on is waited for or
closes its journal, that no job is tried twice nor a configuration
tried on after it failed, and that the limits of calls and minutes hold. An attempt of
another journal may run beside a blocked ledger; that is so in the code and no
property denies it. The minutes of an attempt are its wall time, which includes
spawning, killing and reaping the worker (`WallMinutes`, `Overrun`): no attempt
begins when the ninety are used, and the last one may overrun them by that much. A
line of a journal is written whole or not at all.

### Project files assistant (`ProjectFiles`, source `backend/app/project_files_assistant/`)

`StartRunner`, `AskModel`, `LookAround`, `StageFile`, `FinishRun` and `RunFails`
are the loop of model and tools with its limits. Commands are processes: `Decide`,
`TakeLock`, `Approve`, `MarkApplying`, `CreateTarget` and `FillTarget` or
`MakeTemporary`, `LookAgain` and `ReplaceTarget`, `WriteReceipt`, `MarkApplied`,
one write each; `CommandIsKilled` comes between any two. `Reconcile` is a later
command that finds the run half applied. `RunTellsTheTruth`: state, decision,
receipt and target never contradict each other. `TargetIsNeverOverwritten`: an
edit of the person or an earlier draft, whole or in part, is never replaced.

## 4. The runs

| Run | Instance | Distinct states | What it shows |
|---|---|---|---|
| `watch_safety` | 2 watches, 2 processes, clock 0..3, 3 disruptions; or 3 watches for 2 places, one process at a time, clock 0..2, 1 disruption; symmetry | 415,882 | slots are executed or counted once, budgets hold, a run is never ended under its worker, a ready process has recovered, terminal history is final, and the ledger is implemented; the quotas hold while watches run, complete and make room |
| `watch_live` | 2 watches, 1 process, 1 disruption, no symmetry | 180,592 | a check that began ends; a due watch gets its run |
| `service` | 3 calls on a pool of 2, or 1 call beside 2 askers | 222,363 | Ollama works for owned calls only, no call is admitted beside one in doubt, none that was cancelled passes `begin()`; every call is answered, slots come back; "ready" is answered in no state that forbids it, every asker is answered although the probe may hang |
| `conversation` | 2 sessions, 3 requests | 123,879 | contexts are complete, answers are true, memory follows the store, a deleted session stays deleted, a claimed one is released |
| `playground` | 2 tasks, 3 sessions, 2 sends, one event per task; or 1 task through the whole workflow (revision up to 6), 2 sessions, 2 sends; symmetry | 326,054 | every interrupted creation can be completed; ready tasks are complete; one task per reference; receipts are true; a pair is saved under its sources; the five files implement the abstract tasks |
| `laboratories` | one of eleven laboratories per behaviour, see below | 2,534,296 | the model is sent every turn once and in order and a saved summary is readable and only grows; preparations, runs with branches, fans of calls, the task, the memory labs and the MCP clients with their reviews |
| `assistants` | one of five per behaviour, see below | 1,366,604 | rate limits, evidence folders, citations, application of a draft, dialogs |
| `local_assistant` | the index, with symmetry: 2 documents of 2 texts, 2 embedding models, 3 edits, 2 commands; or the driver: 2 models, 2 journals, 4 calls, 3 minutes and 1 of overrun, 2 commands | 7,145,459 | what is indexed was accepted and no older than the look before; the gate of every journal |
| `watch_stale_claim`, `readiness_stale`, `compression_doubt`, `grounded_review` | small | - | the four findings of section 7 |

Some runs are sums. A variable `part`, chosen in the first state and never
changed, says which of several models takes steps; the others rest in one of
their initial states. The parts share no variable, so the run explores the sum,
not the product, of their behaviours and no step of a part is lost: in
`service` the call paths and the readiness of one service, in `laboratories` the laboratories of
days 1 to 20, in `assistants` the programs of days 22 to 34 with the rate limit, in
`local_assistant` the index and the driver. In `watch_safety` and `playground` the
parts are two instances of one model, and `part` says which bounds its states obey
(`IsOfPart` in the MC module).
Properties of one part are conjoined under one name where one question is asked
(`SlotsAndBudgets`, `OwnershipHolds`, `LimitIsExact`, `TasksAreWhole`,
`PreparationsAreSound`, `MemoryLabsAreSound` and the like); their conjuncts keep
names and comments of their own. A statement that joins an invariant `P` with an
action property `A` is `[][P' /\ A]_v`: `P` after every step, `A` of every step
(in the initial states nothing has happened yet that such a `P` speaks of).

Why the bounds suffice. Two watches are the least with which a pass holds a claim
while another watch waits; the quotas need a third, and budgets on both sides of the
limit of a short one (`MCQuotaRequests`); two processes are the least for a second owner; intervals 1 and 2 on a clock of
four readings let slots be skipped, doubled by a clock set back, and overtaken
within a pass; a budget of 2 lets a run follow another; three disruptions allow a
crash during the recovery from a crash that met a failing store. Three calls on a
pool of two is the least at which a call is turned away while two are owned.
Seven tokens a minute does not divide sixty, so Retry-After has to round. The
fourth send of a conversation makes its first summary and the fifth extends it. Two calls and two askers (1,219,205 states) satisfy the
safety of readiness too. Calls, and the operations of a compressed conversation, do
the same: they are told apart by the order in which they come only (`HasCome`,
`ComeInOrder`). Two tasks with at most one event each cover every
interleaving of two creations; the whole workflow, with both ways back, is run
with one task. `MaxDisruptions`, `MaxRevision`, `MaxBinding`, `MaxNow` and the set
`Times` are the only bounds on counters of these models, and each is a guard.

Laboratories. Two sessions over a table of one are the least with which a
permit of one session takes the room that the other had counted on; three permits
let one expire, one be spent and another be made after them. The strategies are
not bounded: a run has eight steps, and all are taken. Two tasks with two conversations, two
profiles, two sends and one revision let a source change in every way between
capture and commit. One slip of the model, the network or the machines
(`MaxSlips`, `FlowSlips`) against a chain of three calls shows each place where
evidence can go missing, and two lost lines of the journal (`MaxLost`) beside any time
to gather from hide both ends of a call; two calls at once (`AtOnce`) let the two branches of the
orchestration interleave. A budget of three checks lets the summary's fold meet a
change, a failure between two snapshots and the return of an old version. Totals
one off in either direction (`Offsets`) fall on both sides of the limit and of the
optimum.

Assistants. Two drafts and three commands: two windows deciding differently and
one that reconciles. Three model and tool calls: the limits are met in every
order. One dialog with three sends and one death: a late request, its resend and
a third turn. Two scripts of two and one questions with a reopening in between.
Four calls in three minutes under two driver commands are enough for the suite of a
model and a stage of it, for a variant's S4 and S6 in a second journal, for two
journals that have work at Ollama at once, and for the minutes to run out and be
overrun. Two documents of two texts, three edits and two indexing commands: a document
appears after acceptance, changes after it was read, or disappears before
publication, and an index is made that differs from the last one in names or texts
only. Three chunks of which two are
in the context, and two citations per answer, cover the wrong chunk, the wrong
quote, the long quote and the repetition.

`MaxTasks`, `MaxChats`, `NKeys`, `MaxSends`, `LabTurns`, `Candidates`, `ModelCalls`,
`ToolCalls`, `RagSends`, `RagDeaths`, `MaxCalls`, `MaxMinutes`, `Overrun`, `DriverCommands`,
`FolderEdits`, `IndexCommands`, `LineCount`, `MaxCitations`, `MaxRuns` are bounds
named in the modules, in guards or in the sets an action chooses from.

Symmetry is used only in runs without liveness properties. Deadlock is checked
where the environment can always act; it is not in the runs of the private
service, where every call may have been answered and the service closed, nor in
the three sums of programs, where a request, a budget of commands or a script comes to its end.

## 5. Fairness

* Watch service: recovery, the steps of the worker and the end of a stopping
  process are code the event loop always reaches; a lookup ends because it runs
  under a timeout of 15 s; a process is started again because the systemd unit
  has `Restart=on-failure`, and after an ordered stop by the operator. Ticks,
  calls, failures and stops are free, and failures are bounded by `MaxDisruptions`.
* Chat: the deadline of a waiter and the callbacks of a future run on the loop;
  a thread goes on because its HTTP calls have timeouts. Nothing is assumed of
  Ollama or of clients: `CallsSettle` therefore excepts calls that are over
  with an unknown outcome, which the service keeps for good, on purpose.
* Readiness: only the timers and wake-ups of the loop. A probe may hang for ever.
* Conversation: a turn ends because the provider client has a timeout.
* The laboratories and assistants are checked for safety only: nothing is assumed
  to happen in them. Their operations end because every provider call has a
  timeout, which is the argument already checked for the conversation core.

## 6. The proofs

TLAPS proves the theorems listed in `PROJECT.json` for every value of the
constants that satisfies the named assumptions.

* `DependencyWatchProofs`. The inductive invariant is the type invariant with
  three parts: `Lifecycle` (the lock, readiness and the worker of a process go
  together), `WorkerSettles` (while a process has a worker, the only running row
  is the one that worker looks up), and `WatchInv`, which ties `next_run_at`, `runs_total` and
  `skipped_slots` of a watch to its rows. Slot accounting alone is not inductive:
  that a claim takes a new slot needs the rows to be ordered and below
  `next_run_at`, and that `_terminalize` does not count twice needs that the
  running row is the last one. Integer division on the grid is isolated in
  lemmas. Assumed: finite watches, positive intervals and budgets.
  `SlotsAndBudgetsAgree` and `RunsAreOwned` put the parts together as the runs
  check them. For the refinement (`LedgerIsImplemented`), `StoreStep` reduces every
  action to one of three changes of the store, a watch created, a run begun, a run
  ended, and each of these is shown to be a step of the ledger; that no two runs
  are under way (`AtMostOneRuns`) makes the reduction possible. `QuotasAreHeld`
  counts the active watches of one and of two states.
* `PrivateServiceProofs`. Per call, `ThreadFits` says which flags go with how far
  the thread has come, `Ownership` that a call is owned from its admission to the
  callback of its future, and for good when its end is unknown, and `WaiterFits`
  that a client who left has left the call cancelled. Ollama's work can then only
  be that of an owned call. The actions of readiness leave the calls alone
  (`ReadinessKeepsCalls`), so the theorems hold beside them; that "ready" is never
  answered in recovery follows from what an asker looks at in the step in which it
  answers, not from the age of the cache.
* `RateBucketProofs`. `LimitIsKept` proves `LimitIsExact`. Its `WindowBound` is
  strengthened by `Covered`: from each accepted request on, what was accepted plus
  what is in the bucket is bounded by the capacity plus the inflow since. `PromiseExact` says the promised time is
  the first second at which the bucket holds a token, which later refusals do not
  change.
* `ConversationProofs`. A turn's context is complete at its commit because its
  session is claimed from the capture on. So the invariant says that at most one
  call of a session is generating (`OneTurnPerSession`), that its context is the
  history of the object (`Claims`), that this history has all stored turns but
  doubtful ones (`Follows`), that stored turns have ended (`Settled`), and that a
  deleted session has no row (`Gone`). `RuntimeIsTheStore` keeps, for every object,
  the order-preserving map of its history into the stored one that leaves out
  doubtful turns only.
* `HistoryCompressionProofs`. The invariant of the core carries over, because
  every action here is one of the core's or leaves its variables alone; on top of
  it, `RowsTyped`, `SessionsFit` (a row's length is within the boundary of the
  stored and of the runtime history, and its turns are a prefix of each of them
  that holds no doubtful turn) and `RequestsFit` (what an operation captured
  still fits what is stored).
* `PlaygroundProofs`. What five files may hold between two writes is said per task
  (`TaskInv`): without a setup nothing of it is there, with a pending one there is
  what some prefix of the creation has left, with a ready one everything is. The
  files after k steps of `_complete` are a recursive function of k; that each
  prefix keeps `FilesInv` is proved with the least k that would not, since the
  induction theorems of the library cannot be used. `FlightInv` says that nothing
  a send was made from changes while it awaits the model, which gives
  `PairsUnderSources` and `SendsStayTrue`. In the refinement (`PromiseIsKept`) a
  task exists for `PlaygroundTasks` when its setup is ready, so all steps of a
  creation but the last are stutters. That tasks of the abstract specification
  stay valid, only grow and are final at the end is then inherited
  (`TasksStayValid`, `TasksGrow`, `FinishedTasksAreFinal`). Two lemmas about any
  valid definition of a state machine say that an allowed event leads to a valid
  state, and to one only.
* `LaboratoriesProofs`. `TokenLab`: what is in the table, or may still get there,
  is unused (`UnusedUntilSpent`), and a permit under examination stays as it was
  found while its session is held (`CheckedPermitsStay`); the bound of the table
  is a statement about finite sets. `MemoryLabs`: the holder of the busy flag
  works from what is stored (`SourcesHold`), whichever of four services it is; a
  send that is awaited is the last one and its conversation is loaded
  (`SendKnows`); and no number of a send is in any conversation before it was
  given out (`ReceiptsAreTrue`), which a receipt alone does not say.
  `ContextStrategies` (`StrategiesInv`): every stored run is loadable
  (`RunFits`), and whoever awaits the model still has before it the run it began
  with (`WorkFits`), a turn alone and evaluations only beside each other. That is
  why what is committed extends the run it was read from although all of it is
  checked again only by number.
  `ModelExperiments` (`ExperimentsInv`): until it ends, a slot has heard nothing but
  the prompt of its second call, and it ends having accounted for all it heard
  (`SlotsFit`); the results a request gathers are what its slots left (`ResultsFit`).
  `BenchmarkTasks` (`TasksInv`): the loop holds its best subsets once each, which
  needs that a mask is determined by its subset, and that no feasible subset
  is worth more than the optimum (by cases on the eight features).
  `Composition` (`CompositionInv`): what completed was made of its input
  (`CallsFit`), each call has one start, and at most one end, after it and in the
  same process (`JournalFits`), a saved report is there unless files were lost
  (`ReportsFit`). From parts of such a journal the verifier can then conclude only
  what the whole one says. `Orchestration` (`OrchestrationInv`): what is recorded
  happened, once, and a lookup was recorded as done before the summary that was
  given it began (`EventsFit`), and nothing is missing while the stream is whole
  (`RecordIsWhole`); three lemmas say that an observed flow was one,
  that a whole record of a flow is observed and that a cut one is not failed.
  `WatchClient` (`WatchClientInv`): the requests and the person need little
  (`RequestFits`, `ToldIsTrue`); most of the proof is about the fold over the
  executions, whose counts, newest snapshot, changes and new versions are kept for
  every prefix (`FoldFits`). A recursive function over a sequence is used through
  its equation, and the least prefix that would break a statement stands in for
  induction (`LeastNumber`: a set of numbers has a least one).
* `AssistantsProofs`. `OllamaAttempts`: in each journal at most one attempt keeps the gate closed
  (`OneBlocks`), whatever Ollama works on is an attempt that does (`ServerIsGuarded`),
  and a worker, orphan or not, belongs to an attempt without an end (`WorkersKnown`);
  the minutes are a fold over the journal, about which `LeastNumber` again
  stands in for induction. `CitedAnswers`: the four parsers compared
  shape by shape. `RagExperiments`: what a record may say of a call that was made,
  not made, or made without an answer (`PhasesHonest`), that nothing ahead of the
  place of the run was called (`NothingAheadCalled`), and what the process knows at each step
  (`StepKnows`); reading a folder back needs `UnknownIsExplained`, and of the review
  that it was there before the walk began, says what each record says but for one
  question, and that one is where the process is, or stopped (`ReviewInv`). `KnowledgeIndex`:
  what a scan has read of a document is among the texts the document has had since
  the scan began (`ScansAreTrue`), whatever was edited meanwhile; nobody publishes between a command's look and its own writing
  (`PreviousIsCurrent`), and a command that may go on without asking has nothing
  new to show (`UnaskedIsShown`). `ProjectFiles`: at most one command is past the
  lock (`LockExcludes`), and each command past it knows what the files say
  (`CommandsKnow`, `StatusIsApproved`), wherever another one was killed.
  `RagMemory` and `RagDialogs`: every item of a reduced memory is an old one or a
  quote of the new message (`Sourced`), change by change, again with the least
  change that would break it. A number of turns is enough to name a history because
  what anybody has seen of an open dialog is its beginning (`Follows`), and an id is
  used once; a turn being processed sees exactly what is stored (`TurnFits`); an
  accepted answer the phone still waits for is of a dialog that is open (`AnswerFits`).

The type invariants of these modules are conjuncts of the inductive invariants
and are proved; the runs list properties that say more. TLC agreed
with the inductive invariants on the instances of the runs before they were proved.

Assumed of the constants, and evaluated by TLC on its instances: sets of names
are finite where something is counted; marks such as `NoDraft`, `NoState` or
`None` are no members of the sets they stand beside (in Python: `None`, or a row
that is not there); budgets, capacities and intervals are natural numbers and,
where the code rejects zero, positive; scripts and the lists
of versions are finite sequences; there is a library to ask for; what an answer
may be off by is an integer; the presets
of the playground are a sequence without repetition, whose names are none of the
steps of a creation.

Only model-checked, and why:

* Liveness (`ChecksSettle`, `DueIsServed`, `CallsSettle`, `EveryAskIsAnswered`,
  `SessionBecomesFree`) is out of the prover's reach. Every other property of a
  passing run is a theorem.

The theorems about the solver and its task are about the feature table of the code,
not about any table. `ContextStrategies` and `ModelExperiments` have no constants:
TLC's runs of them are exhaustive, and the proofs say why they succeed. The
theorem about `WatchClient` is for any lists of versions, repetitions included, and
a watch of any length; those about the MCP chains are for any number of slips and
that about `Orchestration` for any libraries and any number of calls at once.

## 7. Where the code and its documents differ

1. `watch_stale_claim`: the service's specification says the one check after an
   outage is for the last due slot. A pass reads the clock once
   (`scheduler.py:18`) and claims all its watches with that reading, so after the
   lookups of other watches the claimed slot need not be the last one. It is
   still on the grid and counted correctly.
2. `readiness_stale`: the design says a known failure invalidates the readiness
   cache. A probe that began before the failure writes the cache again
   (`service.py:113`). "Ready" is still never answered while a call is in doubt
   (`ReadyAnswerIsSafe`).
3. `compression_doubt`: the specification of day 9 says that after an unconfirmed
   commit the state is determined by a durable read. `AgentSession.commit` keeps
   the old runtime history, which the next operation uses. `ContextIsComplete`
   and `ContextIsWhole` except such turns by name; everything else is proved for
   them too.

4. `grounded_review`: a comment of `load_saved` in day 24 says that an interruption
   can leave the review one checkpoint behind the raw result, and the code there
   brings the mechanical labels of such a review up to date (`report.py:59-60`).
   The support label is left as it is. If the record is an abstention of the model
   itself, the check of the next lines wants `N/A` where the review still says
   `unavailable`, and the report refuses the whole folder. Only that question and
   only that kind of end have this effect (`SavedRunIsReadable`).

Not a disagreement, but worth knowing: in day 34 `decision.json` is written
exclusively before the run's state changes, so a stop between the two leaves a
run that awaits review and can be neither applied nor rejected. `ProjectFiles`
has the state; it is safe, and no document promises otherwise.

## 8. Not modelled

* Prompts, the content and wording of answers, token counts and prices, rendering.
* Ranking and the chunk index of day 21, which are numeric; the functions of text
  that compare a candidate of day 14 with the coding invariants.
* HTTP parsing, bearer checks and configuration (day 30, `main.py`), the terminal of day 27,
  the discovery script of day 16: no state outlives a request.
* PR review, developer and support assistants: pipelines of reads and model
  calls. Android screens beyond `Day25ViewModel`: the state of one user's screen.
* Scripts, installation, deployment and recorded evidence.
* The restart of the private service while Ollama still works on a call of the
  old process: ownership of calls is in memory, and that Ollama is restarted with
  the service is a procedure outside the code, so a property would be about it alone.

Providers (OpenAI, Ollama, Google Maven) appear only through how a call to them
may end. SQLite is taken to give atomic, isolated, durable transactions; where
the code asks what a failed COMMIT did, both answers are possible. Assumed of
people: one operator of the day-29 driver and one indexing command at a time; the
embedding model is not replaced while it embeds; in day 34 one person, who does
not edit the target between a command's last look and its write; in days 22 to
25 one process per folder and no two comparisons at once.
